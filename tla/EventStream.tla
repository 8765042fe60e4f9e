------------------------------ MODULE EventStream ------------------------------
(***************************************************************************)
(* The response of a Codex or ChatGPT turn: bootstrap() looks at the first *)
(* bytes for a quota rejection, quotaFailover() may try another account,   *)
(* and observeEvents() watches the bytes that go to the client.            *)
(*                                                                         *)
(* A body is a sequence of symbols: `q' a data line with a quota error,    *)
(* `o' any other data line, `c' a comment, `n' a line end.  Two line ends  *)
(* separate events, and a chunk may end anywhere, between them too.        *)
(***************************************************************************)
EXTENDS Stats, SequencesExt

CONSTANTS
    Bodies,     \* the event streams an upstream may send
    MaxChunk,   \* the symbols of a chunk
    Limit       \* 256 000

Symbols == {"q", "o", "c", "n"}
Text == Seq(Symbols)

ASSUME EventStreamAssumption ==
    /\ Bodies \subseteq Text
    /\ MaxChunk \in Nat /\ Limit \in Nat \ {0}

VARIABLES
    pc,         \* where the turn is in quotaFailover()
    retry,      \* the request is self-contained
    body, pos,  \* what the upstream sends, and how much of it was read
    chunks,     \* bootstrap: the chunks it read
    pending,    \* bootstrap, then observeEvents: the text of an unfinished event
    discard,    \* observeEvents: the rest of an oversized event follows
    observing,  \* observeEvents wraps the body
    delivered,  \* the symbols the client received
    client,     \* how the response ended for the client
    observed,   \* quota errors observeEvents saw
    limits      \* the attempts whose account was limited by bootstrap or a 429

events == <<pc, retry, body, pos, chunks, pending, discard, observing,
            delivered, client, observed, limits>>
fixed == <<retry, body>>
observer == <<discard, observing, observed>>

EventStreamTypeOK ==
    /\ pc \in {"start", "calling", "bootstrap", "rejected", "relaying", "done"}
    /\ retry \in BOOLEAN
    /\ body \in Bodies \cup {<<>>}
    /\ pos \in 0..Len(body)
    /\ chunks \in Seq(Text) /\ {pending, delivered} \subseteq Text
    /\ {discard, observing} \subseteq BOOLEAN
    /\ client \in {"waiting", "ended", "failed", "left"}
    /\ observed \in Nat
    /\ limits \subseteq Attempts

EventStreamInit ==
    /\ pc = "start" /\ retry \in BOOLEAN
    /\ body = <<>> /\ pos = 0
    /\ chunks = <<>> /\ pending = <<>>
    /\ discard = FALSE /\ observing = FALSE
    /\ delivered = <<>> /\ client = "waiting"
    /\ observed = 0 /\ limits = {}

-----------------------------------------------------------------------------
(* Text *)

\* The next symbol ends a frame if it is the second line end.
Feed(parts, s) ==
    IF s = "n" /\ parts.rest # <<>> /\ Last(parts.rest) = "n"
    THEN [frames |-> Append(parts.frames, Front(parts.rest)), rest |-> <<>>]
    ELSE [parts EXCEPT !.rest = Append(@, s)]

Unsplit == [frames |-> <<>>, rest |-> <<>>]

\* split(/\r?\n\r?\n/): the finished frames, and what follows them.
Split(text) == FoldLeft(Feed, Unsplit, text)

\* The data lines of a frame; two of them are one event, which is no error.
Data(frame) == {i \in DOMAIN frame : frame[i] \in {"q", "o"}}
IsQuota(frame) == \E i \in DOMAIN frame : Data(frame) = {i} /\ frame[i] = "q"

\* How many of the frames of some positions are quota errors.
CountQuota(frames, positions) ==
    Cardinality({i \in positions : IsQuota(frames[i])})

-----------------------------------------------------------------------------
(* quotaFailover() up to the response *)

\* execute() for the first account, or for the next one of a retry.
Execute ==
    /\ HttpStart
    /\ pc' = IF http' = "failed" THEN "done" ELSE "calling"
    /\ client' = IF http' = "failed" THEN "failed" ELSE client
    /\ body' = <<>> /\ pos' = 0 /\ chunks' = <<>> /\ pending' = <<>>

Start ==
    /\ pc = "start"
    /\ Execute
    /\ UNCHANGED <<retry, observer, delivered, limits>>

CallFails ==
    /\ pc \in {"calling", "bootstrap"}
    /\ HttpFails
    /\ pc' = "done" /\ client' = "failed"
    /\ UNCHANGED <<fixed, pos, chunks, pending, observer, delivered, limits>>

\* A 429 whose body is a quota error.
Answer429 ==
    /\ pc = "calling"
    /\ HttpAnswers("errors")
    /\ pc' = "rejected"
    /\ limits' = limits \cup {attempt}
    /\ UNCHANGED <<fixed, pos, chunks, pending, observer, delivered, client>>

\* A response without a body.
AnswerEmpty ==
    /\ pc = "calling"
    /\ HttpAnswers("completed") \/ HttpAnswers("errors")
    /\ pc' = "relaying"
    /\ UNCHANGED <<fixed, pos, chunks, pending, observer, delivered, client, limits>>

\* Another error: it passes through, and is observed if it is an event stream.
AnswerError ==
    /\ pc = "calling"
    /\ HttpAnswers("errors")
    /\ body' \in Bodies
    /\ pc' = "relaying" /\ observing' \in BOOLEAN
    /\ UNCHANGED <<retry, pos, chunks, pending, discard, observed, delivered, client, limits>>

\* An event stream, or a body of another type, which passes through.
AnswerStream ==
    /\ pc = "calling"
    /\ HttpOpens
    /\ body' \in Bodies
    /\ pc' \in {"bootstrap", "relaying"}
    /\ UNCHANGED <<retry, pos, chunks, pending, observer, delivered, client, limits>>

\* Bug: any quota error in the chunk is a rejection.
BugDecision(frames, read) ==
    IF \E i \in DOMAIN frames : IsQuota(frames[i]) THEN "rejected"
    ELSE IF frames # <<>> \/ read >= Limit THEN "commit" ELSE "continue"

\* What a chunk of the bootstrap decides: the first data event does, and
\* heartbeats or too many bytes commit the response.
Decision(frames, read) ==
    LET datas == {i \in DOMAIN frames : Data(frames[i]) # {}}
        first == CHOOSE i \in datas : \A j \in datas : i <= j
    IN  IF datas # {} THEN IF IsQuota(frames[first]) THEN "rejected" ELSE "commit"
        ELSE IF frames # <<>> \/ read >= Limit THEN "commit" ELSE "continue"

Commit == pc' = "relaying" /\ observing' = TRUE /\ pending' = <<>>

\* One chunk of the bootstrap.
BootstrapReads(k) ==
    LET chunk == SubSeq(body, pos + 1, pos + k)
        parts == Split(pending \o chunk)
        decision == Decision(parts.frames, pos + k)
    IN  /\ pc = "bootstrap" /\ http = "open"
        /\ pos + k <= Len(body)
        /\ pos' = pos + k
        /\ chunks' = Append(chunks, chunk)
        /\ CASE decision = "continue" -> pending' = parts.rest /\ UNCHANGED <<pc, observing>>
             [] decision = "commit" -> Commit
             [] decision = "rejected" -> pc' = "rejected" /\ pending' = <<>> /\ UNCHANGED observing
        /\ limits' = IF decision = "rejected" THEN limits \cup {attempt} ELSE limits
        /\ UNCHANGED <<stats, fixed, discard, observed, delivered, client>>

BootstrapEnds ==
    /\ pc = "bootstrap" /\ pos = Len(body)
    /\ HttpEnds
    /\ Commit
    /\ UNCHANGED <<fixed, pos, chunks, discard, observed, delivered, client, limits>>

\* A request that needs its previous response, or x-should-retry: no retry.
KeepRejection ==
    /\ pc = "rejected"
    /\ IF http = "open" THEN Commit ELSE pc' = "relaying" /\ UNCHANGED <<observing, pending>>
    /\ UNCHANGED <<stats, fixed, pos, chunks, discard, observed, delivered, client, limits>>

\* No other account: the rejection is returned as it is.
ChooseFails ==
    /\ pc = "rejected" /\ retry
    /\ pc' = "relaying"
    /\ UNCHANGED <<stats, fixed, pos, chunks, pending, observer, delivered, client, limits>>

\* Another account was chosen: the body is cancelled.
CancelRejected ==
    /\ pc = "rejected" /\ retry /\ attempt < MaxAttempts
    /\ HttpCancel
    /\ pc' = "start"
    /\ UNCHANGED <<fixed, pos, chunks, pending, observer, delivered, client, limits>>

\* The cancellation rejects: the client gets an error.
CancelFails ==
    /\ pc = "rejected" /\ retry /\ attempt < MaxAttempts
    /\ HttpCancel
    /\ pc' = "done" /\ client' = "failed"
    /\ UNCHANGED <<fixed, pos, chunks, pending, observer, delivered, limits>>

-----------------------------------------------------------------------------
(* The client reads its response *)

\* Bug: what follows a dropped fragment is taken for an event.
BugOversized(parts) == FALSE

\* The unfinished event is too long, or a part of it was dropped before.
Oversized(parts) ==
    Len(parts.rest) > Limit \/ (discard /\ parts.frames = <<>>)

\* observeEvents: a chunk passes.
Observe(chunk) ==
    LET parts == Split(pending \o chunk)
        taken == {i \in DOMAIN parts.frames : Len(parts.frames[i]) <= Limit /\ (discard => i > 1)}
    IN  /\ observed' = observed + CountQuota(parts.frames, taken)
        /\ pending' = IF Len(parts.rest) > Limit THEN <<>> ELSE parts.rest
        /\ discard' = Oversized(parts)

Deliver(chunk) ==
    /\ delivered' = delivered \o chunk
    /\ IF observing THEN Observe(chunk) ELSE UNCHANGED <<observed, pending, discard>>
    /\ UNCHANGED <<pc, fixed, observing, client, limits>>

Reading == pc = "relaying" /\ client = "waiting"

\* http() hands on the body of an error as it is.
Raw == http = "answered" /\ UNCHANGED stats

\* Bug: the bootstrap's chunks are read from the end.
BugPullBuffered ==
    /\ Reading /\ chunks # <<>>
    /\ chunks' = Front(chunks)
    /\ Deliver(Last(chunks))
    /\ UNCHANGED <<stats, pos>>

\* A pull answered with a chunk of the bootstrap.
PullBuffered ==
    /\ Reading /\ chunks # <<>>
    /\ chunks' = Tail(chunks)
    /\ Deliver(Head(chunks))
    /\ UNCHANGED <<stats, pos>>

\* A pull answered by the upstream.
PullReads(k) ==
    /\ Reading /\ chunks = <<>> /\ http \in {"open", "answered"}
    /\ pos + k <= Len(body)
    /\ pos' = pos + k
    /\ Deliver(SubSeq(body, pos + 1, pos + k))
    /\ UNCHANGED <<stats, chunks>>

Finish(result) ==
    /\ client' = result /\ pc' = "done"
    /\ UNCHANGED <<fixed, pos, chunks, pending, observer, delivered, limits>>

PullEnds ==
    /\ Reading /\ chunks = <<>> /\ pos = Len(body)
    /\ IF http = "open" THEN HttpEnds ELSE UNCHANGED stats
    /\ Finish("ended")

PullFails ==
    /\ Reading /\ chunks = <<>>
    /\ HttpFails \/ Raw
    /\ Finish("failed")

\* The client leaves while it reads: the server cancels the body.
ClientLeaves ==
    /\ Reading
    /\ HttpCancel
    /\ Finish("left")

ClientAborts == Abort /\ UNCHANGED events

\* quotaFailover() and its requests go on, they have timeouts; reading is the
\* client's affair, and so is leaving.
EventSteps ==
    \/ Start \/ CallFails \/ Answer429 \/ AnswerEmpty \/ AnswerError \/ AnswerStream
    \/ \E k \in 1..MaxChunk : BootstrapReads(k)
    \/ BootstrapEnds \/ KeepRejection \/ ChooseFails \/ CancelRejected \/ CancelFails

EventStreamNext ==
    \/ EventSteps \/ ClientAborts
    \/ \E k \in 1..MaxChunk : PullReads(k)
    \/ PullBuffered \/ PullEnds \/ PullFails \/ ClientLeaves

-----------------------------------------------------------------------------
(* Properties *)

\* The client gets the last attempt's bytes, in order and complete when its
\* response ends, whatever the bootstrap buffered and the retries dropped.
DeliveredIntact ==
    /\ IsPrefix(delivered, body)
    /\ client = "ended" => delivered = body

\* The first frame with a data line is a quota error.
FirstIsQuota(frames) ==
    \E i \in DOMAIN frames : IsQuota(frames[i]) /\ \A j \in 1..(i - 1) : Data(frames[j]) = {}

\* quotaFailover() moves a turn to another account only if it is self-contained,
\* nothing was delivered, the account was limited, and its answer was a 429 or an
\* event stream whose first data event is a quota error, however it was cut.
RetriedUnseen ==
    [][attempt' > attempt /\ attempt > 0 /\ pc' # pc =>
        /\ retry /\ delivered = <<>> /\ attempt \in limits
        /\ http = "answered" \/ FirstIsQuota(Split(body).frames)]_<<stats, events>>

\* The quota errors that observeEvents reports are those of the delivered
\* bytes, however they were cut: no fragment of an oversized event counts as an
\* event, and none is missed unless it or the one before is oversized.  At the
\* limit, the line ends that a cut leaves with an event count as its text.
ObservedExactly ==
    observing =>
        LET frames == Split(delivered).frames
            allowed == {i \in DOMAIN frames : Len(frames[i]) <= Limit + 1}
            small == {i \in DOMAIN frames : Len(frames[i]) + 2 <= Limit}
        IN  /\ observed <= CountQuota(frames, allowed)
            /\ observed >= CountQuota(frames, {i \in small : i > 1 => i - 1 \in small})
=============================================================================
