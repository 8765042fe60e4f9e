----------------------------- MODULE MessageStream -----------------------------
(***************************************************************************)
(* The response of a streaming Claude SDK turn: relayMessage().            *)
(* feedSDK() reads the upstream's events, hands the message events to the  *)
(* SDK's accumulator one by one, stores the identifiers of the message     *)
(* after its message_stop, and writes every event to the client.  A write  *)
(* waits for the client to read it.  Stats.http() wraps the result.        *)
(*                                                                         *)
(* Events: "message" (all but the last of a message), "stop", "ping" (and  *)
(* whatever the SDK does not know) and "error".  SSE parsing and the       *)
(* accumulator are the SDK's.                                              *)
(***************************************************************************)
EXTENDS Stats

CONSTANT Streams  \* the event sequences an upstream may send

Kinds == {"message", "stop", "ping", "error"}

\* An upstream reports no error after the end of the message.
ASSUME StreamsAssumption ==
    /\ Streams \subseteq Seq(Kinds)
    /\ \A s \in Streams : \A i, j \in DOMAIN s : s[i] = "stop" /\ s[j] = "error" => j < i

VARIABLES
    stream, next,   \* what the upstream sends, and the event it sends next
    feed,           \* feedSDK: where the generator is
    complete,       \* feedSDK: message_stop was accepted
    upstreamError,  \* feedSDK: an error event was relayed
    upstream,       \* the upstream's response
    output,         \* the readable end of the client's stream
    shown,          \* the events the client received
    stored          \* history.put() has stored the message

messages == <<stream, next, feed, complete, upstreamError, upstream, output, shown, stored>>
flags == <<complete, upstreamError>>

Event == stream[next]

MessageStreamTypeOK ==
    /\ stream \in Streams \cup {<<>>}
    /\ next \in 1..(Len(stream) + 1)
    /\ feed \in {"none", "calling", "reading", "saving", "writing", "closing", "failing", "over"}
    /\ {complete, upstreamError, stored} \subseteq BOOLEAN
    /\ upstream \in {"none", "sending", "ended", "failed", "aborted"}
    /\ output \in {"open", "closed", "failed", "cancelled"}
    /\ shown \in Seq(Kinds)

MessageStreamInit ==
    /\ stream = <<>> /\ next = 1
    /\ feed = "none" /\ upstream = "none" /\ output = "open"
    /\ complete = FALSE /\ upstreamError = FALSE
    /\ shown = <<>> /\ stored = FALSE

-----------------------------------------------------------------------------
(* The call *)

\* send() for the first account, or for the next one after a rejection.
MessageStart ==
    /\ feed = "none"
    /\ HttpStart
    /\ feed' = IF http' = "failed" THEN "over" ELSE "calling"
    /\ UNCHANGED <<stream, next, flags, upstream, output, shown, stored>>

\* The call throws, or answers with an error, which is not relayed as a message.
MessageRefused ==
    /\ feed = "calling"
    /\ HttpFails \/ HttpAnswers("errors")
    /\ feed' = "over"
    /\ UNCHANGED <<stream, next, flags, upstream, output, shown, stored>>

\* A rejection for quota, and another account is chosen.
MessageRejected ==
    /\ feed = "calling" /\ attempt < MaxAttempts
    /\ HttpAnswers("errors")
    /\ feed' = "none"
    /\ UNCHANGED <<stream, next, flags, upstream, output, shown, stored>>

MessageOpens ==
    /\ feed = "calling"
    /\ HttpOpens
    /\ stream' \in Streams
    /\ upstream' = IF signal = "live" THEN "sending" ELSE "aborted"
    /\ feed' = "reading"
    /\ UNCHANGED <<next, flags, output, shown, stored>>

-----------------------------------------------------------------------------
(* feedSDK *)

\* Bug: no finally block.
BugRelease == upstream

\* The end of the generator: an incomplete message aborts its upstream.
Release == IF complete THEN upstream ELSE "aborted"

\* Bug: the event is written before it is accepted.
BugAfterRead == "writing"

\* The message_stop of a message is accepted first.
AfterRead == IF Event = "stop" THEN "saving" ELSE "writing"

\* An event of the upstream.
ReadEvent ==
    /\ feed = "reading" /\ upstream = "sending" /\ next <= Len(stream)
    /\ Event = "stop" => \E i \in 1..(next - 1) : stream[i] = "message"
    /\ feed' = AfterRead
    /\ UNCHANGED <<stats, stream, next, flags, upstream, output, shown, stored>>

\* The event is no JSON, or the accumulator rejects the order of events.
EventRejected ==
    /\ feed = "reading" /\ upstream = "sending" /\ next <= Len(stream)
    /\ Event \in {"message", "stop"}
    /\ upstream' = Release /\ feed' = "failing"
    /\ UNCHANGED <<stats, stream, next, flags, output, shown, stored>>

\* accept(): identifiers the proxy does not know are not stored.
Accept ==
    /\ feed = "saving"
    /\ complete' = TRUE /\ stored' \in BOOLEAN
    /\ feed' = "writing"
    /\ UNCHANGED <<stats, stream, next, upstreamError, upstream, output, shown>>

AcceptFails ==
    /\ feed = "saving"
    /\ stored' \in BOOLEAN
    /\ upstream' = Release /\ feed' = "failing"
    /\ UNCHANGED <<stats, stream, next, flags, output, shown>>

\* The client takes the event; after an error event the generator returns.
Write ==
    /\ feed = "writing" /\ output = "open" /\ http = "open"
    /\ shown' = Append(shown, Event)
    /\ next' = next + 1
    /\ upstreamError' = (Event = "error")
    /\ feed' = IF Event = "error" THEN "closing" ELSE "reading"
    /\ upstream' = IF Event = "error" THEN Release ELSE upstream
    /\ UNCHANGED <<stats, stream, complete, output, stored>>

\* The client's stream is gone: the write throws.
WriteFails ==
    /\ feed = "writing" /\ output # "open"
    /\ upstream' = Release /\ feed' = "failing"
    /\ UNCHANGED <<stats, stream, next, flags, output, shown, stored>>

\* The end of the upstream's response: an error if the message is incomplete.
ReadEnd ==
    /\ feed = "reading" /\ upstream = "sending" /\ next > Len(stream)
    /\ upstream' = IF complete THEN "ended" ELSE Release
    /\ feed' = IF complete THEN "closing" ELSE "failing"
    /\ UNCHANGED <<stats, stream, next, flags, output, shown, stored>>

\* The upstream breaks off, or has been aborted.
ReadFails ==
    /\ feed = "reading"
    /\ upstream' = IF upstream = "sending" THEN "failed" ELSE upstream
    /\ feed' = "failing"
    /\ UNCHANGED <<stats, stream, next, flags, output, shown, stored>>

\* accumulator.done(): the client's stream is closed, or aborted with the
\* error.  An incomplete message that ends with an error event is closed too.
Settle ==
    /\ feed \in {"closing", "failing"}
    /\ output' = CASE output # "open" -> output
                   [] feed = "closing" \/ upstreamError -> "closed"
                   [] OTHER -> "failed"
    /\ upstream' = IF output' = "failed" /\ upstream = "sending" THEN "aborted" ELSE upstream
    /\ feed' = "over"
    /\ UNCHANGED <<stats, stream, next, flags, shown, stored>>

-----------------------------------------------------------------------------
(* The client *)

\* The reader of http() finds the end or the failure of the stream.
MessageEnds ==
    /\ \/ output = "closed" /\ HttpEnds
       \/ output = "failed" /\ http = "open" /\ HttpFails
    /\ UNCHANGED messages

\* writer.closed rejects: the upstream is aborted.
OnCancel == IF upstream = "sending" THEN "aborted" ELSE upstream

MessageCancelled ==
    /\ http = "open" /\ HttpCancel
    /\ output' = IF output = "open" THEN "cancelled" ELSE output
    /\ upstream' = OnCancel
    /\ UNCHANGED <<stream, next, feed, flags, shown, stored>>

\* The signal is the upstream request's too.
MessageAborts ==
    /\ Abort
    /\ upstream' = OnCancel
    /\ UNCHANGED <<stream, next, feed, flags, output, shown, stored>>

\* What goes on by itself: not the upstream's events nor the client's reads.
FeedSteps ==
    \/ MessageStart \/ MessageRefused \/ MessageRejected \/ MessageOpens
    \/ EventRejected \/ Accept \/ AcceptFails \/ WriteFails \/ Settle
    \/ (upstream # "sending" /\ ReadFails)

MessageStreamNext ==
    \/ FeedSteps \/ ReadEvent \/ Write \/ ReadEnd \/ ReadFails
    \/ MessageEnds \/ MessageCancelled \/ MessageAborts

-----------------------------------------------------------------------------
(* Properties *)

\* A message is stored only if its message_stop was read, and whatever the
\* client can continue from was accepted first: it sees message_stop only
\* after the message was offered to the history.  Its stream ends without a
\* failure only after message_stop or an error event of the upstream.
SavedBeforeSeen ==
    LET Shown(event) == \E i \in DOMAIN shown : shown[i] = event
    IN  /\ stored => \E i \in 1..next : i <= Len(stream) /\ stream[i] = "stop"
        /\ Shown("stop") => complete
        /\ output = "closed" => Shown("stop") \/ Shown("error")

\* No upstream generates for nobody: once the client's stream is closed, failed
\* or cancelled, the upstream's response is over or aborted, without waiting for
\* the ten minutes of a turn.
UpstreamReleased == output # "open" => upstream # "sending"
=============================================================================
