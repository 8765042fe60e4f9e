----------------------------- MODULE AccountSocket -----------------------------
(***************************************************************************)
(* One downstream WebSocket (Codex or ChatGPT) and the upstream            *)
(* connections that serve it, one at a time.  Client frames and the        *)
(* replays of rejected frames run as jobs on one promise chain; events of  *)
(* the current upstream are handled at once, between the awaits of a job.  *)
(*                                                                         *)
(* The environment is the client (frames 1, 2, ... in that order, and the  *)
(* close), the upstream (what it answers to the frames in `live'), account *)
(* selection (`cooling' and its failures) and the handshake.               *)
(***************************************************************************)
EXTENDS Naturals, Sequences, FiniteSets

CONSTANTS
    Accounts,   \* accounts that may serve the socket
    NoAccount,  \* no account selected
    NumFrames,  \* bound: frames the client sends
    Streams,    \* stream_id values, Untagged for a frame without one
    Untagged,
    StreamOf,   \* the stream_id of each frame
    Creates,    \* frames that are response.create events
    Full,       \* creates with an input array and no previous_response_id
    Batched,    \* may event callbacks run before the jobs that are ready?
    MaxConns    \* bound: upstream connections over the socket's life

Frames == 1..NumFrames

ASSUME CountsAreNat == NumFrames \in Nat /\ MaxConns \in Nat \ {0}
ASSUME BatchedIsBoolean == Batched \in BOOLEAN
ASSUME NoAccountOutside == NoAccount \notin Accounts
ASSUME StreamsTyped == Untagged \in Streams /\ StreamOf \in [Frames -> Streams]
ASSUME FullAreCreates == Full \subseteq Creates /\ Creates \subseteq Frames

VARIABLES
    status,     \* "open"; "closing": the client is being closed; "ended"
    quotaEnded, \* the current account is confirmed exhausted; then, and only
                \* then, the current relay has preserveClientOnClose
    conns,      \* upstream connections so far; the last one is current
    queue,      \* the promise chain: jobs not finished, the first one running
    phase, choice,  \* where the running job is, the account it connects to
    requests,   \* the frames registered as pending, at most one per stream
    started, attempted,     \* per frame: flag and accounts of its Pending
    live,       \* upstream: creates of the current connection in progress
    cooling,    \* accounts that selection skips after a confirmed limit
    sent,       \* client: number of frames sent
    wire,       \* history: <<frame, account>> in the order of forwarding
    seen,       \* history: what the client last received of each frame
    hidden      \* history: rejections kept from the client and unresolved

vars == <<status, quotaEnded, conns, queue, phase, choice, requests, started,
          attempted, live, cooling, sent, wire, seen, hidden>>
chain == <<queue, phase, choice>>
pendings == <<requests, started, attempted>>
links == <<quotaEnded, conns>>
history == <<wire, seen, hidden>>

cur == Len(conns)
account == conns[cur].account
Send(f) == [kind |-> "send", frame |-> f, rejected |-> f]
\* Replays q; f is the frame whose rejection that hides.
Replay(q, f) == [kind |-> "replay", frame |-> q, rejected |-> f]
Jobs == [kind : {"send", "replay"}, frame : Frames, rejected : Frames]
SameStream(f) == {q \in requests : StreamOf[q] = StreamOf[f]}

TypeOK ==
    /\ status \in {"open", "closing", "ended"}
    /\ quotaEnded \in BOOLEAN
    /\ conns \in Seq([account : Accounts, open : BOOLEAN]) /\ cur \in 1..MaxConns
    /\ queue \in Seq(Jobs)
    /\ phase \in {"ready", "choosing", "connecting", "failing"}
    /\ choice \in Accounts \cup {NoAccount}
    /\ requests \subseteq Creates /\ started \subseteq Creates
    /\ attempted \in [Frames -> SUBSET Accounts]
    /\ live \subseteq Creates
    /\ cooling \subseteq Accounts
    /\ sent \in 0..NumFrames
    /\ wire \in Seq(Frames \X Accounts)
    /\ seen \in [Frames -> {"nothing", "output", "rejected", "finished"}]
    /\ hidden \subseteq Frames

\* attach() after the first handshake: warmup, no frame sent yet.
Init ==
    /\ status = "open"
    /\ quotaEnded = FALSE
    /\ \E a \in Accounts : conns = <<[account |-> a, open |-> TRUE]>>
    /\ queue = <<>> /\ phase = "ready" /\ choice = NoAccount
    /\ requests = {} /\ started = {} /\ live = {}
    /\ attempted = [f \in Frames |-> {}]
    /\ cooling = {}
    /\ sent = 0
    /\ wire = <<>> /\ hidden = {}
    /\ seen = [f \in Frames |-> "nothing"]

-----------------------------------------------------------------------------
(* The client *)

\* A ready job is a microtask: it runs before the next event callback, unless
\* the runtime delivers several messages in one tick (Batched).
Settled == Batched \/ queue = <<>> \/ phase # "ready"

\* Bug: a job does not wait for those before it.
BugQueued(job) == IF phase = "ready" THEN <<job>> \o queue ELSE Append(queue, job)

\* queue(): a job joins the promise chain.
Queued(job) == Append(queue, job)

ClientSend ==
    /\ Settled /\ status = "open" /\ sent < NumFrames
    /\ sent' = sent + 1
    /\ queue' = Queued(Send(sent'))
    /\ UNCHANGED <<status, links, phase, choice, pendings, live, cooling, history>>

\* close(): the client's close event, or a full send buffer, request table or
\* client buffer of the proxy.
Close ==
    /\ Settled /\ status # "ended"
    /\ status' = "ended"
    /\ conns' = [conns EXCEPT ![cur].open = FALSE]
    /\ live' = {}
    /\ UNCHANGED <<quotaEnded, chain, pendings, cooling, sent, history>>

\* The close event that follows client.close().
Closed == status = "closing" /\ Close

-----------------------------------------------------------------------------
(* Jobs on the promise chain *)

Head1 == Head(queue)
IsHead(kind, at) == queue # <<>> /\ Head1.kind = kind /\ phase = at
Pop == queue' = Tail(queue) /\ phase' = "ready" /\ choice' = NoAccount

\* remember(): a create on the stream of a pending one takes its place, and
\* counts as started because the two cannot be told apart.
Remember(f, a) ==
    IF f \in Creates
    THEN /\ requests' = (requests \ SameStream(f)) \cup {f}
         /\ started' = IF SameStream(f) = {} THEN started \ {f} ELSE started \cup {f}
         /\ attempted' = [attempted EXCEPT ![f] = {a}]
    ELSE UNCHANGED pendings

\* relay.send() on an open connection of account a.
Transmit(f, a) ==
    /\ wire' = Append(wire, <<f, a>>)
    /\ UNCHANGED <<status, seen>>

\* relay.send() closes the client instead: the connection is not open, the
\* frame cannot be transformed, or the send buffer is full (what the last does
\* to the connection is Overflow, or the end of the socket).
Refuse ==
    /\ status' = "closing"
    /\ UNCHANGED <<wire, seen>>

\* send() with an account that is not exhausted.
Forward ==
    /\ IsHead("send", "ready")
    /\ status # "ended"
    /\ ~quotaEnded
    /\ Remember(Head1.frame, account)
    /\ Pop
    /\ \/ /\ conns[cur].open
          /\ Transmit(Head1.frame, account)
          /\ live' = live \cup ({Head1.frame} \cap Creates)
       \/ Refuse /\ UNCHANGED live
    /\ UNCHANGED <<links, cooling, sent, hidden>>

\* A frame for an exhausted account, or a replay, selects another account.
BeginReplace ==
    /\ phase = "ready" /\ queue # <<>>
    /\ status # "ended"
    /\ Head1.kind = "send" => quotaEnded
    /\ phase' = "choosing"
    /\ UNCHANGED <<status, links, queue, choice, pendings, live, cooling, sent, history>>

\* Jobs that find the socket ended do nothing.
Drop ==
    /\ phase = "ready" /\ queue # <<>>
    /\ status = "ended"
    /\ Pop
    /\ UNCHANGED <<status, links, pendings, live, cooling, sent, history>>

\* Bug: a replay may go back to an account that rejected the frame.
BugExcluded == {account}

Excluded == IF Head1.kind = "send" THEN {account} ELSE attempted[Head1.frame]

\* Selection and the handshake's start.  The handshake of an ended socket is
\* aborted before it starts: then the job fails.
Chosen(a) ==
    /\ phase = "choosing"
    /\ status # "ended"
    /\ cur < MaxConns
    /\ a \notin cooling \cup Excluded
    /\ phase' = "connecting" /\ choice' = a
    /\ UNCHANGED <<status, links, queue, pendings, live, cooling, sent, history>>

\* The upstream that replace() installs; the old one is detached and closed.
Swap ==
    /\ conns' = Append([conns EXCEPT ![cur].open = FALSE],
                       [account |-> choice, open |-> TRUE])
    /\ quotaEnded' = FALSE

\* Bug: the connection is installed although the socket ended meanwhile.
BugConnectedLate ==
    /\ phase = "connecting"
    /\ status = "ended"
    /\ Pop
    /\ Swap
    /\ UNCHANGED <<status, pendings, live, cooling, sent, history>>

\* The socket ended while the handshake succeeded: the connection is dropped.
ConnectedLate ==
    /\ phase = "connecting"
    /\ status = "ended"
    /\ Pop
    /\ UNCHANGED <<status, links, pendings, live, cooling, sent, history>>

ConnectedSend ==
    /\ IsHead("send", "connecting")
    /\ status # "ended"
    /\ Swap
    /\ Remember(Head1.frame, choice)
    /\ \/ Transmit(Head1.frame, choice) /\ live' = {Head1.frame} \cap Creates
       \/ Refuse /\ live' = {}
    /\ Pop
    /\ UNCHANGED <<cooling, sent, hidden>>

ConnectedReplay ==
    /\ IsHead("replay", "connecting")
    /\ status # "ended"
    /\ Swap
    /\ attempted' = [attempted EXCEPT ![Head1.frame] = @ \cup {choice}]
    /\ started' = started \ {Head1.frame}
    /\ \/ /\ Transmit(Head1.frame, choice)
          /\ hidden' = hidden \ {Head1.rejected}
          /\ live' = {Head1.frame}
       \/ Refuse /\ live' = {} /\ UNCHANGED hidden
    /\ Pop
    /\ UNCHANGED <<requests, cooling, sent>>

\* A send job throws: no account, or the handshake failed.  The error's text
\* is awaited, unless the socket has ended.
SendThrows ==
    /\ queue # <<>> /\ Head1.kind = "send" /\ phase \in {"choosing", "connecting"}
    /\ \/ status = "ended" /\ Pop
       \/ status # "ended" /\ phase' = "failing" /\ UNCHANGED <<queue, choice>>
    /\ UNCHANGED <<status, links, pendings, live, cooling, sent, history>>

\* Bug: the failure of a send job ends neither the socket nor the frame.
BugSendFails ==
    /\ phase = "failing"
    /\ Pop
    /\ UNCHANGED <<status, links, pendings, live, cooling, sent, history>>

\* The frame's error event and 1011, whatever happened meanwhile.
SendFails ==
    /\ phase = "failing"
    /\ Pop
    /\ status' = "ended"
    /\ conns' = [conns EXCEPT ![cur].open = FALSE]
    /\ live' = {}
    /\ UNCHANGED <<quotaEnded, pendings, cooling, sent, history>>

\* Bug: the original error is kept from the client.
BugReplayFails ==
    /\ queue # <<>> /\ Head1.kind = "replay" /\ phase \in {"choosing", "connecting"}
    /\ Pop
    /\ requests' = requests \ SameStream(Head1.frame)
    /\ UNCHANGED <<status, links, started, attempted, live, cooling, sent, history>>

\* No alternative: the original error goes to the client, if it is there.
ReplayFails ==
    /\ queue # <<>> /\ Head1.kind = "replay" /\ phase \in {"choosing", "connecting"}
    /\ Pop
    /\ requests' = requests \ SameStream(Head1.frame)
    /\ hidden' = hidden \ {Head1.rejected}
    /\ seen' = IF status = "open" THEN [seen EXCEPT ![Head1.rejected] = "rejected"] ELSE seen
    /\ UNCHANGED <<status, links, started, attempted, live, cooling, sent, wire>>

-----------------------------------------------------------------------------
(* Events of the upstream *)

\* An event about f reaches receive() and the client behind it.
Arrives(f) == Settled /\ status = "open" /\ f \in live

\* The pending request that an event without stream_id is attributed to.
Only == IF Cardinality(requests) = 1 THEN requests ELSE {}

\* The pending request an event about f is attributed to, if any.
Request(f) == IF StreamOf[f] # Untagged THEN SameStream(f) ELSE Only

\* receive() starts the request it found, or else every pending one.
Started(f) == started \cup IF Request(f) # {} THEN Request(f) ELSE requests

\* Output of f that the client receives.
Output(f) ==
    /\ Arrives(f)
    /\ started' = Started(f)
    /\ seen' = [seen EXCEPT ![f] = "output"]
    /\ UNCHANGED <<status, links, chain, requests, attempted, live, cooling, sent, wire, hidden>>

\* A binary frame, which carries no stream.
OutputBinary(f) ==
    /\ Arrives(f)
    /\ started' = started \cup requests
    /\ seen' = [seen EXCEPT ![f] = "output"]
    /\ UNCHANGED <<status, links, chain, requests, attempted, live, cooling, sent, wire, hidden>>

\* response.completed, response.done, response.failed or an ordinary error.
Finish(f) ==
    /\ Arrives(f)
    /\ started' = Started(f)
    /\ requests' = requests \ Request(f)
    /\ live' = live \ {f}
    /\ seen' = [seen EXCEPT ![f] = "finished"]
    /\ UNCHANGED <<status, links, chain, attempted, cooling, sent, wire, hidden>>

\* response.incomplete ends f too, but receive() keeps its request.
FinishIncomplete(f) ==
    /\ Arrives(f)
    /\ started' = Started(f)
    /\ live' = live \ {f}
    /\ seen' = [seen EXCEPT ![f] = "finished"]
    /\ UNCHANGED <<status, links, chain, requests, attempted, cooling, sent, wire, hidden>>

\* The observer of a connection saw a confirmed limit of account a.
Limited(a) ==
    /\ cooling' = cooling \cup {a}
    /\ quotaEnded' = (quotaEnded \/ a = account)

\* A request that a rejection may hide and replay.
Replayable(q) == q \notin started /\ requests = {q} /\ q \in Full

\* f is rejected for quota and its request is replayed.
RejectHidden(f) ==
    /\ Arrives(f)
    /\ Limited(account)
    /\ live' = live \ {f}
    /\ \E q \in Request(f) :
        /\ Replayable(q)
        /\ started' = started \cup {q}
        /\ queue' = Queued(Replay(q, f))
    /\ hidden' = hidden \cup {f}
    /\ UNCHANGED <<status, conns, phase, choice, requests, attempted, sent, wire, seen>>

\* f is rejected for quota and the client receives the rejection.
RejectDelivered(f) ==
    /\ Arrives(f)
    /\ Limited(account)
    /\ live' = live \ {f}
    /\ \A q \in Request(f) : ~Replayable(q)
    /\ started' = Started(f)
    /\ requests' = requests \ Request(f)
    /\ seen' = [seen EXCEPT ![f] = "rejected"]
    /\ UNCHANGED <<status, conns, chain, attempted, sent, wire, hidden>>

\* A quota event of an idle connection, about no frame and without stream_id.
\* The pending request it is attributed to is replayed, or is over for the
\* proxy; without one every request counts as started.
IdleReject ==
    /\ Settled /\ status = "open" /\ conns[cur].open /\ live = {}
    /\ Limited(account)
    /\ \/ \E q \in Only :
            /\ Replayable(q)
            /\ started' = started \cup {q}
            /\ queue' = Queued(Replay(q, q))
            /\ hidden' = hidden \cup {q}
            /\ UNCHANGED requests
       \/ /\ \A q \in Only : ~Replayable(q)
          /\ started' = started \cup IF Only # {} THEN Only ELSE requests
          /\ requests' = requests \ Only
          /\ UNCHANGED <<queue, hidden>>
    /\ UNCHANGED <<status, conns, phase, choice, attempted, live, sent, wire, seen>>

\* A rejection still arrives on a replaced connection: it is observed, by
\* account, but no client is attached.
LateReject(k) ==
    /\ Settled /\ k < cur
    /\ Limited(conns[k].account)
    /\ UNCHANGED <<status, conns, chain, pendings, live, sent, history>>

\* The upstream closes or breaks; the client survives an exhausted one.
UpstreamClosed ==
    /\ Settled /\ conns[cur].open
    /\ conns' = [conns EXCEPT ![cur].open = FALSE]
    /\ live' = {}
    /\ status' = IF quotaEnded THEN status ELSE "closing"
    /\ UNCHANGED <<quotaEnded, chain, pendings, cooling, sent, history>>

\* The relay's buffer limits close both sides.
Overflow ==
    /\ Settled /\ conns[cur].open
    /\ conns' = [conns EXCEPT ![cur].open = FALSE]
    /\ live' = {}
    /\ status' = "closing"
    /\ UNCHANGED <<quotaEnded, chain, pendings, cooling, sent, history>>

\* Bound: a cooldown ends only while the account is not the current one.
CooldownEnds(a) ==
    /\ a \in cooling \ {account}
    /\ cooling' = cooling \ {a}
    /\ UNCHANGED <<status, links, chain, pendings, live, sent, history>>

-----------------------------------------------------------------------------
Job ==
    \/ Forward \/ BeginReplace \/ Drop
    \/ \E a \in Accounts : Chosen(a)
    \/ ConnectedLate \/ ConnectedSend \/ ConnectedReplay
    \/ SendThrows \/ SendFails \/ ReplayFails

Event ==
    \/ \E f \in Frames :
        \/ Output(f) \/ OutputBinary(f) \/ Finish(f) \/ FinishIncomplete(f)
        \/ RejectHidden(f) \/ RejectDelivered(f)
    \/ IdleReject
    \/ \E k \in 1..cur : LateReject(k)
    \/ UpstreamClosed \/ Overflow
    \/ \E a \in Accounts : CooldownEnds(a)

Next == ClientSend \/ Close \/ Job \/ Event

Spec == Init /\ [][Next]_vars

\* Every await of a job settles: the handshake has a 20 s deadline, selection
\* uses requests with timeouts.  A closed client raises its close event.
FairSpec == Spec /\ WF_vars(Job) /\ WF_vars(Closed)

-----------------------------------------------------------------------------
(* Safety *)

\* No upstream connection is leaked: only the current one can be open, and
\* none once the socket ended, also when the client left during a handshake
\* (account-socket.ts replace and close).
OneUpstream ==
    \A k \in 1..cur : conns[k].open => k = cur /\ status # "ended"

\* No account gets the same frame twice, however often it is replayed
\* (attempted in account-socket.ts).
AtMostOncePerAccount ==
    \A i, j \in 1..Len(wire) : wire[i] = wire[j] => i = j

Forwarded(f) == \E i \in 1..Len(wire) : wire[i][1] = f

\* Frames reach an upstream in the order the client sent them, whatever is
\* replayed between them; one is missing only if the client is being closed
\* (the promise chain in account-socket.ts).
InOrder ==
    status = "open" =>
        \A f, g \in Frames : f < g /\ Forwarded(g) => Forwarded(f)

(* Claims of docs/SESSIONS.md that the code does not keep *)

\* "Only confirmed quota exhaustion permits upstream replacement."
OnlyExhaustedReplaced ==
    [][Len(conns') # cur => quotaEnded]_vars

\* "Concurrent generations, requests with a previous ID, and partially
\* delivered responses are not replayed."  A frame is forwarded again only
\* while the client has received nothing of it.
NothingSeenReplayed ==
    [][\A f \in Frames : seen[f] # "nothing" /\ Forwarded(f) =>
        \A i \in 1..Len(wire') : i > Len(wire) => wire'[i][1] # f]_vars

(* Liveness *)

\* A rejection kept from the client is answered by a replay or reaches the
\* client after all, unless the socket ends.
HiddenIsResolved ==
    \A f \in Frames : f \in hidden ~> (f \notin hidden \/ status = "ended")

\* A frame the client sent reaches an upstream, unless the socket ends: no
\* failure of an earlier job blocks the chain.
SentIsForwarded ==
    \A f \in Frames : f <= sent ~> (Forwarded(f) \/ status = "ended")
=============================================================================
