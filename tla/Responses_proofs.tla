--------------------------- MODULE Responses_proofs ---------------------------
(***************************************************************************)
(* Every attempt of a turn is counted once, for any number of attempts,    *)
(* any bodies and any chunks.  Whatever relays the body, a step is one of  *)
(* the operations of Stats or leaves the counters alone; so the proof has  *)
(* two parts that do not depend on each other.  The parts that follow are  *)
(* about the messages of a Claude SDK turn; texts and what Split makes of  *)
(* them, by induction; the bytes, the retries and the observed quota       *)
(* errors of a Codex turn; and the types of all variables.                 *)
(***************************************************************************)
EXTENDS Responses, FiniteSetTheorems, SequenceTheorems, WellFoundedInduction, TLAPS

\* What a step may do to the counters.
StatsStep ==
    \/ HttpStart \/ HttpOpens \/ HttpFails \/ HttpEnds \/ HttpCancel \/ Abort
    \/ HttpAnswers("errors") \/ HttpAnswers("completed")
    \/ UNCHANGED stats

LEMMA ClaudeCounts == MessageStreamNext => StatsStep
<1> SUFFICES ASSUME MessageStreamNext PROVE StatsStep
  OBVIOUS
<1>1. CASE FeedSteps
  BY <1>1 DEF FeedSteps, MessageStart, MessageRefused, MessageRejected, MessageOpens,
              EventRejected, Accept, AcceptFails, WriteFails, Settle, ReadFails, StatsStep
<1>2. CASE ReadEvent \/ Write \/ ReadEnd \/ ReadFails
  BY <1>2 DEF ReadEvent, Write, ReadEnd, ReadFails, StatsStep
<1>3. CASE MessageEnds \/ MessageCancelled \/ MessageAborts
  BY <1>3 DEF MessageEnds, MessageCancelled, MessageAborts, StatsStep
<1> QED
  BY <1>1, <1>2, <1>3 DEF MessageStreamNext

LEMMA CodexCounts == EventStreamNext => StatsStep
<1> SUFFICES ASSUME EventStreamNext PROVE StatsStep
  OBVIOUS
<1>1. CASE Start \/ CallFails \/ Answer429 \/ AnswerEmpty \/ AnswerError \/ AnswerStream
  BY <1>1 DEF Start, Execute, CallFails, Answer429, AnswerEmpty, AnswerError, AnswerStream,
              StatsStep
<1>2. ASSUME NEW k \in 1..MaxChunk, BootstrapReads(k) PROVE StatsStep
  BY <1>2 DEF BootstrapReads, StatsStep
<1>3. CASE BootstrapEnds \/ KeepRejection \/ ChooseFails \/ CancelRejected \/ CancelFails
  BY <1>3 DEF BootstrapEnds, KeepRejection, ChooseFails, CancelRejected, CancelFails, StatsStep
<1>4. ASSUME NEW k \in 1..MaxChunk, PullReads(k) PROVE StatsStep
  BY <1>4 DEF PullReads, StatsStep
<1>5. CASE PullBuffered \/ PullEnds \/ PullFails \/ ClientLeaves \/ ClientAborts
  BY <1>5 DEF PullBuffered, PullEnds, PullFails, Raw, ClientLeaves, ClientAborts, StatsStep
<1> QED
  BY <1>1, <1>2, <1>3, <1>4, <1>5 DEF EventStreamNext, EventSteps

LEMMA StepCounts == [Next]_vars => StatsStep
BY ClaudeCounts, CodexCounts DEF Next, Claude, Codex, vars, StatsStep

-----------------------------------------------------------------------------
Fields == {"total", "active"} \cup Outcomes

\* The running attempts are some of those that were started.
Counting ==
    /\ row \in [Fields -> Int]
    /\ attempt \in Nat
    /\ running \subseteq 1..attempt
    /\ CountedOnce

LEMMA RunningFinite == Counting => IsFiniteSet(running)
<1> SUFFICES ASSUME Counting PROVE IsFiniteSet(running)
  OBVIOUS
<1>1. attempt \in Int /\ running \subseteq 1..attempt
  BY DEF Counting
<1>2. IsFiniteSet(1..attempt)
  BY <1>1, FS_Interval
<1> QED
  BY <1>1, <1>2, FS_Subset

\* done() moves an attempt from active to its outcome.
LEMMA DoneCounts ==
    ASSUME Counting, NEW outcome \in Outcomes, Done(attempt, outcome), UNCHANGED attempt
    PROVE  Counting'
<1>1. CASE attempt \in running
  <2>1. /\ row' = Counted(attempt, outcome) /\ running' = running \ {attempt}
        /\ outcome \in Outcomes /\ outcome \notin {"total", "active"}
    BY <1>1 DEF Done, Outcomes
  <2>2. Cardinality(running') = Cardinality(running) - 1
    BY <1>1, <2>1, RunningFinite, FS_RemoveElement
  <2>3. /\ row' \in [Fields -> Int]
        /\ row'.active = row.active - 1 /\ row'.total = row.total
        /\ row'[outcome] = row[outcome] + 1
        /\ \A other \in Outcomes \ {outcome} : row'[other] = row[other]
    BY <2>1 DEF Counting, Counted, Fields, Outcomes
  <2>4. row'.completed + row'.errors + row'.cancelled = row.completed + row.errors + row.cancelled + 1
    BY <2>3 DEF Counting, Fields, Outcomes
  <2>5. row.active \in Int /\ row.completed \in Int /\ row.errors \in Int /\ row.cancelled \in Int
    BY DEF Counting, Fields, Outcomes
  <2> QED
    <3>1. row.active = Cardinality(running) /\ row.total = attempt
          /\ row.total = row.active + row.completed + row.errors + row.cancelled
      BY DEF Counting, CountedOnce
    <3>2. /\ row'.completed \in Int /\ row'.errors \in Int /\ row'.cancelled \in Int
      BY <2>3 DEF Fields, Outcomes
    <3>3. row'.active = Cardinality(running') /\ row'.total = attempt'
      BY <2>2, <2>3, <3>1
    <3>4. row'.total = row'.active + row'.completed + row'.errors + row'.cancelled
      BY <2>3, <2>4, <2>5, <3>1, <3>2
    <3>5. attempt' \in Nat /\ running' \subseteq 1..attempt'
      BY <2>1 DEF Counting
    <3> QED
      BY <2>3, <3>3, <3>4, <3>5 DEF Counting, CountedOnce
<1>2. CASE attempt \notin running
  BY <1>2 DEF Done, Counting, CountedOnce
<1> QED
  BY <1>1, <1>2

LEMMA StartCounts ==
    ASSUME Counting, HttpStart PROVE Counting'
<1>1. attempt' = attempt + 1 /\ attempt' \notin running
  BY DEF HttpStart, Counting
<1>0. /\ row.active = Cardinality(running) /\ row.total = attempt
      /\ row.total = row.active + row.completed + row.errors + row.cancelled
      /\ \A field \in Fields : row[field] \in Int
      /\ row.total \in Int /\ row.active \in Int /\ row.completed \in Int
      /\ row.errors \in Int /\ row.cancelled \in Int
  BY DEF Counting, CountedOnce, Fields, Outcomes
<1>2. CASE signal = "aborted"
  <2>1. row' = [row EXCEPT !.total = @ + 1, !.cancelled = @ + 1] /\ running' = running
    BY <1>2 DEF HttpStart
  <2>2. /\ row' \in [Fields -> Int]
        /\ row'.active = row.active /\ row'.total = row.total + 1
        /\ row'.completed = row.completed /\ row'.errors = row.errors
        /\ row'.cancelled = row.cancelled + 1
    <3>1. row \in [Fields -> Int] /\ {"total", "active", "completed", "errors", "cancelled"} \subseteq Fields
      BY DEF Counting, Fields, Outcomes
    <3>2. row.total + 1 \in Int /\ row.cancelled + 1 \in Int
      BY <1>0
    <3> QED
      BY <2>1, <3>1, <3>2
  <2>3. CountedOnce'
    <3>1. row'.active = Cardinality(running')
      BY <1>0, <2>1, <2>2
    <3>2. row'.total = attempt'
      BY <1>0, <1>1, <2>2
    <3>3. row'.total = row'.active + row'.completed + row'.errors + row'.cancelled
      BY <1>0, <2>2
    <3> QED
      BY <3>1, <3>2, <3>3 DEF CountedOnce
  <2>4. attempt' \in Nat /\ running' \subseteq 1..attempt'
    BY <1>1, <2>1 DEF Counting
  <2> QED
    BY <2>2, <2>3, <2>4 DEF Counting
<1>3. CASE signal # "aborted"
  <2>1. /\ row' = [row EXCEPT !.total = @ + 1, !.active = @ + 1]
        /\ running' = running \cup {attempt'}
    BY <1>3 DEF HttpStart
  <2>2. Cardinality(running') = Cardinality(running) + 1
    BY <1>1, <2>1, RunningFinite, FS_AddElement
  <2>3. running' \subseteq 1..attempt'
    BY <1>1, <2>1 DEF Counting
  <2> QED
    <3>1. /\ row' \in [Fields -> Int]
          /\ row'.active = row.active + 1 /\ row'.total = row.total + 1
          /\ row'.completed = row.completed /\ row'.errors = row.errors
          /\ row'.cancelled = row.cancelled
      <4>1. row \in [Fields -> Int] /\ {"total", "active", "completed", "errors", "cancelled"} \subseteq Fields
        BY DEF Counting, Fields, Outcomes
      <4>2. row.total + 1 \in Int /\ row.active + 1 \in Int
        BY <1>0
      <4> QED
        BY <2>1, <4>1, <4>2
    <3>2. CountedOnce'
      <4>1. row'.active = Cardinality(running')
        BY <1>0, <2>2, <3>1
      <4>2. row'.total = attempt'
        BY <1>0, <1>1, <3>1
      <4>3. row'.total = row'.active + row'.completed + row'.errors + row'.cancelled
        BY <1>0, <3>1
      <4> QED
        BY <4>1, <4>2, <4>3 DEF CountedOnce
    <3>3. attempt' \in Nat
      BY <1>1 DEF Counting
    <3> QED
      BY <2>3, <3>1, <3>2, <3>3 DEF Counting
<1> QED
  BY <1>2, <1>3

LEMMA CountingStep == Counting /\ StatsStep => Counting'
<1> SUFFICES ASSUME Counting, StatsStep PROVE Counting'
  OBVIOUS
<1>0. ASSUME UNCHANGED <<row, running, attempt>> PROVE Counting'
  BY <1>0 DEF Counting, CountedOnce
<1>1. CASE HttpStart
  BY <1>1, StartCounts
<1>2. CASE HttpOpens
  BY <1>0, <1>2 DEF HttpOpens
<1>3. CASE HttpFails
  <2>1. Failure \in Outcomes
    BY DEF Failure, Outcomes
  <2> QED
    BY <1>3, <2>1, DoneCounts DEF HttpFails
<1>4. CASE HttpEnds
  BY <1>4, DoneCounts DEF HttpEnds, Outcomes
<1>5. CASE HttpCancel
  BY <1>0, <1>5, DoneCounts DEF HttpCancel, Outcomes
<1>6. CASE Abort
  BY <1>6, DoneCounts DEF Abort, OnAbort, Outcomes
<1>7. CASE HttpAnswers("errors") \/ HttpAnswers("completed")
  BY <1>7, DoneCounts DEF HttpAnswers, Outcomes
<1>8. CASE UNCHANGED stats
  BY <1>0, <1>8 DEF stats
<1> QED
  BY <1>1, <1>2, <1>3, <1>4, <1>5, <1>6, <1>7, <1>8 DEF StatsStep

LEMMA CountingHolds == Spec => []Counting
<1>1. Init => Counting
  BY FS_EmptySet DEF Init, StatsInit, Counting, CountedOnce, Fields, Outcomes
<1>2. Counting /\ [Next]_vars => Counting'
  BY StepCounts, CountingStep
<1> QED
  BY <1>1, <1>2, PTL DEF Spec

\* An attempt is active until something ends it, and then counted in exactly
\* one outcome, in every interleaving of the abort of its signal, the end, the
\* failure and the cancellation of its body.
THEOREM AttemptsCountedOnce == Spec => []CountedOnce
<1>1. Counting => CountedOnce
  BY DEF Counting
<1> QED
  BY <1>1, CountingHolds, PTL

-----------------------------------------------------------------------------
(* The messages of Claude *)

Has(event) == \E i \in DOMAIN shown : shown[i] = event
StopRead == \E i \in 1..next : i <= Len(stream) /\ stream[i] = "stop"

MessageTyped ==
    /\ shown \in Seq(Kinds)
    /\ next \in Nat \ {0}
    /\ stream \in Streams \cup {<<>>}
    /\ feed \in {"saving", "writing"} => next \in DOMAIN stream

\* Where feedSDK() is, and what it has accepted and shown by then.
Accepted ==
    /\ feed \in {"none", "calling"} =>
           output = "open" /\ ~complete /\ ~upstreamError /\ ~stored /\ shown = <<>>
    /\ feed = "saving" => Event = "stop"
    /\ feed = "writing" /\ Event = "stop" => complete
    /\ feed = "writing" /\ complete => Event = "stop" \/ Has("stop")
    /\ feed \in {"reading", "closing"} /\ complete => Has("stop")
    /\ stored \/ complete => StopRead
    /\ Has("stop") => complete

\* How the stream to the client and the upstream's response end.
Ending ==
    /\ upstreamError => Has("error") /\ feed \in {"closing", "over"}
    /\ feed = "closing" => upstream # "sending" /\ (Has("stop") \/ Has("error"))
    /\ output = "closed" => Has("stop") \/ Has("error")
    /\ output # "open" => upstream # "sending"

\* The client has nothing to read before the upstream has answered.
Called == provider = "Claude" /\ feed \in {"none", "calling"} => http # "open"

MessageInv == MessageTyped /\ Accepted /\ Ending /\ Called

\* What is shown grows by the event that is written.
LEMMA Grows ==
    ASSUME shown \in Seq(Kinds), NEW event \in Kinds, shown' = Append(shown, event)
    PROVE  /\ shown' \in Seq(Kinds)
           /\ \A other : Has(other)' <=> Has(other) \/ other = event
<1>1. /\ shown' \in Seq(Kinds) /\ Len(shown') = Len(shown) + 1
      /\ shown'[Len(shown) + 1] = event
      /\ \A i \in 1..Len(shown) : shown'[i] = shown[i]
      /\ DOMAIN shown = 1..Len(shown) /\ DOMAIN shown' = 1..(Len(shown) + 1)
      /\ Len(shown) \in Nat
  OBVIOUS
<1>2. ASSUME NEW other, Has(other)' PROVE Has(other) \/ other = event
  <2>1. PICK i \in 1..(Len(shown) + 1) : shown'[i] = other
    BY <1>1, <1>2 DEF Has
  <2>2. i \in 1..Len(shown) \/ i = Len(shown) + 1
    BY <1>1
  <2> QED
    BY <1>1, <2>1, <2>2 DEF Has
<1>3. ASSUME NEW other, Has(other) \/ other = event PROVE Has(other)'
  BY <1>1, <1>3 DEF Has
<1> QED
  BY <1>1, <1>2, <1>3

LEMMA StreamTyped ==
    ASSUME MessageTyped, next \in DOMAIN stream
    PROVE  /\ Event \in Kinds /\ next <= Len(stream)
           /\ Event = "error" => ~StopRead
<1>1. stream \in Streams
  BY DEF MessageTyped
<1>2. stream \in Seq(Kinds) /\ DOMAIN stream = 1..Len(stream) /\ Len(stream) \in Nat
  BY <1>1, StreamsAssumption
<1>3. ASSUME Event = "error", StopRead PROVE FALSE
  <2>1. PICK i \in 1..next : i <= Len(stream) /\ stream[i] = "stop"
    BY <1>3 DEF StopRead
  <2>2. i \in DOMAIN stream /\ next < i
    BY <1>1, <1>2, <1>3, <2>1, StreamsAssumption DEF Event, MessageTyped
  <2> QED
    BY <2>1, <2>2 DEF MessageTyped
<1> QED
  BY <1>2, <1>3 DEF Event

LEMMA CalledStep == Called /\ [Next]_vars => Called'
<1> SUFFICES ASSUME Called, [Next]_vars, provider' = "Claude", feed' \in {"none", "calling"}
             PROVE  http' # "open"
  BY DEF Called
<1>1. CASE UNCHANGED <<feed, provider, http>>
  BY <1>1 DEF Called
<1>2. CASE MessageStreamNext /\ provider = "Claude"
  <2>1. CASE MessageStart \/ MessageRejected
    BY <2>1 DEF MessageStart, MessageRejected, HttpStart, HttpAnswers
  <2>2. CASE UNCHANGED <<feed, http>>
    BY <1>1, <1>2, <2>2 DEF Called
  <2>3. CASE MessageEnds \/ MessageCancelled
    BY <2>3 DEF MessageEnds, MessageCancelled, HttpEnds, HttpFails, HttpCancel
  <2> QED
    BY <1>2, <2>1, <2>2, <2>3 DEF MessageStreamNext, FeedSteps, MessageRefused, MessageOpens,
         ReadEvent, EventRejected, Accept, AcceptFails, Write, WriteFails, ReadEnd, ReadFails,
         Settle, MessageAborts, Abort, AfterRead, stats, Called
<1> QED
  BY <1>1, <1>2 DEF Next, Claude, Codex, vars, stats, messages

LEMMA MessageStep == MessageInv /\ [Next]_vars => MessageInv'
<1> SUFFICES ASSUME MessageInv, [Next]_vars PROVE MessageInv'
  OBVIOUS
<1> USE DEF MessageInv, flags
<1>c. Called'
  BY CalledStep
<1>s. ASSUME UNCHANGED <<stream, next, shown>>,
             feed' \in {"saving", "writing"} => next \in DOMAIN stream
      PROVE  /\ MessageTyped' /\ Event' = Event /\ (StopRead' <=> StopRead)
             /\ (Has("stop")' <=> Has("stop")) /\ (Has("error")' <=> Has("error"))
  BY <1>s DEF MessageTyped, Event, StopRead, Has
<1>u. \A u : u \in {upstream, Release, OnCancel, "failed", "ended", "aborted"} /\ upstream # "sending"
              => u # "sending"
  BY DEF Release, OnCancel
<1>0. ASSUME UNCHANGED messages PROVE MessageInv'
  BY <1>c, <1>0, <1>s DEF messages, MessageTyped, Accepted, Ending
<1>1. CASE MessageStart
  BY <1>c, <1>1, <1>s DEF MessageStart, Accepted, Ending
<1>2. CASE MessageRefused \/ MessageRejected
  BY <1>c, <1>2, <1>s DEF MessageRefused, MessageRejected, Accepted, Ending
<1>3. CASE MessageOpens
  <2>1. /\ feed = "calling" /\ feed' = "reading" /\ stream' \in Streams
        /\ UNCHANGED <<next, flags, output, shown, stored>>
    BY <1>3 DEF MessageOpens
  <2>2. ~Has("stop") /\ ~Has("error")
    BY <2>1 DEF Accepted, Has
  <2>3. (Has("stop")' <=> Has("stop")) /\ (Has("error")' <=> Has("error")) /\ MessageTyped'
    BY <2>1 DEF Has, MessageTyped
  <2> QED
    BY <1>c, <2>1, <2>2, <2>3 DEF Accepted, Ending
<1>4. CASE ReadEvent
  <2>1. next \in DOMAIN stream
    BY <1>4 DEF ReadEvent, MessageTyped
  <2> QED
    BY <1>c, <1>4, <1>s, <2>1 DEF ReadEvent, AfterRead, Accepted, Ending
<1>5. CASE EventRejected
  BY <1>c, <1>5, <1>s, <1>u DEF EventRejected, Accepted, Ending
<1>6. CASE Accept \/ AcceptFails
  <2>1. next \in DOMAIN stream /\ Event = "stop" /\ next <= Len(stream)
    BY <1>6, StreamTyped DEF Accept, AcceptFails, MessageTyped, Accepted
  <2>2. StopRead
    BY <2>1 DEF StopRead, Event, MessageTyped
  <2>3. CASE Accept
    BY <1>c, <1>s, <2>1, <2>2, <2>3 DEF Accept, Accepted, Ending
  <2>4. CASE AcceptFails
    BY <1>c, <1>s, <1>u, <2>2, <2>4 DEF AcceptFails, Accepted, Ending
  <2> QED
    BY <1>6, <2>3, <2>4
<1>7. CASE Write
  <2>1. /\ feed = "writing" /\ output = "open" /\ next \in DOMAIN stream
        /\ Event \in Kinds /\ next <= Len(stream)
        /\ Event = "error" => ~StopRead
    BY <1>7, StreamTyped DEF Write, MessageTyped
  <2>2. /\ shown' = Append(shown, Event) /\ next' = next + 1 /\ UNCHANGED <<stream, complete, output, stored>>
        /\ upstreamError' = (Event = "error")
        /\ feed' = IF Event = "error" THEN "closing" ELSE "reading"
        /\ upstream' = IF Event = "error" THEN Release ELSE upstream
    BY <1>7 DEF Write
  <2>3. /\ shown' \in Seq(Kinds)
        /\ Has("stop")' <=> Has("stop") \/ Event = "stop"
        /\ Has("error")' <=> Has("error") \/ Event = "error"
    BY <2>1, <2>2, Grows DEF MessageTyped
  <2>4. MessageTyped' /\ (StopRead => StopRead')
    BY <2>2, <2>3 DEF MessageTyped, StopRead
  <2>5. Event = "error" => ~complete
    BY <2>1 DEF Accepted
  <2> QED
    BY <1>c, <2>1, <2>2, <2>3, <2>4, <2>5 DEF Accepted, Ending, Release
<1>8. CASE WriteFails
  BY <1>c, <1>8, <1>s, <1>u DEF WriteFails, Accepted, Ending
<1>9. CASE ReadEnd
  BY <1>c, <1>9, <1>s, <1>u DEF ReadEnd, Accepted, Ending, Release
<1>10. CASE ReadFails
  BY <1>c, <1>10, <1>s, <1>u DEF ReadFails, Accepted, Ending
<1>11. CASE Settle
  BY <1>c, <1>11, <1>s DEF Settle, Accepted, Ending
<1>12. CASE MessageEnds
  BY <1>c, <1>0, <1>12 DEF MessageEnds
<1>13. CASE MessageCancelled /\ provider = "Claude"
  <2>1. feed \notin {"none", "calling"}
    BY <1>13 DEF MessageCancelled, Called
  <2> QED
    BY <1>c, <1>13, <1>s, <2>1 DEF MessageCancelled, OnCancel, Accepted, Ending, MessageTyped
<1>14. CASE MessageAborts
  BY <1>c, <1>14, <1>s, <1>u DEF MessageAborts, Accepted, Ending, MessageTyped
<1>15. MessageStreamNext /\ provider = "Claude" => MessageInv'
  BY <1>1, <1>2, <1>3, <1>4, <1>5, <1>6, <1>7, <1>8, <1>9, <1>10, <1>11, <1>12, <1>13, <1>14
  DEF MessageStreamNext, FeedSteps
<1> QED
  BY <1>0, <1>15 DEF Next, Claude, Codex, vars

LEMMA InitMessages == Init => MessageInv
BY DEF Init, MessageStreamInit, MessageInv, MessageTyped, Accepted, Ending, Called, Has, StatsInit

LEMMA MessageInvHolds == Spec => []MessageInv
BY InitMessages, MessageStep, PTL DEF Spec

\* A message is stored only after its message_stop was read, the client sees
\* message_stop only after the message was offered to the history, and its
\* stream is closed without a failure only after message_stop or an error event.
THEOREM MessageSavedBeforeSeen == Spec => []SavedBeforeSeen
<1>1. MessageInv => SavedBeforeSeen
  BY DEF MessageInv, Accepted, Ending, SavedBeforeSeen, Has, StopRead
<1> QED
  BY <1>1, MessageInvHolds, PTL

\* No upstream goes on generating once the client's stream has ended in any way.
THEOREM UpstreamsReleased == Spec => []UpstreamReleased
<1>1. MessageInv => UpstreamReleased
  BY DEF MessageInv, Ending, UpstreamReleased
<1> QED
  BY <1>1, MessageInvHolds, PTL

-----------------------------------------------------------------------------
(***************************************************************************)
(* Text and its events.  Split() is a fold, so what it returns is proved   *)
(* by an induction over the text: the set of the texts a fact holds for    *)
(* has the empty one and is closed under one symbol more.                  *)
(***************************************************************************)

\* A set of numbers has a least one: the library's WFMin, for <.
LEMMA Least ==
    ASSUME NEW T \in SUBSET Nat, T # {}
    PROVE  \E x \in T : \A y \in T : x <= y
<1> DEFINE R == OpToRel(<, Nat)
<1>1. IsWellFoundedOn(R, Nat)
  BY NatLessThanWellFounded
<1>2. \A x, y \in Nat : x < y => <<x, y>> \in R
  BY DEF OpToRel
<1> HIDE DEF R
<1>3. PICK x \in T : \A y \in T : <<y, x>> \notin R
  BY <1>1, WFMin
<1>4. ASSUME NEW y \in T PROVE x <= y
  <2>1. x \in Nat /\ y \in Nat /\ ~(y < x)
    BY <1>2, <1>3, <1>4
  <2> QED
    BY <2>1
<1> QED
  BY <1>4

\* Induction over numbers, of a set instead of a predicate.
LEMMA Induct ==
    ASSUME NEW S, 0 \in S, \A n \in Nat : n \in S => n + 1 \in S
    PROVE  Nat \subseteq S
<1> SUFFICES ASSUME Nat \ S # {} PROVE FALSE
  OBVIOUS
<1>1. PICK n \in Nat \ S : \A m \in Nat \ S : n <= m
  BY Least
<1>2. n # 0
  BY <1>1
<1>3. n - 1 \in Nat /\ n - 1 \in S
  BY <1>1, <1>2
<1> QED
  BY <1>1, <1>3

LEMMA AppendText ==
    ASSUME NEW t \in Text, NEW s \in Symbols
    PROVE  /\ Append(t, s) \in Text /\ Len(t) \in Nat /\ Len(Append(t, s)) = Len(t) + 1
           /\ Append(t, s)[Len(t) + 1] = s /\ \A i \in 1..Len(t) : Append(t, s)[i] = t[i]
  BY AppendProperties DEF Text

\* Induction over texts: the empty one, and one symbol more.
LEMMA TextInduction ==
    ASSUME NEW S, <<>> \in S,
           \A t \in Text, s \in Symbols : t \in S => Append(t, s) \in S
    PROVE  Text \subseteq S
<1> DEFINE L == {n \in Nat : \A t \in Text : Len(t) = n => t \in S}
<1>1. 0 \in L
  BY DEF Text
<1>2. ASSUME NEW n \in Nat, n \in L PROVE n + 1 \in L
  <2> SUFFICES ASSUME NEW t \in Text, Len(t) = n + 1 PROVE t \in S
    OBVIOUS
  <2>1. PICK u \in Text, s \in Symbols : t = Append(u, s)
    BY SequenceEmptyOrAppend DEF Text
  <2>2. Len(u) = n
    BY <2>1 DEF Text
  <2> QED
    BY <1>2, <2>1, <2>2
<1> HIDE DEF L
<1>3. Nat \subseteq L
  BY <1>1, <1>2, Induct
<1> QED
  BY <1>3 DEF L, Text

LEMMA MaxIs ==
    ASSUME NEW m \in Nat, NEW s \in SUBSET (1..m), s # {}
    PROVE  Max(s) \in s /\ \A x \in s : x <= Max(s)
<1> DEFINE below == {n \in Nat : \E x \in s : n = m - x}
<1>1. below # {}
  <2>1. PICK x \in s : TRUE
    OBVIOUS
  <2>2. m - x \in below
    BY <2>1
  <2> QED
    BY <2>2
<1>2. PICK n \in below : \A k \in below : n <= k
  BY <1>1, Least
<1>3. PICK x \in s : n = m - x
  BY <1>2
<1>4. \A y \in s : x >= y
  <2>1. ASSUME NEW y \in s PROVE x >= y
    <3>1. m - y \in below
      OBVIOUS
    <3> QED
      BY <1>2, <1>3, <3>1
  <2> QED
    BY <2>1
<1> QED
  BY <1>4 DEF Max

LEMMA MaxInterval ==
    ASSUME NEW m \in Nat
    PROVE  Max(1..(m + 1)) = m + 1 /\ 1..(m + 1) # {} /\ (1..(m + 1)) \ {m + 1} = 1..m
<1>1. m + 1 \in Nat /\ m + 1 \in 1..(m + 1)
  OBVIOUS
<1>2. Max(1..(m + 1)) \in 1..(m + 1) /\ m + 1 <= Max(1..(m + 1))
  BY <1>1, MaxIs
<1> QED
  BY <1>1, <1>2

\* FoldLeft() is a function of the sets of positions, which takes their largest
\* first; on the first n positions it has these values.
IsIter(it, text, n) ==
    it = [s \in SUBSET (1..n) |->
            IF s = {} THEN Unsplit ELSE Feed(it[s \ {Max(s)}], text[Max(s)])]

LEMMA SplitIs ==
    ASSUME NEW text \in Text
    PROVE  Split(text) = (CHOOSE it : IsIter(it, text, Len(text)))[1..Len(text)]
<1>1. DOMAIN text = 1..Len(text)
  BY DEF Text
<1> QED
  BY <1>1 DEF Split, FoldLeft, MapThenFoldSet, IsIter

LEMMA IterExists ==
    ASSUME NEW text, NEW n \in Nat
    PROVE  \E it : IsIter(it, text, n)
<1> DEFINE S == {m \in Nat : \E it : IsIter(it, text, m)}
<1>1. 0 \in S
  <2>1. IsIter([s \in SUBSET (1..0) |-> Unsplit], text, 0)
    BY SMTT(20) DEF IsIter
  <2> QED
    BY <2>1
<1>2. ASSUME NEW m \in Nat, m \in S PROVE m + 1 \in S
  <2>1. PICK it : IsIter(it, text, m)
    BY <1>2
  <2> DEFINE more == [s \in SUBSET (1..(m + 1)) |->
                        IF m + 1 \in s THEN Feed(it[s \ {m + 1}], text[m + 1]) ELSE it[s]]
  <2>2. ASSUME NEW s \in SUBSET (1..(m + 1))
        PROVE  more[s] = IF s = {} THEN Unsplit ELSE Feed(more[s \ {Max(s)}], text[Max(s)])
    <3>1. CASE m + 1 \in s
      <4>1. Max(s) = m + 1
        <5>1. m + 1 \in Nat /\ s # {}
          BY <3>1
        <5>2. Max(s) \in s /\ m + 1 <= Max(s)
          BY <3>1, <5>1, MaxIs
        <5>3. Max(s) \in 1..(m + 1)
          BY <5>2
        <5> QED
          BY <5>2, <5>3
      <4>2. s \ {m + 1} \in SUBSET (1..(m + 1)) /\ m + 1 \notin s \ {m + 1}
        OBVIOUS
      <4>3. more[s \ {m + 1}] = it[s \ {m + 1}]
        BY <4>2
      <4> QED
        BY <3>1, <4>1, <4>3
    <3>2. CASE m + 1 \notin s /\ s # {}
      <4>1. s \in SUBSET (1..m)
        BY <3>2
      <4>2. s \ {Max(s)} \in SUBSET (1..m) /\ m + 1 \notin s \ {Max(s)}
        BY <3>2, <4>1
      <4>3. more[s \ {Max(s)}] = it[s \ {Max(s)}]
        BY <4>2
      <4>4. it[s] = Feed(it[s \ {Max(s)}], text[Max(s)])
        BY <2>1, <3>2, <4>1 DEF IsIter
      <4> QED
        BY <3>2, <4>3, <4>4
    <3>3. CASE s = {}
      BY <2>1, <3>3 DEF IsIter
    <3> QED
      BY <3>1, <3>2, <3>3
  <2>3. IsIter(more, text, m + 1)
    <3> HIDE DEF more
    <3>1. more = [s \in SUBSET (1..(m + 1)) |-> more[s]]
      BY DEF more
    <3> QED
      BY <2>2, <3>1 DEF IsIter
  <2> QED
    BY <2>3
<1> HIDE DEF S
<1>3. Nat \subseteq S
  BY <1>1, <1>2, Induct
<1> QED
  BY <1>3 DEF S

Agree(text, other, n) == \A i \in 1..n : text[i] = other[i]

LEMMA IterNext ==
    ASSUME NEW it, NEW text, NEW n \in Nat, NEW k \in Nat, k + 1 <= n, IsIter(it, text, n)
    PROVE  it[1..(k + 1)] = Feed(it[1..k], text[k + 1])
<1>1. PICK j \in Nat : j = k + 1
  OBVIOUS
<1>2. Max(1..j) = j /\ 1..j # {} /\ (1..j) \ {j} = 1..k
  BY <1>1, MaxInterval
<1>3. 1..j \in SUBSET (1..n)
  BY <1>1
<1>4. it[1..j] = Feed(it[1..k], text[j])
  BY <1>2, <1>3 DEF IsIter
<1> QED
  BY <1>1, <1>4

LEMMA IterAgree ==
    ASSUME NEW a, NEW b, NEW text, NEW other, NEW n \in Nat, NEW m \in Nat, n <= m,
           IsIter(a, text, n), IsIter(b, other, m), Agree(text, other, n)
    PROVE  a[1..n] = b[1..n]
<1> DEFINE S == {k \in Nat : k <= n => a[1..k] = b[1..k]}
<1>1. 0 \in S
  <2>1. 1..0 = {} /\ {} \in SUBSET (1..n) /\ {} \in SUBSET (1..m)
    OBVIOUS
  <2> QED
    BY <2>1 DEF IsIter
<1>2. ASSUME NEW k \in Nat, k \in S, k + 1 <= n PROVE a[1..(k + 1)] = b[1..(k + 1)]
  <2>1. k + 1 <= m /\ k + 1 \in 1..n /\ k <= n
    BY <1>2
  <2>2. a[1..(k + 1)] = Feed(a[1..k], text[k + 1])
    BY <1>2, IterNext
  <2>3. b[1..(k + 1)] = Feed(b[1..k], other[k + 1])
    BY <2>1, IterNext
  <2> QED
    BY <1>2, <2>1, <2>2, <2>3 DEF Agree
<1>3. ASSUME NEW k \in Nat, k \in S PROVE k + 1 \in S
  BY <1>2, <1>3
<1> HIDE DEF S
<1>4. Nat \subseteq S
  BY <1>1, <1>3, Induct
<1> QED
  BY <1>4 DEF S

LEMMA SplitIter ==
    ASSUME NEW text \in Text
    PROVE  \E it : IsIter(it, text, Len(text)) /\ Split(text) = it[1..Len(text)]
<1>1. Len(text) \in Nat
  BY DEF Text
<1>2. \E it : IsIter(it, text, Len(text))
  BY <1>1, IterExists
<1> QED
  BY <1>2, SplitIs

LEMMA SplitEmpty == Split(<<>>) = Unsplit
<1>1. <<>> \in Text /\ Len(<<>>) = 0 /\ 1..0 = {}
  BY DEF Text
<1>2. PICK it : IsIter(it, <<>>, 0) /\ Split(<<>>) = it[1..0]
  BY <1>1, SplitIter
<1> QED
  BY <1>1, <1>2 DEF IsIter

LEMMA SplitAppend ==
    ASSUME NEW t \in Text, NEW s \in Symbols
    PROVE  Split(Append(t, s)) = Feed(Split(t), s)
<1>1. PICK n \in Nat : n = Len(t)
  BY DEF Text
<1>2. PICK u \in Text : u = Append(t, s)
  BY AppendText
<1>3. Len(u) = n + 1 /\ u[n + 1] = s /\ \A i \in 1..n : t[i] = u[i]
  BY <1>1, <1>2, AppendText
<1>4. PICK a : IsIter(a, t, n) /\ Split(t) = a[1..n]
  BY <1>1, SplitIter
<1>5. PICK m \in Nat : m = n + 1
  OBVIOUS
<1>6. PICK b : IsIter(b, u, m) /\ Split(u) = b[1..m]
  BY <1>3, <1>5, SplitIter
<1>7. n <= m /\ m \in 1..m /\ (1..m) \ {m} = 1..n /\ Max(1..m) = m /\ 1..m # {}
  <2>1. n <= m /\ m \in 1..m
    BY <1>5
  <2>2. Max(1..(n + 1)) = n + 1 /\ 1..(n + 1) # {} /\ (1..(n + 1)) \ {n + 1} = 1..n
    BY MaxInterval
  <2> QED
    BY <1>5, <2>1, <2>2
<1>8. a[1..n] = b[1..n]
  <2>1. IsIter(a, t, n) /\ IsIter(b, u, m) /\ Agree(t, u, n)
    BY <1>3, <1>4, <1>6 DEF Agree
  <2>2. n <= m
    BY <1>7
  <2> QED
    BY <2>1, <2>2, IterAgree
<1>9. b[1..m] = Feed(b[1..n], u[m])
  BY <1>5, <1>6, <1>7, IterNext
<1> QED
  BY <1>2, <1>3, <1>4, <1>5, <1>6, <1>8, <1>9

\* What Split() returns.
Parts == [frames : Seq(Text), rest : Text]

\* The next symbol ends a frame.
Ends(rest, s) == s = "n" /\ rest # <<>> /\ Last(rest) = "n"

LEMMA FrontText ==
    ASSUME NEW t \in Text, t # <<>>
    PROVE  /\ Front(t) \in Text /\ Len(Front(t)) = Len(t) - 1 /\ Len(t) \in Nat \ {0}
           /\ \A i \in 1..(Len(t) - 1) : Front(t)[i] = t[i]
<1>1. Len(t) \in Nat \ {0} /\ \A i \in 1..Len(t) : t[i] \in Symbols
  BY DEF Text
<1>2. \A i \in 1..(Len(t) - 1) : t[i] \in Symbols
  BY <1>1
<1>3. PICK n \in Int : n = Len(t) - 1
  BY <1>1
<1>4. /\ SubSeq(t, 1, n) \in Seq(Symbols)
      /\ Len(SubSeq(t, 1, n)) = IF 1 <= n THEN n - 1 + 1 ELSE 0
      /\ \A i \in 1..(n - 1 + 1) : SubSeq(t, 1, n)[i] = t[1 + i - 1]
  <2>1. \A i \in 1..n : t[i] \in Symbols
    BY <1>2, <1>3
  <2> QED
    BY <2>1, SubSeqProperties
<1>5. Front(t) = SubSeq(t, 1, n)
  BY <1>3 DEF Front
<1>6. Front(t) \in Text /\ Len(Front(t)) = Len(t) - 1
  BY <1>1, <1>3, <1>4, <1>5 DEF Text
<1>7. ASSUME NEW i \in 1..(Len(t) - 1) PROVE Front(t)[i] = t[i]
  BY <1>1, <1>3, <1>4, <1>5, <1>7
<1> QED
  BY <1>1, <1>6, <1>7

LEMMA PartsAre ==
    /\ \A frames \in Seq(Text), rest \in Text : [frames |-> frames, rest |-> rest] \in Parts
    /\ \A p \in Parts : p.frames \in Seq(Text) /\ p.rest \in Text
  BY DEF Parts

LEMMA ConcatAppend ==
    ASSUME NEW S, NEW x \in Seq(S), NEW y \in Seq(S), NEW e \in S
    PROVE  x \o Append(y, e) = Append(x \o y, e)
<1>1. <<e>> \in Seq(S) /\ x \o y \in Seq(S)
  BY ConcatProperties
<1>2. Append(y, e) = y \o <<e>> /\ Append(x \o y, e) = (x \o y) \o <<e>>
  BY <1>1, AppendIsConcat
<1>3. (x \o y) \o <<e>> = x \o (y \o <<e>>)
  BY <1>1, ConcatAssociative
<1> QED
  BY <1>2, <1>3

LEMMA FeedIs ==
    ASSUME NEW p \in Parts, NEW s
    PROVE  Feed(p, s) = IF Ends(p.rest, s)
                        THEN [frames |-> Append(p.frames, Front(p.rest)), rest |-> <<>>]
                        ELSE [frames |-> p.frames, rest |-> Append(p.rest, s)]
<1>1. p = [frames |-> p.frames, rest |-> p.rest]
  BY DEF Parts
<1>2. ASSUME NEW e PROVE [p EXCEPT !.rest = e] = [frames |-> p.frames, rest |-> e]
  BY <1>1
<1> QED
  BY <1>2 DEF Feed, Ends

LEMMA FeedTyped ==
    ASSUME NEW p \in Parts, NEW s \in Symbols
    PROVE  Feed(p, s) \in Parts
<1>1. p.frames \in Seq(Text) /\ p.rest \in Text /\ <<>> \in Text
  BY DEF Parts, Text
<1>2. Append(p.rest, s) \in Text
  BY <1>1, AppendText
<1>3. CASE Ends(p.rest, s)
  <2>1. Front(p.rest) \in Text
    BY <1>1, <1>3, FrontText DEF Ends
  <2>2. Append(p.frames, Front(p.rest)) \in Seq(Text)
    BY <1>1, <2>1, AppendProperties
  <2> QED
    BY <1>1, <1>3, <2>2, FeedIs, PartsAre
<1>4. CASE ~Ends(p.rest, s)
  BY <1>1, <1>2, <1>4, FeedIs, PartsAre
<1> QED
  BY <1>3, <1>4

LEMMA SplitTyped == \A t \in Text : Split(t) \in Parts
<1> DEFINE S == {t \in Text : Split(t) \in Parts}
<1>1. <<>> \in S
  <2>1. <<>> \in Text /\ <<>> \in Seq(Text)
    BY DEF Text
  <2> QED
    BY <2>1, SplitEmpty, PartsAre DEF Unsplit
<1>2. ASSUME NEW t \in Text, NEW s \in Symbols, t \in S PROVE Append(t, s) \in S
  BY <1>2, SplitAppend, FeedTyped, AppendText
<1> HIDE DEF S
<1>3. Text \subseteq S
  BY <1>1, <1>2, TextInduction
<1> QED
  BY <1>3 DEF S

LEMMA RestStays ==
    \A t \in Text : Split(Split(t).rest) = [frames |-> <<>>, rest |-> Split(t).rest]
<1> DEFINE S == {t \in Text : Split(Split(t).rest) = [frames |-> <<>>, rest |-> Split(t).rest]}
<1>1. <<>> \in S
  BY SplitEmpty DEF Text, Unsplit
<1>2. ASSUME NEW t \in Text, NEW s \in Symbols, t \in S PROVE Append(t, s) \in S
  <2>1. Append(t, s) \in Text /\ Split(t) \in Parts /\ Split(t).rest \in Text
    BY SplitTyped, AppendText DEF Parts
  <2>2. CASE Ends(Split(t).rest, s)
    <3>1. Split(Append(t, s)).rest = <<>>
      BY <2>1, <2>2, SplitAppend, FeedIs
    <3> QED
      BY <2>1, <3>1, SplitEmpty DEF Unsplit
  <2>3. CASE ~Ends(Split(t).rest, s)
    <3>1. Split(Append(t, s)).rest = Append(Split(t).rest, s)
      BY <2>1, <2>3, SplitAppend, FeedIs
    <3>2. Split(Append(Split(t).rest, s)) = Feed([frames |-> <<>>, rest |-> Split(t).rest], s)
      BY <1>2, <2>1, SplitAppend
    <3>3. [frames |-> <<>>, rest |-> Split(t).rest] \in Parts
      BY <2>1 DEF Parts
    <3>4. Split(Append(Split(t).rest, s)) = [frames |-> <<>>, rest |-> Append(Split(t).rest, s)]
      BY <2>3, <3>2, <3>3, FeedIs
    <3> QED
      BY <2>1, <3>1, <3>4
  <2> QED
    BY <2>2, <2>3
<1> HIDE DEF S
<1>3. Text \subseteq S
  BY <1>1, <1>2, TextInduction
<1> QED
  BY <1>3 DEF S

\* p is what q is after the frames F.
After(F, p, q) == p.rest = q.rest /\ p.frames = F \o q.frames

LEMMA FeedAfter ==
    ASSUME NEW F \in Seq(Text), NEW p \in Parts, NEW q \in Parts, NEW s, After(F, p, q)
    PROVE  After(F, Feed(p, s), Feed(q, s))
<1>1. PICK r \in Text, g \in Seq(Text) : r = q.rest /\ g = q.frames
  BY PartsAre
<1>2. p.rest = r /\ p.frames = F \o g
  BY <1>1 DEF After
<1>5. Feed(p, s) = IF Ends(r, s) THEN [frames |-> Append(F \o g, Front(r)), rest |-> <<>>]
                   ELSE [frames |-> F \o g, rest |-> Append(r, s)]
  BY <1>2, FeedIs
<1>6. Feed(q, s) = IF Ends(r, s) THEN [frames |-> Append(g, Front(r)), rest |-> <<>>]
                   ELSE [frames |-> g, rest |-> Append(r, s)]
  BY <1>1, FeedIs
<1>3. CASE Ends(r, s)
  <2>1. Front(r) \in Text
    BY <1>3, FrontText DEF Ends
  <2>2. F \o Append(g, Front(r)) = Append(F \o g, Front(r))
    BY <2>1, ConcatAppend
  <2> QED
    BY <1>3, <1>5, <1>6, <2>2 DEF After
<1>4. CASE ~Ends(r, s)
  BY <1>4, <1>5, <1>6 DEF After
<1> QED
  BY <1>3, <1>4

LEMMA SplitAfter ==
    ASSUME NEW a \in Text, NEW b \in Text
    PROVE  After(Split(a).frames, Split(a \o b), Split(Split(a).rest \o b))
<1>1. PICK F \in Seq(Text), r \in Text : F = Split(a).frames /\ r = Split(a).rest
  BY SplitTyped, PartsAre
<1> DEFINE S == {t \in Text : After(F, Split(a \o t), Split(r \o t))}
<1>2. <<>> \in S
  <2>1. a \o <<>> = a /\ r \o <<>> = r /\ <<>> \in Text
    BY DEF Text
  <2>2. F \o <<>> = F
    OBVIOUS
  <2>3. Split(r) = [frames |-> <<>>, rest |-> r]
    BY <1>1, RestStays
  <2>4. After(F, Split(a), Split(r))
    BY <1>1, <2>2, <2>3 DEF After
  <2> QED
    BY <2>1, <2>4
<1>3. ASSUME NEW t \in Text, NEW s \in Symbols, t \in S PROVE Append(t, s) \in S
  <2>1. a \o t \in Text /\ r \o t \in Text /\ Append(t, s) \in Text
    BY ConcatProperties, AppendText DEF Text
  <2>2. a \o Append(t, s) = Append(a \o t, s) /\ r \o Append(t, s) = Append(r \o t, s)
    BY ConcatAppend DEF Text
  <2>3. Split(a \o t) \in Parts /\ Split(r \o t) \in Parts
    BY <2>1, SplitTyped
  <2>4. /\ Split(a \o Append(t, s)) = Feed(Split(a \o t), s)
        /\ Split(r \o Append(t, s)) = Feed(Split(r \o t), s)
    BY <2>1, <2>2, SplitAppend
  <2>5. After(F, Split(a \o Append(t, s)), Split(r \o Append(t, s)))
    BY <1>3, <2>3, <2>4, FeedAfter
  <2> QED
    BY <2>1, <2>5
<1> HIDE DEF S
<1>4. Text \subseteq S
  BY <1>2, <1>3, TextInduction
<1> QED
  BY <1>1, <1>4 DEF S

LEMMA SplitConcat ==
    ASSUME NEW a \in Text, NEW b \in Text
    PROVE  /\ Split(a \o b).frames = Split(a).frames \o Split(Split(a).rest \o b).frames
           /\ Split(a \o b).rest = Split(Split(a).rest \o b).rest
  BY SplitAfter DEF After

-----------------------------------------------------------------------------
(***************************************************************************)
(* The bytes of a Codex turn.  The chunks that the bootstrap buffered and  *)
(* nobody has pulled yet are adjacent pieces of the body: `cut[i]' is how  *)
(* much of it the client has once it gets the i-th of them.                *)
(***************************************************************************)
\* `cut' divides the first p symbols of b into d and the chunks cs.
Divides(cut, b, p, cs, d) ==
    /\ cut \in [0..Len(cs) -> 0..Len(b)]
    /\ d = SubSeq(b, 1, cut[0])
    /\ cut[Len(cs)] = p
    /\ \A i \in 1..Len(cs) :
          cut[i - 1] <= cut[i] /\ cs[i] = SubSeq(b, cut[i - 1] + 1, cut[i])

IsCut(cut) == Divides(cut, body, pos, chunks, delivered)

BytesTyped ==
    /\ body \in Text /\ chunks \in Seq(Text) /\ pos \in 0..Len(body)

\* Nothing is delivered before the body is relayed, and no body has been read
\* when an attempt is answered.
NotYet ==
    /\ pc \notin {"relaying", "done"} => delivered = <<>> /\ client = "waiting"
    /\ pc = "calling" => body = <<>> /\ pos = 0 /\ chunks = <<>>

Complete == client = "ended" => chunks = <<>> /\ pos = Len(body) /\ pc = "done"

BytesInv ==
    /\ BytesTyped /\ NotYet /\ Complete
    /\ \E cut : IsCut(cut)

\* Nothing was read, nothing is buffered and nothing was delivered.
LEMMA NothingCut ==
    ASSUME NEW b \in Text PROVE \E cut : Divides(cut, b, 0, <<>>, <<>>)
<1> DEFINE zero == [i \in 0..0 |-> 0]
<1>1. Len(b) \in Nat /\ Len(<<>>) = 0
  BY DEF Text
<1>2. zero \in [0..0 -> 0..Len(b)] /\ zero[0] = 0
  BY <1>1
<1>3. SubSeq(b, 1, 0) = <<>>
  BY SubSeqEmpty
<1>4. Divides(zero, b, 0, <<>>, <<>>)
  <2> HIDE DEF zero
  <2> QED
    BY <1>1, <1>2, <1>3 DEF Divides
<1> QED
  BY <1>4

\* A chunk of the bootstrap is buffered.
LEMMA BufferCuts ==
    ASSUME BytesTyped, \E cut : IsCut(cut), NEW k \in Nat, pos + k <= Len(body),
           chunks' = Append(chunks, SubSeq(body, pos + 1, pos + k)),
           pos' = pos + k, UNCHANGED <<body, delivered>>
    PROVE  BytesTyped' /\ \E cut : IsCut(cut)'
<1>1. PICK cut : IsCut(cut)
  OBVIOUS
<1> DEFINE last == Len(chunks) + 1
           chunk == SubSeq(body, pos + 1, pos + k)
<1>2. /\ Len(chunks) \in Nat /\ Len(body) \in Nat /\ pos \in Nat /\ k \in Nat
      /\ pos + k <= Len(body) /\ body \in Text /\ chunks \in Seq(Text)
  BY DEF BytesTyped, Text
<1>3. chunk \in Text
  <2>1. \A i \in (pos + 1)..(pos + k) : body[i] \in Symbols
    BY <1>2 DEF Text
  <2> QED
    BY <1>2, <2>1, SubSeqProperties DEF Text
<1>4. /\ Len(chunks') = last /\ chunks'[last] = chunk
      /\ \A i \in 1..Len(chunks) : chunks'[i] = chunks[i]
      /\ chunks' \in Seq(Text)
  BY <1>2, <1>3, AppendProperties
<1>0. PICK new : new = [i \in 0..last |-> IF i = last THEN pos + k ELSE cut[i]]
  OBVIOUS
<1>5. /\ new \in [0..last -> 0..Len(body)] /\ new[last] = pos + k /\ new[0] = cut[0]
      /\ \A i \in 0..Len(chunks) : new[i] = cut[i]
  BY <1>0, <1>1, <1>2 DEF IsCut, Divides
<1>6. ASSUME NEW i \in 1..last
      PROVE  new[i - 1] <= new[i] /\ chunks'[i] = SubSeq(body, new[i - 1] + 1, new[i])
  <2>1. CASE i = last
    <3>1. new[i - 1] = pos /\ new[i] = pos + k
      BY <1>1, <1>2, <1>5, <2>1 DEF IsCut, Divides
    <3> QED
      BY <1>2, <1>4, <2>1, <3>1
  <2>2. CASE i # last
    <3>1. i \in 1..Len(chunks) /\ i \in 0..Len(chunks) /\ i - 1 \in 0..Len(chunks)
      BY <1>2, <2>2
    <3>2. new[i - 1] = cut[i - 1] /\ new[i] = cut[i]
      BY <1>5, <3>1
    <3> QED
      BY <1>1, <1>4, <3>1, <3>2 DEF IsCut, Divides
  <2> QED
    BY <2>1, <2>2
<1>7. IsCut(new)'
  BY <1>1, <1>4, <1>5, <1>6 DEF IsCut, Divides
<1>8. BytesTyped'
  BY <1>2, <1>4 DEF BytesTyped
<1> QED
  BY <1>7, <1>8

\* The client gets the oldest chunk of the buffer.
LEMMA UnbufferCuts ==
    ASSUME BytesTyped, \E cut : IsCut(cut), chunks # <<>>,
           chunks' = Tail(chunks), delivered' = delivered \o Head(chunks),
           UNCHANGED <<body, pos>>
    PROVE  BytesTyped' /\ \E cut : IsCut(cut)'
<1>1. PICK cut : IsCut(cut)
  OBVIOUS
<1> DEFINE n == Len(chunks)
<1>2. /\ n \in Nat \ {0} /\ Len(body) \in Nat
      /\ body \in Text /\ chunks \in Seq(Text)
      /\ Head(chunks) = chunks[1]
      /\ chunks' \in Seq(Text) /\ Len(chunks') = n - 1
      /\ \A i \in 1..(n - 1) : chunks'[i] = chunks[i + 1]
  BY DEF BytesTyped, Text
<1>3. /\ cut[0] \in 0..Len(body) /\ cut[1] \in 0..Len(body) /\ cut[0] <= cut[1]
      /\ chunks[1] = SubSeq(body, cut[0] + 1, cut[1])
  <2>1. /\ 0 \in 0..n /\ 1 \in 1..n /\ 1 \in 0..n /\ 1 - 1 = 0
    BY <1>2
  <2>2. cut[1 - 1] <= cut[1] /\ chunks[1] = SubSeq(body, cut[1 - 1] + 1, cut[1])
    BY <1>1, <2>1 DEF IsCut, Divides
  <2>3. cut[0] \in 0..Len(body) /\ cut[1] \in 0..Len(body)
    BY <1>1, <2>1 DEF IsCut, Divides
  <2> QED
    BY <2>1, <2>2, <2>3
<1>4. delivered' = SubSeq(body, 1, cut[1])
  <2>1. SubSeq(body, 1, cut[0]) \o SubSeq(body, cut[0] + 1, cut[1]) = SubSeq(body, 1, cut[1])
    <3>1. /\ 1 \in 1..(Len(body) + 1) /\ cut[0] \in (1 - 1)..Len(body)
          /\ cut[1] \in cut[0]..Len(body)
      BY <1>2, <1>3
    <3> QED
      BY <1>2, <3>1, ConcatAdjacentSubSeq DEF Text
  <2> QED
    BY <1>1, <1>2, <1>3, <2>1 DEF IsCut, Divides
<1>0. PICK new : new = [i \in 0..(n - 1) |-> cut[i + 1]]
  OBVIOUS
<1>5. /\ new \in [0..(n - 1) -> 0..Len(body)]
      /\ \A i \in 0..(n - 1) : new[i] = cut[i + 1]
      /\ new[0] = cut[1] /\ new[n - 1] = cut[n]
  BY <1>0, <1>1, <1>2 DEF IsCut, Divides
<1>6. ASSUME NEW i \in 1..(n - 1)
      PROVE  new[i - 1] <= new[i] /\ chunks'[i] = SubSeq(body, new[i - 1] + 1, new[i])
  <2>1. i + 1 \in 1..n /\ new[i - 1] = cut[(i + 1) - 1] /\ new[i] = cut[i + 1]
    BY <1>2, <1>5
  <2> QED
    BY <1>1, <1>2, <2>1 DEF IsCut, Divides
<1>7. IsCut(new)'
  BY <1>1, <1>2, <1>4, <1>5, <1>6 DEF IsCut, Divides
<1>8. BytesTyped'
  BY <1>2 DEF BytesTyped
<1> QED
  BY <1>7, <1>8

\* The client gets what is read from the upstream: nothing is buffered.
LEMMA ReadCuts ==
    ASSUME BytesTyped, \E cut : IsCut(cut), chunks = <<>>, NEW k \in Nat, pos + k <= Len(body),
           delivered' = delivered \o SubSeq(body, pos + 1, pos + k),
           pos' = pos + k, UNCHANGED <<body, chunks>>
    PROVE  BytesTyped' /\ \E cut : IsCut(cut)'
<1>1. PICK cut : IsCut(cut)
  OBVIOUS
<1>2. /\ Len(chunks) = 0 /\ Len(body) \in Nat /\ pos \in Nat /\ k \in Nat
      /\ pos + k <= Len(body) /\ body \in Text
  BY DEF BytesTyped, Text
<1>3. delivered = SubSeq(body, 1, pos)
  BY <1>1, <1>2 DEF IsCut, Divides
<1>4. delivered' = SubSeq(body, 1, pos + k)
  <2>1. 1 \in 1..(Len(body) + 1) /\ pos \in (1 - 1)..Len(body) /\ pos + k \in pos..Len(body)
    BY <1>2
  <2> QED
    BY <1>2, <1>3, <2>1, ConcatAdjacentSubSeq DEF Text
<1>0. PICK new : new = [i \in 0..0 |-> pos + k]
  OBVIOUS
<1>5. new \in [0..0 -> 0..Len(body)] /\ new[0] = pos + k
  BY <1>0, <1>2
<1>6. IsCut(new)'
  BY <1>2, <1>4, <1>5 DEF IsCut, Divides
<1>7. BytesTyped'
  BY <1>2 DEF BytesTyped
<1> QED
  BY <1>6, <1>7

LEMMA BytesStep == BytesInv /\ [Next]_vars => BytesInv'
<1> SUFFICES ASSUME BytesInv, [Next]_vars PROVE BytesInv'
  OBVIOUS
<1> USE EventStreamAssumption
<1>1. ASSUME UNCHANGED events PROVE BytesInv'
  BY <1>1 DEF BytesInv, BytesTyped, NotYet, Complete, IsCut, Divides, events
<1>2. ASSUME UNCHANGED <<body, pos, chunks, delivered>>, NotYet', Complete' PROVE BytesInv'
  BY <1>2 DEF BytesInv, BytesTyped, IsCut, Divides
<1>3. CASE Start
  <2>1. /\ body' = <<>> /\ pos' = 0 /\ chunks' = <<>> /\ delivered' = <<>>
        /\ pc' \in {"calling", "done"} /\ client' \in {"waiting", "failed"}
        /\ pc' # "done" => client' = "waiting"
    BY <1>3 DEF Start, Execute, BytesInv, NotYet
  <2>2. body' \in Text /\ BytesTyped'
    BY <2>1 DEF BytesTyped, Text
  <2>3. \E cut : IsCut(cut)'
    BY <2>1, <2>2, NothingCut DEF IsCut
  <2> QED
    BY <2>1, <2>2, <2>3 DEF BytesInv, NotYet, Complete
<1>4. CASE AnswerStream \/ AnswerError
  <2>1. /\ body' \in Text /\ pos' = 0 /\ chunks' = <<>> /\ delivered' = <<>>
        /\ pc' \in {"bootstrap", "relaying"} /\ client' = "waiting"
    BY <1>4 DEF AnswerStream, AnswerError, BytesInv, NotYet, fixed, Text
  <2>2. BytesTyped'
    BY <2>1 DEF BytesTyped, Text
  <2>3. \E cut : IsCut(cut)'
    BY <2>1, NothingCut DEF IsCut
  <2> QED
    BY <2>1, <2>2, <2>3 DEF BytesInv, NotYet, Complete
<1>5. ASSUME NEW k \in 1..MaxChunk, BootstrapReads(k) PROVE BytesInv'
  <2>1. /\ k \in Nat /\ pos + k <= Len(body) /\ pos' = pos + k
        /\ chunks' = Append(chunks, SubSeq(body, pos + 1, pos + k))
        /\ UNCHANGED <<body, delivered, client>> /\ pc = "bootstrap"
    BY <1>5 DEF BootstrapReads, fixed
  <2>3. pc' \in {"bootstrap", "relaying", "rejected"}
    <3>1. \A frames, read : Decision(frames, read) \in {"rejected", "commit", "continue"}
      BY DEF Decision
    <3> QED
      BY <1>5, <3>1 DEF BootstrapReads, Commit
  <2>2. BytesTyped' /\ \E cut : IsCut(cut)'
    BY <2>1, BufferCuts DEF BytesInv
  <2> QED
    BY <2>1, <2>2, <2>3 DEF BytesInv, NotYet, Complete
<1>6. ASSUME PullBuffered PROVE BytesInv'
  <2>1. /\ chunks # <<>> /\ chunks' = Tail(chunks) /\ delivered' = delivered \o Head(chunks)
        /\ UNCHANGED <<body, pos, pc, client>> /\ pc = "relaying" /\ client = "waiting"
    BY <1>6 DEF PullBuffered, Reading, Deliver, fixed
  <2>2. BytesTyped' /\ \E cut : IsCut(cut)'
    BY <2>1, UnbufferCuts DEF BytesInv
  <2> QED
    BY <2>1, <2>2 DEF BytesInv, NotYet, Complete
<1>7. ASSUME NEW k \in 1..MaxChunk, PullReads(k) PROVE BytesInv'
  <2>1. /\ k \in Nat /\ chunks = <<>> /\ pos + k <= Len(body) /\ pos' = pos + k
        /\ delivered' = delivered \o SubSeq(body, pos + 1, pos + k)
        /\ UNCHANGED <<body, chunks, pc, client>> /\ pc = "relaying" /\ client = "waiting"
    BY <1>7 DEF PullReads, Reading, Deliver, fixed
  <2>2. BytesTyped' /\ \E cut : IsCut(cut)'
    BY <2>1, ReadCuts DEF BytesInv
  <2> QED
    BY <2>1, <2>2 DEF BytesInv, NotYet, Complete
<1>8. CASE CallFails \/ Answer429 \/ AnswerEmpty
  BY <1>2, <1>8 DEF CallFails, Answer429, AnswerEmpty, BytesInv, NotYet, Complete, fixed
<1>9. CASE BootstrapEnds \/ KeepRejection \/ ChooseFails \/ CancelRejected \/ CancelFails
  BY <1>2, <1>9 DEF BootstrapEnds, KeepRejection, ChooseFails, CancelRejected, CancelFails, Commit,
                    BytesInv, NotYet, Complete, fixed
<1>10. CASE PullEnds \/ PullFails \/ ClientLeaves
  BY <1>2, <1>10 DEF PullEnds, PullFails, ClientLeaves, Finish, Reading,
                     BytesInv, NotYet, Complete, fixed
<1>11. EventStreamNext => BytesInv'
  BY <1>1, <1>3, <1>4, <1>5, <1>6, <1>7, <1>8, <1>9, <1>10
  DEF EventStreamNext, EventSteps, ClientAborts
<1> QED
  BY <1>1, <1>11 DEF Next, Claude, Codex, vars

LEMMA BytesHold == Spec => []BytesInv
<1>1. Init => BytesInv
  <2>1. Init => BytesTyped /\ NotYet /\ Complete
    BY DEF Init, EventStreamInit, BytesTyped, NotYet, Complete, Text
  <2>2. Init => \E cut : IsCut(cut)
    <3>1. <<>> \in Text
      BY DEF Text
    <3> QED
      BY <3>1, NothingCut DEF Init, EventStreamInit, IsCut
  <2> QED
    BY <2>1, <2>2 DEF BytesInv
<1> QED
  BY <1>1, BytesStep, PTL DEF Spec

\* What was delivered is the first part of the body, its last chunk's end being
\* the first cut.
LEMMA DeliveredCut ==
  ASSUME BytesInv, NEW cut, IsCut(cut)
  PROVE  /\ body \in Text /\ Len(body) \in Nat /\ Len(chunks) \in Nat
         /\ cut[0] \in 0..Len(body) /\ delivered = SubSeq(body, 1, cut[0])
         /\ delivered \in Text /\ Len(delivered) = cut[0]
<1>1. /\ body \in Text /\ Len(body) \in Nat /\ Len(chunks) \in Nat
      /\ cut[0] \in 0..Len(body) /\ delivered = SubSeq(body, 1, cut[0])
  <2>1. body \in Text /\ chunks \in Seq(Text)
    BY DEF BytesInv, BytesTyped
  <2>2. Len(body) \in Nat /\ Len(chunks) \in Nat
    BY <2>1 DEF Text
  <2> QED
    BY <2>1, <2>2 DEF IsCut, Divides
<1>2. delivered \in Text /\ Len(delivered) = cut[0]
  <2>1. \A i \in 1..cut[0] : body[i] \in Symbols
    BY <1>1 DEF Text
  <2>2. PICK n \in Nat : n = cut[0]
    BY <1>1
  <2>3. n \in Int /\ 1 \in Int /\ \A i \in 1..n : body[i] \in Symbols
    BY <2>1, <2>2
  <2>4. /\ SubSeq(body, 1, n) \in Seq(Symbols)
        /\ Len(SubSeq(body, 1, n)) = IF 1 <= n THEN n - 1 + 1 ELSE 0
    BY <2>3, SubSeqProperties
  <2>5. Len(SubSeq(body, 1, n)) = n
    BY <2>4
  <2> QED
    BY <1>1, <2>2, <2>4, <2>5 DEF Text
<1> QED
  BY <1>1, <1>2

LEMMA DeliveredText == BytesInv => delivered \in Text
  BY DeliveredCut DEF BytesInv

\* The client of a Codex turn receives the bytes of its last attempt in order,
\* and all of them when its response ends, however the body was cut into
\* chunks, buffered by bootstrap() and given out by pull().
THEOREM CodexBytesIntact == Spec => []DeliveredIntact
<1>1. BytesInv => DeliveredIntact
  <2> SUFFICES ASSUME BytesInv PROVE DeliveredIntact
    OBVIOUS
  <2>1. PICK cut : IsCut(cut)
    BY DEF BytesInv
  <2>2. /\ body \in Text /\ Len(body) \in Nat /\ Len(chunks) \in Nat
        /\ cut[0] \in 0..Len(body) /\ delivered = SubSeq(body, 1, cut[0])
        /\ delivered \in Text /\ Len(delivered) = cut[0]
    BY <2>1, DeliveredCut
  <2>3. IsPrefix(delivered, body)
    BY <2>2, SubSeqFull DEF IsPrefix, Text
  <2>4. ASSUME client = "ended" PROVE delivered = body
    <3>1. cut[0] = Len(body)
      BY <2>1, <2>4 DEF BytesInv, Complete, IsCut, Divides
    <3> QED
      BY <2>2, <3>1, SubSeqFull DEF Text
  <2> QED
    BY <2>3, <2>4 DEF DeliveredIntact
<1> QED
  BY <1>1, BytesHold, PTL

-----------------------------------------------------------------------------
(***************************************************************************)
(* The retries of a Codex turn.                                            *)
(***************************************************************************)

LEMMA CutText ==
    ASSUME NEW b \in Text, NEW n \in 0..Len(b), NEW k \in Nat, n + k <= Len(b)
    PROVE  /\ SubSeq(b, 1, n) \in Text /\ SubSeq(b, n + 1, n + k) \in Text
           /\ SubSeq(b, 1, n) \o SubSeq(b, n + 1, n + k) = SubSeq(b, 1, n + k)
<1>1. /\ Len(b) \in Nat /\ 1 \in 1..(Len(b) + 1) /\ n \in (1 - 1)..Len(b) /\ n + k \in n..Len(b)
      /\ \A i \in 1..Len(b) : b[i] \in Symbols
  BY DEF Text
<1>2. SubSeq(b, 1, n) \in Text
  BY <1>1, SubSeqProperties DEF Text
<1>3. SubSeq(b, n + 1, n + k) \in Text
  <2>1. n + 1 \in Int /\ n + k \in Int /\ \A i \in (n + 1)..(n + k) : b[i] \in Symbols
    BY <1>1
  <2> QED
    BY <2>1, SubSeqProperties DEF Text
<1>4. SubSeq(b, 1, n) \o SubSeq(b, n + 1, n + k) = SubSeq(b, 1, n + k)
  BY <1>1, ConcatAdjacentSubSeq DEF Text
<1> QED
  BY <1>2, <1>3, <1>4

\* A rejection is decided by the first frame with a data line, and to go on
\* there must be no frame.
LEMMA DecisionIs ==
    ASSUME NEW frames \in Seq(Text), NEW read
    PROVE  /\ Decision(frames, read) \in {"rejected", "commit", "continue"}
           /\ Decision(frames, read) = "rejected" => FirstIsQuota(frames)
           /\ Decision(frames, read) = "continue" => frames = <<>>
<1> DEFINE datas == {i \in DOMAIN frames : Data(frames[i]) # {}}
           first == CHOOSE i \in datas : \A j \in datas : i <= j
<1>1. Decision(frames, read) =
        IF datas # {} THEN IF IsQuota(frames[first]) THEN "rejected" ELSE "commit"
        ELSE IF frames # <<>> \/ read >= Limit THEN "commit" ELSE "continue"
  BY DEF Decision
<1>2. ASSUME datas # {}, IsQuota(frames[first]) PROVE FirstIsQuota(frames)
  <2>1. datas \in SUBSET Nat
    OBVIOUS
  <2>2. \E i \in datas : \A j \in datas : i <= j
    <3> HIDE DEF datas
    <3> QED
      BY <1>2, <2>1, Least
  <2>3. first \in datas /\ \A j \in datas : first <= j
    <3> HIDE DEF datas
    <3> QED
      BY <2>2
  <2> HIDE DEF first
  <2>4. ASSUME NEW j \in 1..(first - 1) PROVE Data(frames[j]) = {}
    <3>1. j \in DOMAIN frames /\ ~(first <= j)
      BY <2>3
    <3> QED
      BY <2>3, <3>1
  <2> QED
    BY <1>2, <2>3, <2>4 DEF FirstIsQuota
<1> HIDE DEF datas, first
<1> QED
  BY <1>1, <1>2

\* More frames do not change which is the first with a data line.
LEMMA FirstStays ==
    ASSUME NEW f \in Seq(Text), NEW g \in Seq(Text), FirstIsQuota(f)
    PROVE  FirstIsQuota(f \o g)
<1>1. PICK i \in DOMAIN f : IsQuota(f[i]) /\ \A j \in 1..(i - 1) : Data(f[j]) = {}
  BY DEF FirstIsQuota
<1>2. i \in DOMAIN (f \o g) /\ \A j \in 1..i : (f \o g)[j] = f[j]
  OBVIOUS
<1>3. i \in Nat /\ i \in 1..i /\ \A j \in 1..(i - 1) : j \in 1..i
  OBVIOUS
<1> QED
  BY <1>1, <1>2, <1>3 DEF FirstIsQuota

\* What bootstrap() has read so far ends no frame, and is kept as it is.
Unfinished(text, rest) == Split(text) = [frames |-> <<>>, rest |-> rest]

\* One more chunk: what is decided of its frames holds of the whole body.
LEMMA ChunkDecides ==
    ASSUME NEW b \in Text, NEW n \in 0..Len(b), NEW k \in Nat, n + k <= Len(b),
           NEW rest, Unfinished(SubSeq(b, 1, n), rest), NEW parts,
           parts = Split(rest \o SubSeq(b, n + 1, n + k))
    PROVE  /\ parts.frames \in Seq(Text)
           /\ FirstIsQuota(parts.frames) => FirstIsQuota(Split(b).frames)
           /\ parts.frames = <<>> => Unfinished(SubSeq(b, 1, n + k), parts.rest)
<1>1. PICK m \in 0..Len(b) : m = n + k
  BY DEF Text
<1>2. PICK t \in Text, c \in Text :
        t = SubSeq(b, 1, n) /\ c = SubSeq(b, n + 1, n + k) /\ t \o c = SubSeq(b, 1, m)
  BY <1>1, CutText
<1>3. Split(t).rest = rest /\ Split(t).frames = <<>> /\ rest \in Text
  BY <1>2, SplitTyped, PartsAre DEF Unfinished
<1>4. rest \o c \in Text /\ t \o c \in Text
  BY <1>3, ConcatProperties DEF Text
<1>5. parts \in Parts /\ parts.frames \in Seq(Text) /\ parts = Split(rest \o c)
  BY <1>2, <1>4, SplitTyped, PartsAre
<1>6. Split(t \o c).frames = parts.frames /\ Split(t \o c).rest = parts.rest
  <2>1. /\ Split(t \o c).frames = Split(t).frames \o Split(Split(t).rest \o c).frames
        /\ Split(t \o c).rest = Split(Split(t).rest \o c).rest
    BY SplitConcat
  <2> QED
    BY <1>3, <1>5, <2>1, ConcatEmptySeq
<1>7. ASSUME FirstIsQuota(parts.frames) PROVE FirstIsQuota(Split(b).frames)
  <2>1. PICK l \in Nat : l = Len(b) - m
    BY DEF Text
  <2>2. m + l <= Len(b) /\ m + l = Len(b)
    BY <2>1 DEF Text
  <2>3. PICK d \in Text : (t \o c) \o d = SubSeq(b, 1, m + l)
    BY <1>2, <2>2, CutText
  <2>4. b = (t \o c) \o d
    BY <2>2, <2>3, SubSeqFull DEF Text
  <2>5. Split(t \o c).rest \o d \in Text
    BY <1>4, SplitTyped, PartsAre, ConcatProperties DEF Text
  <2>6. Split(Split(t \o c).rest \o d).frames \in Seq(Text)
    BY <2>5, SplitTyped, PartsAre
  <2>7. Split(b).frames = parts.frames \o Split(Split(t \o c).rest \o d).frames
    <3>1. PICK u \in Text : u = t \o c
      BY <1>4
    <3>2. Split(u \o d).frames = Split(u).frames \o Split(Split(u).rest \o d).frames
      BY SplitConcat
    <3> QED
      BY <1>6, <2>4, <3>1, <3>2
  <2> QED
    BY <1>5, <1>7, <2>6, <2>7, FirstStays
<1>8. ASSUME parts.frames = <<>> PROVE Unfinished(SubSeq(b, 1, n + k), parts.rest)
  <2>1. Split(t \o c) = [frames |-> Split(t \o c).frames, rest |-> Split(t \o c).rest]
    BY <1>4, SplitTyped DEF Parts
  <2> QED
    BY <1>1, <1>2, <1>6, <1>8, <2>1 DEF Unfinished
<1> QED
  BY <1>5, <1>7, <1>8

\* The answer that the current attempt was rejected for.
Rejection == http = "answered" \/ FirstIsQuota(Split(body).frames)

\* What quotaFailover() knows of its current attempt: it was limited if it was
\* rejected, for a 429 or its first event, and only a self-contained turn goes
\* back for another account; bootstrap() goes on while it has no event.
RetryInv ==
    /\ provider = "Codex" /\ pc = "start" /\ attempt # 0 =>
        retry /\ attempt \in limits /\ Rejection
    /\ pc = "rejected" => attempt \in limits /\ Rejection
    /\ pc = "calling" => pending = <<>>
    /\ pc = "bootstrap" => Unfinished(SubSeq(body, 1, pos), pending)
    /\ provider = "Claude" => pc = "start"

LEMMA RetryStep == RetryInv /\ BytesInv /\ [Next]_vars => RetryInv'
<1> SUFFICES ASSUME RetryInv, BytesInv, [Next]_vars PROVE RetryInv'
  OBVIOUS
<1>1. CASE Codex(Start)
  BY <1>1 DEF Codex, Start, Execute, RetryInv
<1>2. CASE Codex(CallFails \/ Answer429 \/ AnswerEmpty \/ AnswerError)
  BY <1>2 DEF Codex, CallFails, Answer429, AnswerEmpty, AnswerError, HttpFails, HttpAnswers,
              RetryInv, Rejection
<1>0. CASE Codex(AnswerStream)
  <2>1. pos' = 0 /\ pending' = <<>>
    BY <1>0 DEF Codex, AnswerStream, RetryInv, BytesInv, NotYet
  <2>2. SubSeq(body', 1, 0) = <<>>
    BY SubSeqEmpty
  <2>3. Unfinished(SubSeq(body', 1, pos'), pending')
    BY <2>1, <2>2, SplitEmpty DEF Unfinished, Unsplit
  <2> QED
    BY <1>0, <2>3 DEF Codex, AnswerStream, HttpOpens, RetryInv
<1>3. ASSUME NEW k \in 1..MaxChunk, Codex(BootstrapReads(k)) PROVE RetryInv'
  <2>1. /\ pc = "bootstrap" /\ UNCHANGED <<attempt, provider, http, body>>
        /\ k \in Nat /\ pos + k <= Len(body) /\ pos' = pos + k
        /\ body \in Text /\ pos \in 0..Len(body)
    BY <1>3, EventStreamAssumption DEF Codex, BootstrapReads, stats, fixed, BytesInv, BytesTyped
  <2>2. PICK parts : parts = Split(pending \o SubSeq(body, pos + 1, pos + k))
    OBVIOUS
  <2>3. PICK decision : decision = Decision(parts.frames, pos + k)
    OBVIOUS
  <2>4. /\ decision = "continue" => pending' = parts.rest /\ UNCHANGED pc
        /\ decision = "commit" => pc' = "relaying"
        /\ decision = "rejected" => limits' = limits \cup {attempt} /\ pc' = "rejected"
    BY <1>3, <2>2, <2>3 DEF Codex, BootstrapReads, Commit
  <2>5. Unfinished(SubSeq(body, 1, pos), pending)
    BY <2>1 DEF RetryInv
  <2>6. /\ parts.frames \in Seq(Text)
        /\ FirstIsQuota(parts.frames) => FirstIsQuota(Split(body).frames)
        /\ parts.frames = <<>> => Unfinished(SubSeq(body, 1, pos + k), parts.rest)
    BY <2>1, <2>2, <2>5, ChunkDecides
  <2>7. /\ decision \in {"rejected", "commit", "continue"}
        /\ decision = "rejected" => FirstIsQuota(parts.frames)
        /\ decision = "continue" => parts.frames = <<>>
    BY <2>3, <2>6, DecisionIs
  <2>8. CASE decision = "continue"
    BY <2>1, <2>4, <2>6, <2>7, <2>8 DEF RetryInv
  <2>9. CASE decision = "rejected"
    BY <2>1, <2>4, <2>6, <2>7, <2>9 DEF RetryInv, Rejection
  <2>10. CASE decision = "commit"
    BY <2>1, <2>4, <2>10 DEF RetryInv
  <2> QED
    BY <2>7, <2>8, <2>9, <2>10
<1>4. CASE Codex(BootstrapEnds \/ KeepRejection \/ ChooseFails)
  BY <1>4 DEF Codex, BootstrapEnds, KeepRejection, ChooseFails, Commit, RetryInv
<1>5. CASE Codex(CancelRejected \/ CancelFails)
  BY <1>5 DEF Codex, CancelRejected, CancelFails, HttpCancel, fixed, RetryInv, Rejection
<1>6. ASSUME NEW k \in 1..MaxChunk, Codex(PullReads(k)) PROVE RetryInv'
  BY <1>6 DEF Codex, PullReads, Reading, Deliver, RetryInv
<1>7. CASE Codex(PullBuffered \/ PullEnds \/ PullFails \/ ClientLeaves)
  BY <1>7 DEF Codex, PullBuffered, PullEnds, PullFails, ClientLeaves, Reading, Deliver, Finish,
              RetryInv
<1>8. CASE Codex(ClientAborts)
  BY <1>8 DEF Codex, ClientAborts, Abort, events, RetryInv, Rejection
<1>9. CASE Claude(MessageStreamNext)
  <2>1. provider' = "Claude" /\ UNCHANGED pc /\ provider = "Claude"
    BY <1>9 DEF Claude, events
  <2> QED
    BY <2>1 DEF RetryInv
<1>10. CASE UNCHANGED vars
  BY <1>10 DEF vars, stats, events, RetryInv, Rejection
<1> QED
  BY <1>0, <1>1, <1>2, <1>3, <1>4, <1>5, <1>6, <1>7, <1>8, <1>9, <1>10
  DEF Next, Codex, EventStreamNext, EventSteps

\* No retry after a delivered byte, off an account that was not limited, of a
\* request that needs its previous response, or for anything but a 429 or an
\* event stream that begins with a quota error, in any order of the answers,
\* chunks, aborts and departures, and however the stream was cut.
THEOREM RetriesUnseen == Spec => RetriedUnseen
<1>1. Init => RetryInv
  BY DEF Init, StatsInit, EventStreamInit, RetryInv
<1>2. ASSUME RetryInv, BytesInv, Counting, [Next]_vars, attempt' > attempt, attempt > 0, pc' # pc
      PROVE  retry /\ delivered = <<>> /\ attempt \in limits /\ Rejection
  <2>1. attempt \in Nat /\ attempt # 0 /\ attempt' # attempt
    BY <1>2 DEF Counting
  <2>2. ~Claude(MessageStreamNext) /\ ~UNCHANGED vars
    BY <1>2 DEF Claude, vars, events
  <2>3. provider = "Codex" /\ EventStreamNext
    BY <1>2, <2>2 DEF Next, Codex
  <2>4. EventStreamNext => Start \/ UNCHANGED attempt
    BY DEF EventStreamNext, EventSteps, CallFails, Answer429, AnswerEmpty, AnswerError,
           AnswerStream, BootstrapReads, BootstrapEnds, KeepRejection, ChooseFails, CancelRejected,
           CancelFails, PullReads, PullBuffered, PullEnds, PullFails, Raw, ClientLeaves, ClientAborts, HttpFails, HttpAnswers,
           HttpOpens, HttpEnds, HttpCancel, Abort, stats
  <2> QED
    BY <1>2, <2>1, <2>3, <2>4 DEF Start, RetryInv, BytesInv, NotYet
<1>3. RetryInv /\ BytesInv /\ Counting /\ [Next]_vars =>
        [attempt' > attempt /\ attempt > 0 /\ pc' # pc =>
            retry /\ delivered = <<>> /\ attempt \in limits /\ Rejection]_<<stats, events>>
  BY <1>2
<1> QED
  BY <1>1, <1>3, RetryStep, BytesHold, CountingHolds, PTL DEF Spec, RetriedUnseen, Rejection

-----------------------------------------------------------------------------
(***************************************************************************)
(* The quota errors that observeEvents counts.  It splits only the text it *)
(* has kept, in pieces, and forgets oversized ones; so its text and its    *)
(* flag are compared with the split of all the bytes that were delivered,  *)
(* symbol by symbol.                                                       *)
(***************************************************************************)

\* An event that no cut brings to the limit, and one that some cut leaves there.
Small(frame) == Len(frame) + 2 <= Limit
Allowed(frame) == Len(frame) <= Limit + 1

\* The frames observeEvents must have counted, and those it may have counted.
Must(frames) ==
    {i \in DOMAIN frames : IsQuota(frames[i]) /\ Small(frames[i]) /\ (i > 1 => Small(frames[i - 1]))}
May(frames) == {i \in DOMAIN frames : IsQuota(frames[i]) /\ Allowed(frames[i])}

Bounds(frames, c) == Cardinality(Must(frames)) <= c /\ c <= Cardinality(May(frames))

\* One frame more.
MustAdd(frames, f) == IsQuota(f) /\ Small(f) /\ (frames # <<>> => Small(Last(frames)))
MayAdd(f) == IsQuota(f) /\ Allowed(f)

LEMMA AppendFrame ==
    ASSUME NEW F \in Seq(Text), NEW f \in Text
    PROVE  /\ Len(F) \in Nat /\ DOMAIN F = 1..Len(F)
           /\ DOMAIN Append(F, f) = 1..(Len(F) + 1) /\ Append(F, f) \in Seq(Text)
           /\ Append(F, f)[Len(F) + 1] = f /\ \A i \in 1..Len(F) : Append(F, f)[i] = F[i]
  BY AppendProperties

LEMMA MustGrows ==
    ASSUME NEW F \in Seq(Text), NEW f \in Text
    PROVE  Must(Append(F, f)) = Must(F) \cup (IF MustAdd(F, f) THEN {Len(F) + 1} ELSE {})
<1>1. PICK n \in Nat : n = Len(F)
  OBVIOUS
<1>2. PICK G \in Seq(Text) : G = Append(F, f)
  BY AppendFrame
<1>3. /\ DOMAIN F = 1..n /\ DOMAIN G = 1..(n + 1)
      /\ G[n + 1] = f /\ \A i \in 1..n : G[i] = F[i]
  BY <1>1, <1>2, AppendFrame
<1>4. \A i \in 1..n : i \in Must(G) <=> i \in Must(F)
  <2> SUFFICES ASSUME NEW i \in 1..n PROVE i \in Must(G) <=> i \in Must(F)
    OBVIOUS
  <2>1. i \in DOMAIN G /\ i \in DOMAIN F /\ G[i] = F[i] /\ (i > 1 => G[i - 1] = F[i - 1])
    BY <1>3
  <2> QED
    BY <2>1 DEF Must
<1>5. n + 1 \in Must(G) <=> MustAdd(F, f)
  <2>1. F = <<>> <=> n = 0
    BY <1>1
  <2>2. n + 1 > 1 => n \in 1..n /\ G[n + 1 - 1] = F[n] /\ Last(F) = F[n]
    BY <1>1, <1>3 DEF Last
  <2>3. n + 1 \in DOMAIN G
    BY <1>3
  <2> QED
    BY <1>3, <2>1, <2>2, <2>3 DEF Must, MustAdd
<1>6. Must(G) \subseteq 1..(n + 1) /\ Must(F) \subseteq 1..n
  BY <1>3 DEF Must
<1> QED
  BY <1>1, <1>2, <1>4, <1>5, <1>6

LEMMA MayGrows ==
    ASSUME NEW F \in Seq(Text), NEW f \in Text
    PROVE  May(Append(F, f)) = May(F) \cup (IF MayAdd(f) THEN {Len(F) + 1} ELSE {})
<1>1. PICK n \in Nat : n = Len(F)
  OBVIOUS
<1>2. PICK G \in Seq(Text) : G = Append(F, f)
  BY AppendFrame
<1>3. /\ DOMAIN F = 1..n /\ DOMAIN G = 1..(n + 1)
      /\ G[n + 1] = f /\ \A i \in 1..n : G[i] = F[i]
  BY <1>1, <1>2, AppendFrame
<1>4. \A i \in 1..n : i \in May(G) <=> i \in May(F)
  BY <1>3 DEF May
<1>5. n + 1 \in May(G) <=> MayAdd(f)
  BY <1>3 DEF May, MayAdd
<1>6. May(G) \subseteq 1..(n + 1) /\ May(F) \subseteq 1..n
  BY <1>3 DEF May
<1> QED
  BY <1>1, <1>2, <1>4, <1>5, <1>6

\* A set of positions, and one more at the end.
LEMMA OneMore ==
    ASSUME NEW n \in Nat, NEW M, M \subseteq 1..n
    PROVE  /\ Cardinality(M) \in Nat /\ IsFiniteSet(M)
           /\ Cardinality(M \cup {n + 1}) = Cardinality(M) + 1
<1>1. IsFiniteSet(1..n)
  BY FS_Interval
<1>2. IsFiniteSet(M)
  BY <1>1, FS_Subset
<1>3. n + 1 \notin M
  OBVIOUS
<1> QED
  BY <1>2, <1>3, FS_AddElement, FS_CardinalityType

LEMMA BoundsStep ==
    ASSUME NEW F \in Seq(Text), NEW f \in Text, NEW c \in Nat, NEW x \in {0, 1},
           Bounds(F, c), MustAdd(F, f) => x = 1, x = 1 => MayAdd(f)
    PROVE  Bounds(Append(F, f), c + x)
<1>1. PICK n \in Nat : n = Len(F)
  OBVIOUS
<1>2. Must(F) \subseteq 1..n /\ May(F) \subseteq 1..n
  BY <1>1 DEF Must, May
<1>3. /\ Cardinality(Must(F)) \in Nat /\ Cardinality(May(F)) \in Nat
      /\ Cardinality(Must(F) \cup {n + 1}) = Cardinality(Must(F)) + 1
      /\ Cardinality(May(F) \cup {n + 1}) = Cardinality(May(F)) + 1
  BY <1>2, OneMore
<1>4. Cardinality(Must(Append(F, f))) = Cardinality(Must(F)) + IF MustAdd(F, f) THEN 1 ELSE 0
  <2>1. CASE MustAdd(F, f)
    <3>1. Must(Append(F, f)) = Must(F) \cup {n + 1}
      BY <1>1, <2>1, MustGrows
    <3> QED
      BY <1>3, <2>1, <3>1
  <2>2. CASE ~MustAdd(F, f)
    <3>1. Must(Append(F, f)) = Must(F) \cup {}
      BY <2>2, MustGrows
    <3>2. Must(Append(F, f)) = Must(F)
      BY <3>1
    <3> QED
      BY <1>3, <2>2, <3>2
  <2> QED
    BY <2>1, <2>2
<1>5. Cardinality(May(Append(F, f))) = Cardinality(May(F)) + IF MayAdd(f) THEN 1 ELSE 0
  <2>1. CASE MayAdd(f)
    <3>1. May(Append(F, f)) = May(F) \cup {n + 1}
      BY <1>1, <2>1, MayGrows
    <3> QED
      BY <1>3, <2>1, <3>1
  <2>2. CASE ~MayAdd(f)
    <3>1. May(Append(F, f)) = May(F) \cup {}
      BY <2>2, MayGrows
    <3>2. May(Append(F, f)) = May(F)
      BY <3>1
    <3> QED
      BY <1>3, <2>2, <3>2
  <2> QED
    BY <2>1, <2>2
<1> QED
  BY <1>3, <1>4, <1>5 DEF Bounds

-----------------------------------------------------------------------------
LEMMA ConcatAppendText ==
    \A x, y \in Text, e \in Symbols : x \o Append(y, e) = Append(x \o y, e)
<1>1. \A x, y \in Seq(Symbols), e \in Symbols : x \o Append(y, e) = Append(x \o y, e)
  BY ConcatAppend
<1> QED
  BY <1>1 DEF Text

\* A text with more before it ends in the same way.
LEMMA Prefixed ==
    ASSUME NEW z \in Text, NEW p \in Text, NEW s \in Symbols
    PROVE  /\ z \o p \in Text /\ Len(z \o p) = Len(z) + Len(p) /\ Len(z) \in Nat /\ Len(p) \in Nat
           /\ Append(z \o p, s) = z \o Append(p, s)
           /\ p # <<>> => /\ Ends(z \o p, s) <=> Ends(p, s)
                          /\ Front(z \o p) = z \o Front(p)
<1>1. /\ z \o p \in Text /\ Len(z \o p) = Len(z) + Len(p) /\ Len(z) \in Nat /\ Len(p) \in Nat
      /\ \A i \in 1..(Len(z) + Len(p)) : (z \o p)[i] = IF i <= Len(z) THEN z[i] ELSE p[i - Len(z)]
  BY ConcatProperties DEF Text
<1>2. Append(z \o p, s) = z \o Append(p, s)
  BY ConcatAppendText
<1>3. ASSUME p # <<>> PROVE Ends(z \o p, s) <=> Ends(p, s)
  <2>1. Len(p) > 0
    BY <1>3 DEF Text
  <2>2. Last(z \o p) = Last(p)
    BY <1>1, <2>1 DEF Last
  <2>3. z \o p # <<>>
    BY <1>1, <2>1
  <2> QED
    BY <1>3, <2>2, <2>3 DEF Ends
<1>4. ASSUME p # <<>> PROVE Front(z \o p) = z \o Front(p)
  <2>1. PICK q \in Text, e \in Symbols : p = Append(q, e)
    BY <1>3, <1>4, SequenceEmptyOrAppend DEF Text
  <2>2. z \o p = Append(z \o q, e) /\ z \o q \in Text
    BY <2>1, ConcatAppend, ConcatProperties DEF Text
  <2>3. ASSUME NEW t \in Text PROVE Front(Append(t, e)) = t
    <3>1. PICK u \in Text : u = Append(t, e)
      BY AppendText
    <3>2. Len(u) = Len(t) + 1 /\ Len(t) \in Nat /\ \A i \in 1..Len(t) : u[i] = t[i]
      BY <3>1, AppendText
    <3>3. u # <<>> /\ Len(u) - 1 = Len(t)
      BY <3>2
    <3>4. Front(u) \in Text /\ Len(Front(u)) = Len(t) /\ \A i \in 1..Len(t) : Front(u)[i] = t[i]
      BY <3>2, <3>3, FrontText
    <3>5. Front(u) = t
      BY <3>4, SeqEqual DEF Text
    <3> QED
      BY <3>1, <3>5
  <2> QED
    BY <2>1, <2>2, <2>3
<1> QED
  BY <1>1, <1>2, <1>3, <1>4

\* A line end before a frame changes nothing for its data lines.
LEMMA QuotaShifts ==
    ASSUME NEW f \in Text
    PROVE  (IsQuota(<<"n">> \o f) <=> IsQuota(f)) /\ Len(<<"n">> \o f) = Len(f) + 1
<1>1. PICK g \in Text : g = <<"n">> \o f
  <2>1. <<"n">> \in Text
    BY DEF Text, Symbols
  <2> QED
    BY <2>1, ConcatProperties DEF Text
<1>2. PICK n \in Nat : n = Len(f)
  BY DEF Text
<1>3. /\ DOMAIN f = 1..n /\ DOMAIN g = 1..(n + 1) /\ g[1] = "n"
      /\ \A i \in 1..n : g[i + 1] = f[i]
  BY <1>1, <1>2 DEF Text
<1>4. \A i \in 1..n : i \in Data(f) <=> i + 1 \in Data(g)
  BY <1>3 DEF Data
<1>5. 1 \notin Data(g) /\ Data(g) \subseteq 1..(n + 1) /\ Data(f) \subseteq 1..n
  BY <1>3 DEF Data
<1>6. \A i \in 1..n : Data(f) = {i} <=> Data(g) = {i + 1}
  BY <1>4, <1>5
<1>7. ASSUME IsQuota(f) PROVE IsQuota(g)
  <2>1. PICK i \in 1..n : Data(f) = {i} /\ f[i] = "q"
    BY <1>3, <1>7 DEF IsQuota
  <2> QED
    BY <1>3, <1>6, <2>1 DEF IsQuota
<1>8. ASSUME IsQuota(g) PROVE IsQuota(f)
  <2>1. PICK j \in 1..(n + 1) : Data(g) = {j} /\ g[j] = "q"
    BY <1>3, <1>8 DEF IsQuota
  <2>2. j # 1
    BY <1>5, <2>1
  <2>3. PICK i \in 1..n : j = i + 1
    BY <2>2
  <2> QED
    BY <1>3, <1>6, <2>1, <2>3 DEF IsQuota
<1>9. Len(g) = Len(f) + 1
  BY <1>1 DEF Text
<1> QED
  BY <1>1, <1>7, <1>8, <1>9

LEMMA EmptyFrame == ~IsQuota(<<>>)
  BY DEF IsQuota, Data

-----------------------------------------------------------------------------
\* observeEvents, with `p' pending, `d' for discard and `c' events counted, has
\* seen the frames F and the unfinished frame `r'.  It has r as it is; or it
\* dropped the beginning of an oversized one; or it dropped all of that up to
\* the second line end, and then has a line end more than r, or one less.
Exact(r, p, d) == p = r /\ ~d
Dropping(r, p, d) == d /\ Len(r) >= Limit /\ \E z \in Text : r = z \o p
Ahead(F, r, p, d) == p = <<"n">> \o r /\ (d => F # <<>> /\ ~Small(Last(F)))
Behind(r, p, d) == r = <<"n">> \o p /\ ~d

Follows(F, r, p, d) == Exact(r, p, d) \/ Dropping(r, p, d) \/ Ahead(F, r, p, d) \/ Behind(r, p, d)

\* What a symbol makes of the frames and of the text after them.
NewFrames(F, r, s) == IF Ends(r, s) THEN Append(F, Front(r)) ELSE F
NewRest(r, s) == IF Ends(r, s) THEN <<>> ELSE Append(r, s)
Counts(p, d, s) == Ends(p, s) /\ ~d /\ Len(Front(p)) <= Limit /\ IsQuota(Front(p))
One(b) == IF b THEN 1 ELSE 0

\* The bounds after a symbol, from what it ends in r and in p.
LEMMA BoundsAfter ==
    ASSUME NEW F \in Seq(Text), NEW r \in Text, NEW s \in Symbols, NEW c \in Nat, NEW b \in BOOLEAN,
           Bounds(F, c), b => Ends(r, s),
           Ends(r, s) => /\ MustAdd(F, Front(r)) => b
                         /\ b => MayAdd(Front(r))
    PROVE  Bounds(NewFrames(F, r, s), c + One(b))
<1>1. CASE Ends(r, s)
  <2>1. Front(r) \in Text
    BY <1>1, FrontText DEF Ends
  <2>2. PICK x \in {0, 1} : x = One(b)
    BY DEF One
  <2>3. (MustAdd(F, Front(r)) => x = 1) /\ (x = 1 => MayAdd(Front(r)))
    BY <1>1, <2>2 DEF One
  <2>4. Bounds(Append(F, Front(r)), c + x)
    BY <2>1, <2>3, BoundsStep
  <2> QED
    BY <1>1, <2>2, <2>4 DEF NewFrames
<1>2. CASE ~Ends(r, s)
  BY <1>2 DEF NewFrames, One
<1> QED
  BY <1>1, <1>2

StepHolds(F, r, p, d, c, s) ==
    /\ Follows(NewFrames(F, r, s), NewRest(r, s), NewRest(p, s), d /\ ~Ends(p, s))
    /\ Bounds(NewFrames(F, r, s), c + One(Counts(p, d, s)))

LEMMA ExactStep ==
    ASSUME NEW F \in Seq(Text), NEW r \in Text, NEW p \in Text, NEW d \in BOOLEAN, NEW c \in Nat,
           NEW s \in Symbols, Bounds(F, c), Exact(r, p, d)
    PROVE  StepHolds(F, r, p, d, c, s)
<1>1. Exact(NewRest(r, s), NewRest(p, s), d /\ ~Ends(p, s))
  BY DEF Exact
<1>2. ASSUME Ends(r, s) PROVE /\ MustAdd(F, Front(r)) => Counts(p, d, s)
                              /\ Counts(p, d, s) => MayAdd(Front(r))
  <2>1. Len(Front(r)) \in Nat
    BY <1>2, FrontText DEF Ends, Text
  <2> QED
    BY <1>2, <2>1, EventStreamAssumption DEF Exact, MustAdd, MayAdd, Small, Allowed, Counts
<1>3. Counts(p, d, s) \in BOOLEAN /\ (Counts(p, d, s) => Ends(r, s))
  BY DEF Counts, Exact, Ends
<1> QED
  BY <1>1, <1>2, <1>3, BoundsAfter DEF StepHolds, Follows

LEMMA DroppingStep ==
    ASSUME NEW F \in Seq(Text), NEW r \in Text, NEW p \in Text, NEW d \in BOOLEAN, NEW c \in Nat,
           NEW s \in Symbols, Bounds(F, c), Dropping(r, p, d)
    PROVE  StepHolds(F, r, p, d, c, s)
<1>1. PICK z \in Text : r = z \o p
  BY DEF Dropping
<1>2. d /\ Len(r) >= Limit /\ Limit \in Nat \ {0} /\ Len(r) \in Nat /\ r # <<>>
  BY EventStreamAssumption DEF Dropping, Text
<1>3. ~Counts(p, d, s)
  BY <1>2 DEF Counts
<1>4. ~Small(Front(r)) /\ ~MustAdd(F, Front(r)) /\ Front(r) \in Text
  BY <1>2, FrontText DEF Small, MustAdd
<1>5. Bounds(NewFrames(F, r, s), c + One(Counts(p, d, s)))
  <2>1. Counts(p, d, s) \in BOOLEAN
    BY DEF Counts, Ends
  <2> QED
    BY <1>3, <1>4, <2>1, BoundsAfter
<1>6. Append(r, s) = z \o Append(p, s) /\ (p # <<>> => (Ends(r, s) <=> Ends(p, s)))
  BY <1>1, Prefixed
<1>7. CASE Ends(r, s) /\ p # <<>>
  <2>1. Exact(NewRest(r, s), NewRest(p, s), d /\ ~Ends(p, s))
    BY <1>6, <1>7 DEF Exact, NewRest
  <2> QED
    BY <1>5, <2>1 DEF StepHolds, Follows
<1>8. CASE Ends(r, s) /\ p = <<>>
  <2>1. NewRest(r, s) = <<>> /\ NewRest(p, s) = <<"n">> /\ ~Ends(p, s)
    BY <1>8 DEF NewRest, Ends
  <2>2. PICK G \in Seq(Text) : G = Append(F, Front(r))
    BY <1>4, AppendProperties
  <2>3. G # <<>> /\ Last(G) = Front(r)
    BY <1>4, <2>2 DEF Last
  <2>4. <<"n">> \o <<>> = <<"n">>
    OBVIOUS
  <2>5. Ahead(NewFrames(F, r, s), NewRest(r, s), NewRest(p, s), d /\ ~Ends(p, s))
    BY <1>4, <1>8, <2>1, <2>2, <2>3, <2>4 DEF Ahead, NewFrames
  <2> QED
    BY <1>5, <2>5 DEF StepHolds, Follows
<1>9. CASE ~Ends(r, s)
  <2>1. ~Ends(p, s)
    BY <1>6, <1>9 DEF Ends
  <2>2. Append(r, s) \in Text /\ Len(Append(r, s)) >= Limit
    BY <1>2, AppendText
  <2>3. Dropping(NewRest(r, s), NewRest(p, s), d /\ ~Ends(p, s))
    BY <1>2, <1>6, <1>9, <2>1, <2>2 DEF Dropping, NewRest
  <2> QED
    BY <1>5, <2>3 DEF StepHolds, Follows
<1> QED
  BY <1>7, <1>8, <1>9

LEMMA AheadStep ==
    ASSUME NEW F \in Seq(Text), NEW r \in Text, NEW p \in Text, NEW d \in BOOLEAN, NEW c \in Nat,
           NEW s \in Symbols, Bounds(F, c), Ahead(F, r, p, d)
    PROVE  StepHolds(F, r, p, d, c, s)
<1>1. <<"n">> \in Text /\ p = <<"n">> \o r /\ Len(<<"n">>) = 1
  BY DEF Ahead, Text, Symbols
<1>2. /\ Append(p, s) = <<"n">> \o Append(r, s)
      /\ r # <<>> => (Ends(p, s) <=> Ends(r, s)) /\ Front(p) = <<"n">> \o Front(r)
  BY <1>1, Prefixed
<1>3. Limit \in Nat \ {0}
  BY EventStreamAssumption
<1>4. CASE r # <<>> /\ Ends(r, s)
  <2>1. Front(r) \in Text /\ Len(Front(r)) \in Nat
    BY <1>4, FrontText DEF Text
  <2>2. Len(Front(p)) = Len(Front(r)) + 1 /\ (IsQuota(Front(p)) <=> IsQuota(Front(r)))
    BY <1>2, <1>4, <2>1, QuotaShifts
  <2>3. MustAdd(F, Front(r)) => Counts(p, d, s)
    BY <1>2, <1>3, <1>4, <2>1, <2>2 DEF MustAdd, Counts, Small, Ahead
  <2>4. Counts(p, d, s) => MayAdd(Front(r))
    BY <1>3, <2>1, <2>2 DEF MayAdd, Counts, Allowed
  <2>5. Counts(p, d, s) \in BOOLEAN
    BY DEF Counts, Ends
  <2>6. Bounds(NewFrames(F, r, s), c + One(Counts(p, d, s)))
    BY <1>4, <2>3, <2>4, <2>5, BoundsAfter
  <2>7. Exact(NewRest(r, s), NewRest(p, s), d /\ ~Ends(p, s))
    BY <1>2, <1>4 DEF Exact, NewRest
  <2> QED
    BY <2>6, <2>7 DEF StepHolds, Follows
<1>5. CASE r # <<>> /\ ~Ends(r, s)
  <2>1. Ahead(NewFrames(F, r, s), NewRest(r, s), NewRest(p, s), d /\ ~Ends(p, s))
    BY <1>2, <1>5 DEF Ahead, NewRest, NewFrames
  <2>2. Bounds(NewFrames(F, r, s), c + One(Counts(p, d, s)))
    BY <1>2, <1>5 DEF NewFrames, One, Counts
  <2> QED
    BY <2>1, <2>2 DEF StepHolds, Follows
<1>6. CASE r = <<>>
  <2>1. p = <<"n">> /\ ~Ends(r, s) /\ (Ends(p, s) <=> s = "n")
    BY <1>1, <1>6 DEF Ends, Last
  <2>2. Front(p) = <<>>
    BY <2>1, SubSeqEmpty DEF Front
  <2>3. Bounds(NewFrames(F, r, s), c + One(Counts(p, d, s)))
    BY <2>1, <2>2, EmptyFrame DEF NewFrames, One, Counts
  <2>4. CASE s = "n"
    <3>1. NewRest(r, s) = <<"n">> \o NewRest(p, s)
      BY <1>6, <2>1, <2>4 DEF NewRest
    <3>2. Behind(NewRest(r, s), NewRest(p, s), d /\ ~Ends(p, s))
      BY <2>1, <2>4, <3>1 DEF Behind
    <3> QED
      BY <2>3, <3>2 DEF StepHolds, Follows
  <2>5. CASE s # "n"
    <3>1. Ahead(NewFrames(F, r, s), NewRest(r, s), NewRest(p, s), d /\ ~Ends(p, s))
      BY <1>2, <2>1, <2>5 DEF Ahead, NewRest, NewFrames
    <3> QED
      BY <2>3, <3>1 DEF StepHolds, Follows
  <2> QED
    BY <2>4, <2>5
<1> QED
  BY <1>4, <1>5, <1>6

LEMMA BehindStep ==
    ASSUME NEW F \in Seq(Text), NEW r \in Text, NEW p \in Text, NEW d \in BOOLEAN, NEW c \in Nat,
           NEW s \in Symbols, Bounds(F, c), Behind(r, p, d)
    PROVE  StepHolds(F, r, p, d, c, s)
<1>1. <<"n">> \in Text /\ r = <<"n">> \o p /\ Len(<<"n">>) = 1 /\ ~d
  BY DEF Behind, Text, Symbols
<1>2. /\ Append(r, s) = <<"n">> \o Append(p, s)
      /\ p # <<>> => (Ends(r, s) <=> Ends(p, s)) /\ Front(r) = <<"n">> \o Front(p)
  BY <1>1, Prefixed
<1>3. Limit \in Nat \ {0}
  BY EventStreamAssumption
<1>4. CASE p # <<>> /\ Ends(p, s)
  <2>1. Front(p) \in Text /\ Len(Front(p)) \in Nat
    BY <1>4, FrontText DEF Text
  <2>2. Len(Front(r)) = Len(Front(p)) + 1 /\ (IsQuota(Front(r)) <=> IsQuota(Front(p)))
    BY <1>2, <1>4, <2>1, QuotaShifts
  <2>3. MustAdd(F, Front(r)) => Counts(p, d, s)
    BY <1>1, <1>3, <1>4, <2>1, <2>2 DEF MustAdd, Counts, Small
  <2>4. Counts(p, d, s) => MayAdd(Front(r))
    BY <1>3, <2>1, <2>2 DEF MayAdd, Counts, Allowed
  <2>5. Counts(p, d, s) \in BOOLEAN
    BY DEF Counts, Ends
  <2>6. Bounds(NewFrames(F, r, s), c + One(Counts(p, d, s)))
    BY <1>2, <1>4, <2>3, <2>4, <2>5, BoundsAfter
  <2>7. Exact(NewRest(r, s), NewRest(p, s), d /\ ~Ends(p, s))
    BY <1>2, <1>4 DEF Exact, NewRest
  <2> QED
    BY <2>6, <2>7 DEF StepHolds, Follows
<1>5. CASE p # <<>> /\ ~Ends(p, s)
  <2>1. Behind(NewRest(r, s), NewRest(p, s), d /\ ~Ends(p, s))
    BY <1>1, <1>2, <1>5 DEF Behind, NewRest
  <2>2. Bounds(NewFrames(F, r, s), c + One(Counts(p, d, s)))
    BY <1>2, <1>5 DEF NewFrames, One, Counts
  <2> QED
    BY <2>1, <2>2 DEF StepHolds, Follows
<1>6. CASE p = <<>>
  <2>1. r = <<"n">> /\ ~Ends(p, s) /\ (Ends(r, s) <=> s = "n")
    BY <1>1, <1>6 DEF Ends, Last
  <2>2. Front(r) = <<>>
    BY <2>1, SubSeqEmpty DEF Front
  <2>3. Bounds(NewFrames(F, r, s), c + One(Counts(p, d, s)))
    <3>1. ~Counts(p, d, s) /\ ~MustAdd(F, Front(r))
      BY <2>1, <2>2, EmptyFrame DEF Counts, MustAdd
    <3>2. Counts(p, d, s) \in BOOLEAN
      BY DEF Counts, Ends
    <3> QED
      BY <3>1, <3>2, BoundsAfter
  <2>4. CASE s = "n"
    <3>1. NewRest(p, s) = <<"n">> \o NewRest(r, s)
      BY <1>6, <2>1, <2>4 DEF NewRest
    <3>2. Ahead(NewFrames(F, r, s), NewRest(r, s), NewRest(p, s), d /\ ~Ends(p, s))
      BY <1>1, <3>1 DEF Ahead
    <3> QED
      BY <2>3, <3>2 DEF StepHolds, Follows
  <2>5. CASE s # "n"
    <3>1. Behind(NewRest(r, s), NewRest(p, s), d /\ ~Ends(p, s))
      BY <1>1, <1>2, <2>1, <2>5 DEF Behind, NewRest
    <3> QED
      BY <2>3, <3>1 DEF StepHolds, Follows
  <2> QED
    BY <2>4, <2>5
<1> QED
  BY <1>4, <1>5, <1>6

LEMMA SymbolStep ==
    ASSUME NEW F \in Seq(Text), NEW r \in Text, NEW p \in Text, NEW d \in BOOLEAN, NEW c \in Nat,
           NEW s \in Symbols, Bounds(F, c), Follows(F, r, p, d)
    PROVE  StepHolds(F, r, p, d, c, s)
  BY ExactStep, DroppingStep, AheadStep, BehindStep DEF Follows

-----------------------------------------------------------------------------
\* The quota errors that observeEvents counts in the frames of a chunk.
Taken(G, d) ==
    {i \in DOMAIN G : Len(G[i]) <= Limit /\ (d => i > 1) /\ IsQuota(G[i])}

LEMMA TakenGrows ==
    ASSUME NEW G \in Seq(Text), NEW f \in Text, NEW d \in BOOLEAN, NEW b \in BOOLEAN,
           b <=> Len(f) <= Limit /\ (d => G # <<>>) /\ IsQuota(f)
    PROVE  /\ Cardinality(Taken(G, d)) \in Nat
           /\ Cardinality(Taken(Append(G, f), d)) = Cardinality(Taken(G, d)) + One(b)
<1>1. PICK n \in Nat : n = Len(G)
  OBVIOUS
<1>2. PICK H \in Seq(Text) : H = Append(G, f)
  BY AppendFrame
<1>3. /\ DOMAIN G = 1..n /\ DOMAIN H = 1..(n + 1)
      /\ H[n + 1] = f /\ \A i \in 1..n : H[i] = G[i]
  BY <1>1, <1>2, AppendFrame
<1>4. \A i \in 1..n : i \in Taken(H, d) <=> i \in Taken(G, d)
  BY <1>3 DEF Taken
<1>5. n + 1 \in Taken(H, d) <=> b
  <2>1. G # <<>> <=> n + 1 > 1
    BY <1>1
  <2> QED
    BY <1>3, <2>1 DEF Taken
<1>6. Taken(H, d) \subseteq 1..(n + 1) /\ Taken(G, d) \subseteq 1..n
  BY <1>3 DEF Taken
<1>7. /\ Cardinality(Taken(G, d)) \in Nat
      /\ Cardinality(Taken(G, d) \cup {n + 1}) = Cardinality(Taken(G, d)) + 1
  BY <1>6, OneMore
<1>8. CASE b
  <2>1. Taken(H, d) = Taken(G, d) \cup {n + 1}
    BY <1>4, <1>5, <1>6, <1>8
  <2> QED
    <3>1. One(b) = 1
      BY <1>8 DEF One
    <3>2. Cardinality(Taken(H, d)) = Cardinality(Taken(G, d)) + 1
      BY <1>7, <2>1
    <3> QED
      BY <1>2, <1>7, <3>1, <3>2
<1>9. CASE ~b
  <2>1. Taken(H, d) = Taken(G, d)
    <3>1. Taken(H, d) \subseteq 1..n
      <4>1. \A i \in 1..(n + 1) : i = n + 1 \/ i \in 1..n
        OBVIOUS
      <4> QED
        BY <1>5, <1>6, <1>9, <4>1
    <3> QED
      BY <1>4, <1>6, <3>1
  <2> QED
    <3>1. One(b) = 0
      BY <1>9 DEF One
    <3>2. Cardinality(Taken(G, d)) = Cardinality(Taken(G, d)) + 0
      BY <1>7
    <3> QED
      BY <1>2, <1>7, <2>1, <3>1, <3>2
<1> QED
  BY <1>8, <1>9

LEMMA FeedNew ==
    ASSUME NEW p \in Parts, NEW s
    PROVE  Feed(p, s).frames = NewFrames(p.frames, p.rest, s) /\ Feed(p, s).rest = NewRest(p.rest, s)
<1>1. CASE Ends(p.rest, s)
  BY <1>1, FeedIs DEF NewFrames, NewRest
<1>2. CASE ~Ends(p.rest, s)
  BY <1>2, FeedIs DEF NewFrames, NewRest
<1> QED
  BY <1>1, <1>2

\* The symbols b of a chunk have passed, after the text D.
Passed(D, p, d, c, b) ==
    LET u == Split(D \o b)
        v == Split(p \o b)
    IN  /\ Bounds(u.frames, c + Cardinality(Taken(v.frames, d)))
        /\ Follows(u.frames, u.rest, v.rest, d /\ v.frames = <<>>)

LEMMA NonePassed ==
    ASSUME NEW D \in Text, NEW p \in Text, NEW d \in BOOLEAN, NEW c \in Nat, Unfinished(p, p),
           Bounds(Split(D).frames, c), Follows(Split(D).frames, Split(D).rest, p, d)
    PROVE  Passed(D, p, d, c, <<>>)
<1>1. D \o <<>> = D /\ p \o <<>> = p
  BY DEF Text
<1>2. Split(p).frames = <<>> /\ Split(p).rest = p
  BY DEF Unfinished
<1>3. Taken(<<>>, d) = {}
  BY DEF Taken
<1>4. c + Cardinality({}) = c
  BY FS_EmptySet
<1>5. (d /\ <<>> = <<>>) = d
  OBVIOUS
<1> QED
  BY <1>1, <1>2, <1>3, <1>4, <1>5 DEF Passed

LEMMA PassedStep ==
    ASSUME NEW D \in Text, NEW p \in Text, NEW d \in BOOLEAN, NEW c \in Nat,
           NEW b \in Text, NEW s \in Symbols, Passed(D, p, d, c, b)
    PROVE  Passed(D, p, d, c, Append(b, s))
<1>1. D \o b \in Text /\ p \o b \in Text
  BY ConcatProperties DEF Text
<1>2. D \o Append(b, s) = Append(D \o b, s) /\ p \o Append(b, s) = Append(p \o b, s)
  BY ConcatAppendText
<1>3. PICK u \in Parts, v \in Parts : u = Split(D \o b) /\ v = Split(p \o b)
  BY <1>1, SplitTyped
<1>4. Split(D \o Append(b, s)) = Feed(u, s) /\ Split(p \o Append(b, s)) = Feed(v, s)
  BY <1>1, <1>2, <1>3, SplitAppend
<1>5. PICK F \in Seq(Text), r \in Text : F = u.frames /\ r = u.rest
  BY PartsAre
<1>6. PICK G \in Seq(Text), q \in Text : G = v.frames /\ q = v.rest
  BY PartsAre
<1>7. PICK e \in BOOLEAN : e = (d /\ G = <<>>)
  OBVIOUS
<1>8. Cardinality(Taken(G, d)) \in Nat
  <2>1. Taken(G, d) \subseteq 1..Len(G) /\ Len(G) \in Nat
    BY DEF Taken
  <2> QED
    BY <2>1, OneMore
<1>9. PICK k \in Nat : k = c + Cardinality(Taken(G, d))
  BY <1>8
<1>10. Bounds(F, k) /\ Follows(F, r, q, e)
  BY <1>3, <1>5, <1>6, <1>7, <1>9 DEF Passed
<1>11. StepHolds(F, r, q, e, k, s)
  BY <1>10, SymbolStep
<1>12. Counts(q, e, s) \in BOOLEAN
  BY DEF Counts, Ends
<1>13. c + Cardinality(Taken(NewFrames(G, q, s), d)) = k + One(Counts(q, e, s))
  <2>1. CASE Ends(q, s)
    <3>1. Front(q) \in Text
      BY <2>1, FrontText DEF Ends
    <3>2. Counts(q, e, s) <=> Len(Front(q)) <= Limit /\ (d => G # <<>>) /\ IsQuota(Front(q))
      BY <1>7, <2>1 DEF Counts
    <3>3. Cardinality(Taken(Append(G, Front(q)), d)) = Cardinality(Taken(G, d)) + One(Counts(q, e, s))
      BY <1>12, <3>1, <3>2, TakenGrows
    <3>4. One(Counts(q, e, s)) \in Nat
      BY DEF One
    <3> QED
      BY <1>8, <1>9, <2>1, <3>3, <3>4 DEF NewFrames
  <2>2. CASE ~Ends(q, s)
    BY <1>8, <1>9, <2>2 DEF NewFrames, Counts, One
  <2> QED
    BY <2>1, <2>2
<1>14. (e /\ ~Ends(q, s)) = (d /\ NewFrames(G, q, s) = <<>>)
  <2>1. ASSUME Ends(q, s) PROVE NewFrames(G, q, s) # <<>>
    <3>1. Front(q) \in Text
      BY <2>1, FrontText DEF Ends
    <3> QED
      BY <2>1, <3>1, AppendProperties DEF NewFrames
  <2>2. ASSUME ~Ends(q, s) PROVE NewFrames(G, q, s) = G
    BY <2>2 DEF NewFrames
  <2>3. Ends(q, s) \in BOOLEAN
    BY DEF Ends
  <2> QED
    BY <1>7, <2>1, <2>2, <2>3
<1> QED
  BY <1>4, <1>5, <1>6, <1>11, <1>13, <1>14, FeedNew DEF Passed, StepHolds

LEMMA AllPassed ==
    ASSUME NEW D \in Text, NEW p \in Text, NEW d \in BOOLEAN, NEW c \in Nat, Unfinished(p, p),
           Bounds(Split(D).frames, c), Follows(Split(D).frames, Split(D).rest, p, d),
           NEW chunk \in Text
    PROVE  Passed(D, p, d, c, chunk)
<1> DEFINE S == {b \in Text : Passed(D, p, d, c, b)}
<1>1. <<>> \in S
  BY NonePassed DEF Text
<1>2. ASSUME NEW b \in Text, NEW s \in Symbols, b \in S PROVE Append(b, s) \in S
  BY <1>2, PassedStep, AppendText
<1> HIDE DEF S
<1>3. Text \subseteq S
  BY <1>1, <1>2, TextInduction
<1> QED
  BY <1>3 DEF S

\* What observeEvents keeps after a chunk: too long a text is dropped.
Observing(D, p, d, c) ==
    /\ p \in Text /\ d \in BOOLEAN /\ c \in Nat /\ Unfinished(p, p)
    /\ Bounds(Split(D).frames, c)
    /\ Follows(Split(D).frames, Split(D).rest, p, d)

LEMMA LongDropped ==
    ASSUME NEW F \in Seq(Text), NEW r \in Text, NEW p \in Text, NEW d \in BOOLEAN,
           Follows(F, r, p, d), Len(p) > Limit
    PROVE  Follows(F, r, <<>>, TRUE)
<1>1. Limit \in Nat \ {0} /\ Len(p) \in Nat /\ r = r \o <<>>
  BY EventStreamAssumption DEF Text
<1>2. Len(r) >= Limit
  <2>1. CASE Exact(r, p, d)
    BY <1>1, <2>1 DEF Exact
  <2>2. CASE Dropping(r, p, d)
    BY <2>2 DEF Dropping
  <2>3. CASE Ahead(F, r, p, d)
    BY <1>1, <2>3, QuotaShifts DEF Ahead, Text
  <2>4. CASE Behind(r, p, d)
    BY <1>1, <2>4, QuotaShifts DEF Behind
  <2> QED
    BY <2>1, <2>2, <2>3, <2>4 DEF Follows
<1> QED
  BY <1>1, <1>2 DEF Follows, Dropping

\* What Observe(chunk) makes of the observer's text, flag and count.
Observes(chunk, p, d, c, q, b, k) ==
    \E parts, taken :
        /\ parts = Split(p \o chunk)
        /\ taken = {i \in DOMAIN parts.frames : Len(parts.frames[i]) <= Limit /\ (d => i > 1)}
        /\ q = IF Len(parts.rest) > Limit THEN <<>> ELSE parts.rest
        /\ b = (Len(parts.rest) > Limit \/ (d /\ parts.frames = <<>>))
        /\ k = c + CountQuota(parts.frames, taken)

LEMMA ObserveStep ==
    ASSUME NEW D \in Text, NEW chunk \in Text, NEW p, NEW d, NEW c, Observing(D, p, d, c),
           NEW q, NEW b, NEW k, Observes(chunk, p, d, c, q, b, k)
    PROVE  Observing(D \o chunk, q, b, k)
<1>1. PICK parts, taken :
        /\ parts = Split(p \o chunk)
        /\ taken = {i \in DOMAIN parts.frames : Len(parts.frames[i]) <= Limit /\ (d => i > 1)}
        /\ q = IF Len(parts.rest) > Limit THEN <<>> ELSE parts.rest
        /\ b = (Len(parts.rest) > Limit \/ (d /\ parts.frames = <<>>))
        /\ k = c + CountQuota(parts.frames, taken)
  BY DEF Observes
<1>2. p \in Text /\ d \in BOOLEAN /\ c \in Nat
  BY DEF Observing
<1>3. Passed(D, p, d, c, chunk)
  BY <1>2, AllPassed DEF Observing
<1>4. D \o chunk \in Text /\ p \o chunk \in Text
  BY <1>2, ConcatProperties DEF Text
<1>5. PICK u \in Parts : u = Split(D \o chunk) /\ u.frames \in Seq(Text) /\ u.rest \in Text
  BY <1>4, SplitTyped, PartsAre
<1>6. parts.frames \in Seq(Text) /\ parts.rest \in Text
  BY <1>1, <1>4, SplitTyped, PartsAre
<1>7. PICK e \in BOOLEAN : e = (d /\ parts.frames = <<>>)
  BY <1>2
<1>8. CountQuota(parts.frames, taken) = Cardinality(Taken(parts.frames, d))
  <2>1. {i \in taken : IsQuota(parts.frames[i])} = Taken(parts.frames, d)
    BY <1>1 DEF Taken
  <2> QED
    BY <2>1 DEF CountQuota
<1>9. k \in Nat
  <2>1. PICK n \in Nat : n = Len(parts.frames)
    BY <1>6
  <2>2. Taken(parts.frames, d) \subseteq 1..n
    BY <1>6, <2>1 DEF Taken
  <2>3. Cardinality(Taken(parts.frames, d)) \in Nat
    BY <2>2, OneMore
  <2> QED
    BY <1>1, <1>2, <1>8, <2>3
<1>10. Bounds(u.frames, k) /\ Follows(u.frames, u.rest, parts.rest, e)
  BY <1>1, <1>3, <1>5, <1>7, <1>8 DEF Passed
<1>11. Unfinished(parts.rest, parts.rest)
  BY <1>1, <1>4, RestStays DEF Unfinished
<1>12. CASE Len(parts.rest) > Limit
  <2>1. Follows(u.frames, u.rest, <<>>, TRUE)
    BY <1>5, <1>6, <1>10, <1>12, LongDropped
  <2>2. Unfinished(<<>>, <<>>) /\ <<>> \in Text
    BY SplitEmpty DEF Unfinished, Unsplit, Text
  <2> QED
    BY <1>1, <1>5, <1>9, <1>10, <1>12, <2>1, <2>2 DEF Observing
<1>13. CASE ~(Len(parts.rest) > Limit)
  BY <1>1, <1>5, <1>6, <1>7, <1>9, <1>10, <1>11, <1>13 DEF Observing
<1> QED
  BY <1>12, <1>13

-----------------------------------------------------------------------------
\* Until observeEvents wraps the body its variables are as they began; from
\* then on they follow the delivered bytes.
ObservedInv ==
    /\ pending \in Text
    /\ observing \in BOOLEAN
    /\ ~observing => ~discard /\ observed = 0 /\ discard \in BOOLEAN
    /\ observing => pc \in {"relaying", "done"} /\ Observing(delivered, pending, discard, observed)
    /\ pc = "calling" => pending = <<>>
    /\ provider = "Claude" => pc = "start"

LEMMA StartsExact == Observing(<<>>, <<>>, FALSE, 0)
<1>1. <<>> \in Text /\ Split(<<>>).frames = <<>> /\ Split(<<>>).rest = <<>>
  BY SplitEmpty DEF Text, Unsplit
<1>2. Must(<<>>) = {} /\ May(<<>>) = {} /\ Cardinality({}) = 0
  BY FS_EmptySet DEF Must, May
<1>3. Bounds(<<>>, 0)
  BY <1>2 DEF Bounds
<1>4. Follows(<<>>, <<>>, <<>>, FALSE)
  BY DEF Follows, Exact
<1>5. Unfinished(<<>>, <<>>)
  BY SplitEmpty DEF Unfinished, Unsplit
<1> QED
  BY <1>1, <1>3, <1>4, <1>5 DEF Observing

LEMMA DeliverStep ==
    ASSUME ObservedInv, NEW chunk \in Text, delivered \in Text, pc = "relaying",
           Deliver(chunk), UNCHANGED provider
    PROVE  ObservedInv'
<1>1. CASE observing
  <2>1. Observing(delivered, pending, discard, observed)
    BY <1>1 DEF ObservedInv
  <2>2. Observes(chunk, pending, discard, observed, pending', discard', observed')
    BY <1>1 DEF Deliver, Observe, Oversized, Observes
  <2>3. delivered' = delivered \o chunk
    BY DEF Deliver
  <2>4. Observing(delivered', pending', discard', observed')
    <3>1. PICK D, p, d, c : D = delivered /\ p = pending /\ d = discard /\ c = observed
      OBVIOUS
    <3>2. PICK q, b, k : q = pending' /\ b = discard' /\ k = observed'
      OBVIOUS
    <3>3. D \in Text /\ Observing(D, p, d, c) /\ Observes(chunk, p, d, c, q, b, k)
      BY <2>1, <2>2, <3>1, <3>2
    <3>4. Observing(D \o chunk, q, b, k)
      BY <3>3, ObserveStep
    <3>5. D \o chunk = delivered'
      BY <2>3, <3>1
    <3> QED
      BY <3>2, <3>4, <3>5
  <2>5. UNCHANGED <<observing, pc, provider>>
    BY DEF Deliver
  <2>6. pending' \in Text
    BY <2>4 DEF Observing
  <2> QED
    BY <1>1, <2>4, <2>5, <2>6 DEF ObservedInv
<1>2. CASE ~observing
  BY <1>2 DEF Deliver, ObservedInv
<1> QED
  BY <1>1, <1>2

LEMMA ObservedStep == ObservedInv /\ BytesInv /\ [Next]_vars => ObservedInv'
<1> SUFFICES ASSUME ObservedInv, BytesInv, [Next]_vars PROVE ObservedInv'
  OBVIOUS
<1>1. /\ body \in Text /\ pos \in 0..Len(body) /\ chunks \in Seq(Text) /\ delivered \in Text
      /\ <<>> \in Text
  BY DeliveredText DEF BytesInv, BytesTyped, Text
<1>2. ASSUME pc \notin {"relaying", "done"}
      PROVE  ~observing /\ delivered = <<>> /\ ~discard /\ discard = FALSE /\ observed = 0
  BY <1>2 DEF ObservedInv, BytesInv, NotYet
<1>3. ASSUME pc \notin {"relaying", "done"}, pc' = "relaying", observing' = TRUE, pending' = <<>>,
             UNCHANGED <<discard, observed, delivered, provider>>, provider = "Codex"
      PROVE  ObservedInv'
  BY <1>1, <1>2, <1>3, StartsExact DEF ObservedInv
<1>4. ASSUME pc \notin {"relaying", "done"}, pending' \in Text, UNCHANGED <<observer, provider>>,
             provider = "Codex", pc' = "calling" => pending' = <<>>
      PROVE  ObservedInv'
  BY <1>2, <1>4 DEF ObservedInv, observer
<1>5. CASE Codex(Start \/ CallFails \/ Answer429 \/ AnswerEmpty \/ AnswerStream)
  <2>1. /\ pending' \in {pending, <<>>} /\ UNCHANGED <<observer, provider>> /\ provider = "Codex"
        /\ pc' = "calling" => pending' = <<>>
    BY <1>5 DEF Codex, Start, Execute, CallFails, Answer429, AnswerEmpty, AnswerStream
  <2>2. pc \notin {"relaying", "done"}
    BY <1>5 DEF Codex, Start, CallFails, Answer429, AnswerEmpty, AnswerStream
  <2> QED
    BY <1>1, <1>4, <2>1, <2>2 DEF ObservedInv
<1>14. CASE Codex(AnswerError)
  <2>1. /\ pc = "calling" /\ pc' = "relaying" /\ observing' \in BOOLEAN /\ provider = "Codex"
        /\ UNCHANGED <<pending, discard, observed, delivered, provider>>
    BY <1>14 DEF Codex, AnswerError
  <2>2. CASE observing'
    BY <1>3, <2>1, <2>2 DEF ObservedInv
  <2>3. CASE ~observing'
    BY <1>2, <2>1, <2>3 DEF ObservedInv
  <2> QED
    BY <2>2, <2>3
<1>6. ASSUME NEW k \in 1..MaxChunk, Codex(BootstrapReads(k)) PROVE ObservedInv'
  <2>1. /\ pc = "bootstrap" /\ k \in Nat /\ pos + k <= Len(body)
        /\ UNCHANGED <<discard, observed, delivered, provider>> /\ provider = "Codex"
    BY <1>6, EventStreamAssumption DEF Codex, BootstrapReads
  <2>2. PICK chunk \in Text : chunk = SubSeq(body, pos + 1, pos + k)
    BY <1>1, <2>1, CutText
  <2>3. PICK parts \in Parts : parts = Split(pending \o chunk)
    <3>1. pending \o chunk \in Text
      BY ConcatProperties DEF ObservedInv, Text
    <3> QED
      BY <3>1, SplitTyped
  <2>4. PICK decision : decision = Decision(parts.frames, pos + k)
    OBVIOUS
  <2>5. /\ parts.frames \in Seq(Text) /\ parts.rest \in Text
        /\ decision \in {"rejected", "commit", "continue"}
    BY <2>4, PartsAre, DecisionIs
  <2>6. /\ decision = "continue" => pending' = parts.rest /\ UNCHANGED observing
        /\ decision = "commit" => pc' = "relaying" /\ observing' = TRUE /\ pending' = <<>>
        /\ decision = "rejected" => pending' = <<>> /\ UNCHANGED observing
    BY <1>6, <2>2, <2>3, <2>4 DEF Codex, BootstrapReads, Commit
  <2>7. CASE decision = "commit"
    BY <1>3, <2>1, <2>6, <2>7
  <2>8. CASE decision \in {"continue", "rejected"}
    <3>1. pc' # "calling"
      BY <1>6, <2>1, <2>2, <2>3, <2>4, <2>8 DEF Codex, BootstrapReads
    <3> QED
      BY <1>1, <1>4, <2>1, <2>5, <2>6, <2>8, <3>1 DEF observer
  <2> QED
    BY <2>5, <2>7, <2>8
<1>7. CASE Codex(BootstrapEnds)
  BY <1>3, <1>7 DEF Codex, BootstrapEnds, Commit
<1>8. CASE Codex(KeepRejection)
  <2>1. CASE http = "open"
    BY <1>3, <1>8, <2>1 DEF Codex, KeepRejection, Commit
  <2>2. CASE http # "open"
    BY <1>2, <1>8, <2>2 DEF Codex, KeepRejection, ObservedInv
  <2> QED
    BY <2>1, <2>2
<1>9. CASE Codex(ChooseFails \/ CancelRejected \/ CancelFails)
  BY <1>2, <1>9 DEF Codex, ChooseFails, CancelRejected, CancelFails, observer, ObservedInv
<1>10. CASE Codex(PullBuffered)
  <2>1. pc = "relaying" /\ chunks # <<>> /\ Deliver(Head(chunks)) /\ UNCHANGED provider
    BY <1>10 DEF Codex, PullBuffered, Reading
  <2>2. Head(chunks) \in Text
    BY <1>1, <2>1, HeadTailProperties
  <2> QED
    BY <1>1, <2>1, <2>2, DeliverStep
<1>11. ASSUME NEW k \in 1..MaxChunk, Codex(PullReads(k)) PROVE ObservedInv'
  <2>1. /\ pc = "relaying" /\ k \in Nat /\ pos + k <= Len(body) /\ UNCHANGED provider
        /\ Deliver(SubSeq(body, pos + 1, pos + k))
    BY <1>11, EventStreamAssumption DEF Codex, PullReads, Reading
  <2>2. SubSeq(body, pos + 1, pos + k) \in Text
    BY <1>1, <2>1, CutText
  <2> QED
    BY <1>1, <2>1, <2>2, DeliverStep
<1>12. CASE Codex(PullEnds \/ PullFails \/ ClientLeaves)
  <2>1. /\ UNCHANGED <<pending, observer, delivered, provider>> /\ provider = "Codex"
        /\ pc = "relaying" /\ pc' = "done"
    BY <1>12 DEF Codex, PullEnds, PullFails, ClientLeaves, Finish, Reading
  <2> QED
    BY <2>1 DEF ObservedInv, observer
<1>13. CASE Codex(ClientAborts) \/ Claude(MessageStreamNext) \/ UNCHANGED vars
  <2>1. UNCHANGED <<events, provider>>
    BY <1>13 DEF Codex, Claude, ClientAborts, vars
  <2> QED
    BY <2>1 DEF events, ObservedInv
<1> QED
  BY <1>5, <1>6, <1>7, <1>8, <1>9, <1>10, <1>11, <1>12, <1>13, <1>14
  DEF Next, Codex, EventStreamNext, EventSteps

LEMMA ObservedHolds == Spec => []ObservedInv
<1>1. Init => ObservedInv
  <2> SUFFICES ASSUME Init PROVE ObservedInv
    OBVIOUS
  <2>1. /\ pending = <<>> /\ observing = FALSE /\ discard = FALSE /\ observed = 0 /\ pc = "start"
        /\ <<>> \in Text
    BY DEF Init, EventStreamInit, Text
  <2> QED
    BY <2>1 DEF ObservedInv
<1> QED
  BY <1>1, ObservedStep, BytesHold, PTL DEF Spec

\* The quota errors of the delivered bytes are reported, however they were cut
\* into chunks: none that is not there, no fragment of an oversized event, and
\* each that is small and does not follow an oversized one.
THEOREM QuotaObserved == Spec => []ObservedExactly
<1>1. ObservedInv /\ BytesInv => ObservedExactly
  <2> SUFFICES ASSUME ObservedInv, BytesInv, observing PROVE ObservedExactly
    BY DEF ObservedExactly
  <2>1. PICK F \in Seq(Text) : F = Split(delivered).frames
    <3>1. Split(delivered) \in Parts
      BY SplitTyped, DeliveredText
    <3> QED
      BY <3>1, PartsAre
  <2>2. Bounds(F, observed)
    BY <2>1 DEF ObservedInv, Observing
  <2> DEFINE small == {i \in DOMAIN F : Len(F[i]) + 2 <= Limit}
             allowed == {i \in DOMAIN F : Len(F[i]) <= Limit + 1}
  <2>3. CountQuota(F, allowed) = Cardinality(May(F))
    <3>1. {i \in allowed : IsQuota(F[i])} = May(F)
      BY DEF May, Allowed
    <3> QED
      BY <3>1 DEF CountQuota
  <2>4. CountQuota(F, {i \in small : i > 1 => i - 1 \in small}) = Cardinality(Must(F))
    <3>1. {i \in {j \in small : j > 1 => j - 1 \in small} : IsQuota(F[i])} = Must(F)
      BY DEF Must, Small
    <3> QED
      BY <3>1 DEF CountQuota
  <2> QED
    BY <2>1, <2>2, <2>3, <2>4 DEF Bounds, ObservedExactly
<1> QED
  BY <1>1, ObservedHolds, BytesHold, PTL

-----------------------------------------------------------------------------
(***************************************************************************)
(* Every variable keeps its type.                                          *)
(***************************************************************************)

\* An attempt that was called has a number; the counters are those of Counting.
CountersTyped ==
    /\ \A outcome \in Outcomes : row[outcome] \in Nat
    /\ attempt \in 0..MaxAttempts
    /\ http \in {"idle", "calling", "open", "answered", "ended", "failed", "cancelled"}
    /\ signal \in {"live", "aborted"}
    /\ http # "idle" => attempt # 0

LEMMA DoneTyped ==
    ASSUME Counting, CountersTyped, NEW outcome \in Outcomes, Done(attempt, outcome)
    PROVE  \A other \in Outcomes : row'[other] \in Nat
<1>1. CASE attempt \in running
  <2>1. row' = [row EXCEPT !.active = @ - 1, ![outcome] = @ + 1]
    BY <1>1 DEF Done, Counted
  <2>2. \A other \in Outcomes : row'[other] = IF other = outcome THEN row[other] + 1 ELSE row[other]
    BY <2>1 DEF Counting, Fields, Outcomes
  <2> QED
    BY <2>2 DEF CountersTyped
<1>2. CASE attempt \notin running
  BY <1>2 DEF Done, CountersTyped
<1> QED
  BY <1>1, <1>2

LEMMA CountersStep == CountersTyped /\ Counting /\ StatsStep => CountersTyped'
<1> SUFFICES ASSUME CountersTyped, Counting, StatsStep PROVE CountersTyped'
  OBVIOUS
<1>1. CASE HttpStart
  <2>1. attempt' = attempt + 1 /\ attempt' \in 0..MaxAttempts /\ attempt' # 0
    BY <1>1, MaxAttemptsAssumption DEF HttpStart, CountersTyped
  <2>2. \A outcome \in Outcomes : row'[outcome] \in Nat
    <3>1. /\ row \in [Fields -> Int]
          /\ {"total", "active", "completed", "errors", "cancelled"} \subseteq Fields
          /\ row.completed \in Nat /\ row.errors \in Nat /\ row.cancelled \in Nat
      BY DEF Counting, CountersTyped, Fields, Outcomes
    <3>2. row'.cancelled \in {row.cancelled, row.cancelled + 1}
      BY <1>1, <3>1 DEF HttpStart
    <3>3. row'.completed = row.completed /\ row'.errors = row.errors
      BY <1>1, <3>1 DEF HttpStart
    <3> QED
      BY <3>1, <3>2, <3>3 DEF Outcomes
  <2> QED
    BY <1>1, <2>1, <2>2 DEF HttpStart, CountersTyped
<1>2. CASE HttpOpens
  BY <1>2 DEF HttpOpens, CountersTyped
<1>3. ASSUME NEW outcome \in Outcomes, Done(attempt, outcome), UNCHANGED attempt,
             http' \in {"answered", "ended", "failed", "cancelled", http}, signal' \in {signal, "aborted"},
             attempt # 0
      PROVE  CountersTyped'
  <2>1. \A other \in Outcomes : row'[other] \in Nat
    BY <1>3, DoneTyped
  <2> QED
    BY <1>3, <2>1 DEF CountersTyped
<1>4. CASE HttpFails
  <2>1. Failure \in Outcomes
    BY DEF Failure, Outcomes
  <2> QED
    BY <1>3, <1>4, <2>1 DEF HttpFails, CountersTyped
<1>5. CASE HttpEnds
  BY <1>3, <1>5 DEF HttpEnds, CountersTyped, Outcomes
<1>6. CASE HttpAnswers("errors") \/ HttpAnswers("completed")
  BY <1>3, <1>6 DEF HttpAnswers, CountersTyped, Outcomes
<1>7. CASE HttpCancel
  <2>1. CASE http = "open"
    BY <1>3, <1>7, <2>1 DEF HttpCancel, CountersTyped, Outcomes
  <2>2. CASE http # "open"
    BY <1>7, <2>2 DEF HttpCancel, CountersTyped
  <2> QED
    BY <2>1, <2>2
<1>8. CASE Abort
  BY <1>3, <1>8 DEF Abort, OnAbort, CountersTyped, Outcomes
<1>9. CASE UNCHANGED stats
  BY <1>9 DEF stats, CountersTyped
<1> QED
  BY <1>1, <1>2, <1>4, <1>5, <1>6, <1>7, <1>8, <1>9 DEF StatsStep

LEMMA CountersHold == Spec => []CountersTyped
<1>1. Init => CountersTyped
  BY MaxAttemptsAssumption DEF Init, StatsInit, CountersTyped, Outcomes
<1>2. CountersTyped /\ Counting /\ [Next]_vars => CountersTyped'
  BY CountersStep, StepCounts
<1> QED
  BY <1>1, <1>2, CountingHolds, PTL DEF Spec

\* A turn limits the account of an attempt that it has called.
TurnTyped ==
    /\ pc \in {"start", "calling", "bootstrap", "rejected", "relaying", "done"}
    /\ retry \in BOOLEAN
    /\ body \in Bodies \cup {<<>>}
    /\ client \in {"waiting", "ended", "failed", "left"}
    /\ limits \subseteq Attempts
    /\ discard \in BOOLEAN

LEMMA TurnStep == TurnTyped /\ CountersTyped /\ [Next]_vars => TurnTyped'
<1> SUFFICES ASSUME TurnTyped, CountersTyped, [Next]_vars PROVE TurnTyped'
  OBVIOUS
<1>1. CASE UNCHANGED events
  BY <1>1 DEF events, TurnTyped
<1>2. http # "idle" => attempt \in Attempts
  BY DEF CountersTyped, Attempts
<1>3. CASE Start \/ CallFails \/ AnswerEmpty \/ AnswerError \/ AnswerStream
  BY <1>3 DEF TurnTyped, Start, Execute, CallFails, AnswerEmpty, AnswerError, AnswerStream, fixed,
              observer
<1>4. CASE Answer429
  BY <1>2, <1>4 DEF TurnTyped, Answer429, HttpAnswers, fixed, observer
<1>5. ASSUME NEW k \in 1..MaxChunk, BootstrapReads(k) PROVE TurnTyped'
  <2>1. /\ http = "open" /\ pc = "bootstrap" /\ UNCHANGED <<retry, body, client, discard>>
        /\ limits' \in {limits, limits \cup {attempt}}
    BY <1>5 DEF BootstrapReads, fixed
  <2>2. pc' \in {"bootstrap", "relaying", "rejected"}
    <3>1. PICK chunk, parts, decision :
            /\ chunk = SubSeq(body, pos + 1, pos + k) /\ parts = Split(pending \o chunk)
            /\ decision = Decision(parts.frames, pos + k)
      OBVIOUS
    <3>2. decision \in {"rejected", "commit", "continue"}
      BY <3>1 DEF Decision
    <3> QED
      BY <1>5, <2>1, <3>1, <3>2 DEF BootstrapReads, Commit
  <2> QED
    BY <1>2, <2>1, <2>2 DEF TurnTyped
<1>6. CASE BootstrapEnds \/ KeepRejection \/ ChooseFails \/ CancelRejected \/ CancelFails
  BY <1>6 DEF TurnTyped, BootstrapEnds, KeepRejection, ChooseFails, CancelRejected, CancelFails,
              Commit, fixed, observer
<1>7. ASSUME NEW chunk, Deliver(chunk) PROVE TurnTyped'
  <2>1. discard' \in BOOLEAN
    BY <1>7 DEF Deliver, Observe, Oversized, TurnTyped
  <2> QED
    BY <1>7, <2>1 DEF TurnTyped, Deliver, fixed
<1>8. ASSUME NEW k \in 1..MaxChunk, PullReads(k) PROVE TurnTyped'
  BY <1>7, <1>8 DEF PullReads
<1>9. CASE PullBuffered
  BY <1>7, <1>9 DEF PullBuffered
<1>10. CASE PullEnds \/ PullFails \/ ClientLeaves
  BY <1>10 DEF TurnTyped, PullEnds, PullFails, ClientLeaves, Finish, fixed, observer
<1> QED
  BY <1>1, <1>3, <1>4, <1>5, <1>6, <1>8, <1>9, <1>10
  DEF Next, Claude, Codex, EventStreamNext, EventSteps, ClientAborts, vars

LEMMA TurnHolds == Spec => []TurnTyped
<1>1. Init => TurnTyped
  BY DEF Init, EventStreamInit, TurnTyped
<1> QED
  BY <1>1, TurnStep, CountersHold, PTL DEF Spec

\* A message begins with its first event.
RelayTyped ==
    /\ feed \in {"none", "calling", "reading", "saving", "writing", "closing", "failing", "over"}
    /\ {complete, upstreamError, stored} \subseteq BOOLEAN
    /\ upstream \in {"none", "sending", "ended", "failed", "aborted"}
    /\ output \in {"open", "closed", "failed", "cancelled"}
    /\ next \in 1..(Len(stream) + 1)
    /\ feed \in {"none", "calling"} => next = 1

LEMMA RelayStep == RelayTyped /\ MessageTyped /\ [Next]_vars => RelayTyped'
<1> SUFFICES ASSUME RelayTyped, MessageTyped, [Next]_vars PROVE RelayTyped'
  OBVIOUS
<1>1. CASE UNCHANGED messages
  BY <1>1 DEF messages, RelayTyped
<1>2. CASE MessageStart \/ MessageRefused \/ MessageRejected
  BY <1>2 DEF RelayTyped, MessageStart, MessageRefused, MessageRejected, flags
<1>3. CASE MessageOpens
  <2>1. Len(stream') \in Nat
    BY <1>3, StreamsAssumption DEF MessageOpens
  <2> QED
    BY <1>3, <2>1 DEF RelayTyped, MessageOpens, flags
<1>4. CASE ReadEvent \/ EventRejected \/ Accept \/ AcceptFails
  BY <1>4 DEF RelayTyped, ReadEvent, AfterRead, EventRejected, Accept, AcceptFails, Release, flags
<1>5. CASE Write
  <2>1. stream \in Seq(Kinds) /\ next \in DOMAIN stream
    BY <1>5, StreamsAssumption DEF Write, MessageTyped
  <2>2. next' \in 1..(Len(stream') + 1)
    BY <1>5, <2>1 DEF Write
  <2> QED
    BY <1>5, <2>2 DEF RelayTyped, Write, Release, flags
<1>6. CASE WriteFails \/ ReadEnd \/ ReadFails \/ Settle
  BY <1>6 DEF RelayTyped, WriteFails, ReadEnd, ReadFails, Settle, Release, flags
<1>7. CASE MessageCancelled \/ MessageAborts
  BY <1>7 DEF RelayTyped, MessageCancelled, MessageAborts, OnCancel, flags
<1> QED
  BY <1>1, <1>2, <1>3, <1>4, <1>5, <1>6, <1>7
  DEF Next, Claude, Codex, MessageStreamNext, FeedSteps, MessageEnds, vars

LEMMA RelayHolds == Spec => []RelayTyped
<1>1. Init => RelayTyped
  <2> SUFFICES ASSUME Init PROVE RelayTyped
    OBVIOUS
  <2>1. next \in 1..(Len(stream) + 1) /\ next = 1
    BY DEF Init, MessageStreamInit
  <2> QED
    BY <2>1 DEF Init, MessageStreamInit, RelayTyped
<1>2. RelayTyped /\ MessageInv /\ [Next]_vars => RelayTyped'
  BY RelayStep DEF MessageInv
<1> QED
  BY <1>1, <1>2, MessageInvHolds, PTL DEF Spec

\* Every variable has the type that its declaration names, for any number of
\* attempts, any bodies and any messages: a turn does not try more accounts than
\* there are, none of its outcomes falls below zero, and it limits only accounts
\* of its own attempts.
THEOREM ResponsesTyped == Spec => []TypeOK
<1>1. Counting /\ CountersTyped => StatsTypeOK
  <2> SUFFICES ASSUME Counting, CountersTyped PROVE StatsTypeOK
    OBVIOUS
  <2>1. Cardinality(running) \in Nat
    BY RunningFinite, FS_CardinalityType
  <2>2. \A field \in Fields : row[field] \in Nat
    BY <2>1 DEF Counting, CountedOnce, CountersTyped, Fields, Outcomes
  <2>3. row \in [Fields -> Nat]
    BY <2>2 DEF Counting
  <2>4. running \subseteq Attempts
    <3>1. attempt \in 0..MaxAttempts /\ running \subseteq 1..attempt
      BY DEF Counting, CountersTyped
    <3> QED
      BY <3>1, MaxAttemptsAssumption DEF Attempts
  <2> QED
    BY <2>3, <2>4 DEF StatsTypeOK, CountersTyped, Fields
<1>2. BytesInv /\ ObservedInv /\ TurnTyped => EventStreamTypeOK
  <2> SUFFICES ASSUME BytesInv, ObservedInv, TurnTyped PROVE EventStreamTypeOK
    OBVIOUS
  <2>1. chunks \in Seq(Text) /\ pos \in 0..Len(body) /\ delivered \in Text
    BY DeliveredText DEF BytesInv, BytesTyped
  <2>2. pending \in Text /\ observed \in Nat /\ observing \in BOOLEAN
    BY DEF ObservedInv, Observing
  <2> QED
    BY <2>1, <2>2 DEF EventStreamTypeOK, TurnTyped
<1>3. MessageInv /\ RelayTyped => MessageStreamTypeOK
  BY DEF MessageInv, MessageTyped, RelayTyped, MessageStreamTypeOK
<1> QED
  BY <1>1, <1>2, <1>3, CountingHolds, CountersHold, BytesHold, ObservedHolds, TurnHolds,
     MessageInvHolds, RelayHolds, PTL DEF TypeOK
=============================================================================
