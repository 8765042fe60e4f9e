------------------------------- MODULE Responses -------------------------------
(***************************************************************************)
(* One counted turn of a provider, from its first attempt to the end of    *)
(* its response: a Codex or ChatGPT turn (EventStream) or a streaming      *)
(* Claude SDK turn (MessageStream), inside Stats.                          *)
(***************************************************************************)
EXTENDS EventStream, MessageStream

VARIABLE provider

vars == <<stats, events, messages, provider>>

TypeOK == StatsTypeOK /\ EventStreamTypeOK /\ MessageStreamTypeOK

Init ==
    /\ StatsInit /\ EventStreamInit /\ MessageStreamInit
    /\ provider \in {"Claude", "Codex"}

Claude(step) == provider = "Claude" /\ step /\ UNCHANGED <<events, provider>>
Codex(step) == provider = "Codex" /\ step /\ UNCHANGED <<messages, provider>>

Next == Claude(MessageStreamNext) \/ Codex(EventStreamNext)

\* Calls, stores and the upstream's failures end (they have timeouts), and
\* AbortSignal.timeout() fires.
Spec ==
    /\ Init /\ [][Next]_vars
    /\ WF_vars(Claude(FeedSteps)) /\ WF_vars(Codex(EventSteps))
    /\ WF_vars(Claude(MessageAborts)) /\ WF_vars(Codex(ClientAborts))
=============================================================================
