----------------------------- MODULE MCResponses -----------------------------
(* Instances of Responses for TLC. *)
EXTENDS Responses

\* An event of five symbols is oversized (Limit = 3), and its last line alone is
\* a quota error; one of two symbols is at the limit with a line end on each side.
Oversize == <<"o", "n", "o", "n", "q">>
Frames == {<<"q">>, <<"o">>, <<"c">>, <<"o", "o">>, Oversize}
Ended(frame) == frame \o <<"n", "n">>
TwoFrames == {Ended(f) \o Ended(g) : f, g \in Frames}

\* One to three events, the third a quota error, and a third line end.
EventBodies ==
    {Ended(f) : f \in Frames} \cup TwoFrames \cup {b \o Ended(<<"q">>) : b \in TwoFrames}
        \cup {Ended(Oversize) \o <<"n">> \o Ended(<<"c", "n", "q">>)}

\* Complete and broken-off messages, a heartbeat anywhere, an error event.
MessageBodies ==
    LET Pings == {<<>>, <<"ping">>}
    IN  {<<"message">> \o p \o <<"stop">> \o q : p, q \in Pings}
        \cup {p \o <<"message">> \o q : p, q \in Pings}
        \cup {p \o <<"error">> \o q : p \in {<<>>, <<"message">>}, q \in Pings}
        \cup {<<"stop">>}
=============================================================================
