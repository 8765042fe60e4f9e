-------------------------- MODULE AccountSocket_proofs --------------------------
(***************************************************************************)
(* One client WebSocket, for any numbers of accounts, frames, streams and  *)
(* upstream connections: no connection is leaked, frames keep their order, *)
(* no account gets a frame twice, and a rejection that is kept from the    *)
(* client is not forgotten.                                                *)
(***************************************************************************)
EXTENDS AccountSocket, FiniteSetTheorems, SequenceTheorems, TLAPS

Conn == [account : Accounts, open : BOOLEAN]

-----------------------------------------------------------------------------
(* Types, and the connections *)

ReplaysCreate ==
    \A i \in 1..Len(queue) : queue[i].kind = "replay" => queue[i].frame \in Creates

\* A job that awaits a handshake has its account, and room for a connection.
Connecting ==
    /\ phase # "ready" => queue # <<>>
    /\ phase = "connecting" => choice \in Accounts /\ cur < MaxConns

TInv ==
    /\ TypeOK
    /\ ReplaysCreate
    /\ Connecting
    /\ OneUpstream

LEMMA ConnsTyped ==
  ASSUME TypeOK
  PROVE  /\ conns \in Seq(Conn) /\ Len(conns) \in Nat /\ Len(conns) >= 1
         /\ account \in Accounts
<1>1. conns \in Seq(Conn) /\ Len(conns) \in 1..MaxConns /\ MaxConns \in Nat
  BY CountsAreNat DEF TypeOK, Conn, cur
<1>2. conns[Len(conns)] \in Conn
  BY <1>1, ElementOfSeq
<1>3. QED
  BY <1>1, <1>2 DEF Conn, account, cur

LEMMA HeadTyped ==
  ASSUME TypeOK, queue # <<>>
  PROVE  /\ Head(queue) = queue[1] /\ queue[1] \in Jobs
         /\ Len(queue) \in Nat /\ Len(queue) >= 1
         /\ Tail(queue) \in Seq(Jobs) /\ Len(Tail(queue)) = Len(queue) - 1
         /\ \A i \in 1..(Len(queue) - 1) : Tail(queue)[i] = queue[i+1]
<1>1. queue \in Seq(Jobs)
  BY DEF TypeOK
<1>2. Len(queue) \in Nat /\ Len(queue) >= 1
  BY <1>1, EmptySeq, LenProperties
<1>3. queue[1] \in Jobs
  BY <1>1, <1>2, ElementOfSeq
<1>4. QED
  BY <1>1, <1>2, <1>3, HeadTailProperties

LEMMA AppendTyped ==
  ASSUME TypeOK, NEW job \in Jobs
  PROVE  /\ Append(queue, job) \in Seq(Jobs) /\ Append(queue, job) # <<>>
         /\ Len(queue) \in Nat /\ Len(Append(queue, job)) = Len(queue) + 1
         /\ \A i \in 1..Len(queue) : Append(queue, job)[i] = queue[i]
         /\ Append(queue, job)[Len(queue) + 1] = job
BY AppendProperties, LenProperties DEF TypeOK

\* The current connection is closed.
LEMMA ClosedConns ==
  ASSUME TypeOK, OneUpstream, conns' = [conns EXCEPT ![cur].open = FALSE]
  PROVE  /\ conns' \in Seq(Conn) /\ Len(conns') = Len(conns)
         /\ \A k \in 1..Len(conns) : ~conns'[k].open /\ conns'[k].account = conns[k].account
<1> DEFINE old == [conns EXCEPT ![cur].open = FALSE]
           closed == [conns[cur] EXCEPT !.open = FALSE]
<1>1. conns \in Seq(Conn) /\ Len(conns) \in Nat /\ cur \in 1..Len(conns) /\ cur = Len(conns)
  BY ConnsTyped DEF cur
<1>2. conns[cur] \in Conn
  BY <1>1, ElementOfSeq
<1>3. closed \in Conn /\ ~closed.open /\ closed.account = conns[cur].account
  BY <1>2 DEF Conn
<1>4. old = [conns EXCEPT ![cur] = closed] /\ conns' = old
  OBVIOUS
<1> HIDE DEF closed, old
<1>5. /\ old \in Seq(Conn) /\ Len(old) = Len(conns)
      /\ \A k \in 1..Len(conns) : old[k] = IF k = cur THEN closed ELSE conns[k]
  BY <1>1, <1>3, <1>4, ExceptSeq
<1>6. \A k \in 1..Len(conns) : conns[k] \in Conn /\ (k # cur => ~conns[k].open)
  BY <1>1, ElementOfSeq DEF OneUpstream, Conn
<1>7. QED
  BY <1>3, <1>4, <1>5, <1>6

\* A new connection takes the place of the current one.
LEMMA SwappedConns ==
  ASSUME TypeOK, OneUpstream, choice \in Accounts, cur < MaxConns, Swap
  PROVE  /\ conns' \in Seq(Conn) /\ Len(conns') = Len(conns) + 1
         /\ \A k \in 1..Len(conns) : ~conns'[k].open /\ conns'[k].account = conns[k].account
         /\ conns'[Len(conns) + 1] = [account |-> choice, open |-> TRUE]
<1> DEFINE old == [conns EXCEPT ![cur].open = FALSE]
           new == [account |-> choice, open |-> TRUE]
           closed == [conns[cur] EXCEPT !.open = FALSE]
<1>1. conns \in Seq(Conn) /\ Len(conns) \in Nat /\ cur \in 1..Len(conns) /\ cur = Len(conns)
  BY ConnsTyped DEF cur
<1>2. conns[cur] \in Conn
  BY <1>1, ElementOfSeq
<1>3. closed \in Conn /\ ~closed.open /\ closed.account = conns[cur].account
  BY <1>2 DEF Conn
<1>4. old = [conns EXCEPT ![cur] = closed]
  OBVIOUS
<1>5. new \in Conn
  BY DEF Conn
<1>6. conns' = Append(old, new)
  BY DEF Swap
<1> HIDE DEF closed, old, new
<1>7. /\ old \in Seq(Conn) /\ Len(old) = Len(conns)
      /\ \A k \in 1..Len(conns) : old[k] = IF k = cur THEN closed ELSE conns[k]
  BY <1>1, <1>3, <1>4, ExceptSeq
<1>8. /\ conns' \in Seq(Conn) /\ Len(conns') = Len(conns) + 1
      /\ \A k \in 1..Len(conns) : conns'[k] = old[k]
      /\ conns'[Len(conns) + 1] = new
  BY <1>1, <1>5, <1>6, <1>7, AppendProperties
<1>9. \A k \in 1..Len(conns) : conns[k] \in Conn /\ (k # cur => ~conns[k].open)
  BY <1>1, ElementOfSeq DEF OneUpstream, Conn
<1>10. QED
  BY <1>3, <1>7, <1>8, <1>9 DEF new

\* The connections stay as they are, the current one is closed, or it is
\* replaced by the one that a job of a live socket has waited for.
ConnsStep ==
    \/ UNCHANGED conns /\ (status' = "ended" => status = "ended")
    \/ conns' = [conns EXCEPT ![cur].open = FALSE]
    \/ Swap /\ phase = "connecting" /\ status # "ended" /\ status' # "ended"

LEMMA ConnsKept ==
  ASSUME TInv, ConnsStep
  PROVE  /\ conns' \in Seq(Conn) /\ cur' \in 1..MaxConns
         /\ OneUpstream'
         /\ cur' = cur \/ (phase = "connecting" /\ Swap)
<1>1. conns \in Seq(Conn) /\ Len(conns) \in 1..MaxConns /\ MaxConns \in Nat
  BY ConnsTyped, CountsAreNat DEF TInv, TypeOK, cur
<1>2. CASE UNCHANGED conns /\ (status' = "ended" => status = "ended")
  BY <1>1, <1>2 DEF TInv, OneUpstream, cur
<1>3. CASE conns' = [conns EXCEPT ![cur].open = FALSE]
  BY <1>1, <1>3, ClosedConns DEF TInv, OneUpstream, cur
<1>4. CASE Swap /\ phase = "connecting" /\ status # "ended" /\ status' # "ended"
  <2>1. /\ conns' \in Seq(Conn) /\ Len(conns') = Len(conns) + 1
        /\ \A k \in 1..Len(conns) : ~conns'[k].open
    BY <1>4, SwappedConns DEF TInv, Connecting
  <2>2. Len(conns) < MaxConns
    BY <1>4 DEF TInv, Connecting, cur
  <2> QED
    BY <1>1, <1>4, <2>1, <2>2 DEF OneUpstream, cur
<1>5. QED
  BY <1>2, <1>3, <1>4 DEF ConnsStep

\* The chain stays as it is, a job joins it, its first job finishes, or that
\* job goes on.
Failing == phase' = "failing" /\ queue # <<>> /\ UNCHANGED <<queue, choice>> /\ cur' = cur

ChainStep ==
    \/ UNCHANGED chain /\ cur' = cur
    \/ \E job \in Jobs :
        /\ job.kind = "replay" => job.frame \in Creates
        /\ queue' = Append(queue, job)
        /\ UNCHANGED <<phase, choice>> /\ cur' = cur
    \/ queue # <<>> /\ Pop
    \/ BeginReplace
    \/ Failing
    \/ \E a \in Accounts : Chosen(a)

LEMMA ChainKept ==
  ASSUME TInv, ChainStep, NoAccount \notin Accounts
  PROVE  /\ queue' \in Seq(Jobs)
         /\ phase' \in {"ready", "choosing", "connecting", "failing"}
         /\ choice' \in Accounts \cup {NoAccount}
         /\ ReplaysCreate' /\ Connecting'
<1>1. /\ queue \in Seq(Jobs) /\ phase \in {"ready", "choosing", "connecting", "failing"}
      /\ choice \in Accounts \cup {NoAccount}
      /\ ReplaysCreate /\ Connecting
  BY DEF TInv, TypeOK
<1>2. CASE UNCHANGED chain /\ cur' = cur
  BY <1>1, <1>2 DEF chain, ReplaysCreate, Connecting
<1>3. ASSUME NEW job \in Jobs, job.kind = "replay" => job.frame \in Creates,
             queue' = Append(queue, job), UNCHANGED <<phase, choice>>, cur' = cur
      PROVE  /\ queue' \in Seq(Jobs) /\ UNCHANGED <<phase, choice>>
             /\ ReplaysCreate' /\ Connecting'
  <2>1. /\ queue' \in Seq(Jobs) /\ queue' # <<>>
        /\ Len(queue) \in Nat /\ Len(queue') = Len(queue) + 1
        /\ \A i \in 1..Len(queue) : queue'[i] = queue[i]
        /\ queue'[Len(queue) + 1] = job
    BY <1>3, AppendTyped DEF TInv
  <2> QED
    BY <1>1, <1>3, <2>1 DEF ReplaysCreate, Connecting
<1>4. CASE queue # <<>> /\ Pop
  <2>1. /\ queue' \in Seq(Jobs) /\ Len(queue') = Len(queue) - 1 /\ Len(queue) \in Nat
        /\ \A i \in 1..(Len(queue) - 1) : queue'[i] = queue[i+1]
    BY <1>4, HeadTyped DEF TInv, Pop
  <2> QED
    BY <1>1, <1>4, <2>1 DEF Pop, ReplaysCreate, Connecting
<1>5. CASE BeginReplace
  BY <1>1, <1>5 DEF BeginReplace, ReplaysCreate, Connecting
<1>6. ASSUME NEW a \in Accounts, Chosen(a)
      PROVE  /\ queue' = queue /\ phase' = "connecting" /\ choice' \in Accounts
             /\ ReplaysCreate' /\ Connecting'
  BY <1>1, <1>6 DEF Chosen, ReplaysCreate, Connecting, links, cur
<1>7. CASE Failing
  BY <1>1, <1>7 DEF Failing, ReplaysCreate, Connecting
<1>8. QED
  BY <1>1, <1>2, <1>3, <1>4, <1>5, <1>6, <1>7 DEF ChainStep, chain, Pop, BeginReplace, Failing

\* Every step is of these two kinds.
LEMMA StepKinds ==
  ASSUME TInv, [Next]_vars
  PROVE  ConnsStep /\ ChainStep
<1>1. CASE UNCHANGED vars
  BY <1>1 DEF vars, ConnsStep, ChainStep, chain, cur
<1>2. CASE ClientSend
  <2>1. Send(sent') \in Jobs /\ Send(sent').kind = "send"
    BY <1>2, CountsAreNat DEF ClientSend, Send, Jobs, TInv, TypeOK, Frames
  <2> QED
    BY <1>2, <2>1 DEF ClientSend, Queued, ConnsStep, ChainStep, links, cur
<1>3. CASE Close
  <2>1. cur' = cur
    BY <1>3, ClosedConns DEF TInv, Close, cur
  <2> QED
    BY <1>3, <2>1 DEF Close, ConnsStep, ChainStep, chain
<1>4. CASE Forward
  BY <1>4 DEF Forward, IsHead, Transmit, Refuse, ConnsStep, ChainStep, links, cur
<1>5. CASE BeginReplace
  BY <1>5 DEF BeginReplace, ConnsStep, ChainStep, links
<1>6. CASE Drop
  BY <1>6 DEF Drop, ConnsStep, ChainStep, links
<1>7. ASSUME NEW a \in Accounts, Chosen(a)
      PROVE  ConnsStep /\ ChainStep
  BY <1>7 DEF Chosen, ConnsStep, ChainStep, links
<1>8. CASE ConnectedLate
  <2>1. queue # <<>>
    BY <1>8 DEF ConnectedLate, TInv, Connecting
  <2> QED
    BY <1>8, <2>1 DEF ConnectedLate, ConnsStep, ChainStep, links
<1>9. CASE ConnectedSend
  BY <1>9 DEF ConnectedSend, IsHead, Transmit, Refuse, ConnsStep, ChainStep
<1>10. CASE ConnectedReplay
  BY <1>10 DEF ConnectedReplay, IsHead, Transmit, Refuse, ConnsStep, ChainStep
<1>11. CASE SendFails
  <2>1. queue # <<>>
    BY <1>11 DEF SendFails, TInv, Connecting
  <2> QED
    BY <1>11, <2>1 DEF SendFails, ConnsStep, ChainStep
<1>12. CASE ReplayFails
  BY <1>12 DEF ReplayFails, ConnsStep, ChainStep, links
<1>13. ASSUME NEW f \in Frames,
              Output(f) \/ OutputBinary(f) \/ Finish(f) \/ FinishIncomplete(f) \/ RejectDelivered(f)
       PROVE  ConnsStep /\ ChainStep
  BY <1>13 DEF Output, OutputBinary, Finish, FinishIncomplete, RejectDelivered,
               ConnsStep, ChainStep, chain, links, cur
<1>14. ASSUME NEW f \in Frames, RejectHidden(f)
       PROVE  ConnsStep /\ ChainStep
  <2>1. PICK q \in Request(f) : Replayable(q) /\ queue' = Queued(Replay(q, f))
    BY <1>14 DEF RejectHidden
  <2>2. q \in Creates
    BY <2>1, FullAreCreates DEF Replayable
  <2>3. Replay(q, f) \in Jobs /\ Replay(q, f).frame = q
    BY <2>2, FullAreCreates DEF Replay, Jobs
  <2> QED
    BY <1>14, <2>1, <2>2, <2>3 DEF RejectHidden, Queued, ConnsStep, ChainStep, cur
<1>15. ASSUME NEW k \in 1..cur, LateReject(k)
       PROVE  ConnsStep /\ ChainStep
  BY <1>15 DEF LateReject, ConnsStep, ChainStep, chain, cur
<1>16. CASE UpstreamClosed \/ Overflow
  <2>1. cur' = cur
    BY <1>16, ClosedConns DEF TInv, UpstreamClosed, Overflow, cur
  <2> QED
    BY <1>16, <2>1 DEF UpstreamClosed, Overflow, ConnsStep, ChainStep, chain
<1>17. ASSUME NEW a \in Accounts, CooldownEnds(a)
       PROVE  ConnsStep /\ ChainStep
  BY <1>17 DEF CooldownEnds, ConnsStep, ChainStep, chain, links, cur
<1>18. CASE SendThrows
  BY <1>18 DEF SendThrows, ConnsStep, ChainStep, Failing, links, cur
<1>19. CASE IdleReject
  <2>1. cur' = cur /\ ConnsStep
    BY <1>19 DEF IdleReject, ConnsStep, cur
  <2>2. CASE UNCHANGED queue
    BY <1>19, <2>1, <2>2 DEF IdleReject, ChainStep, chain
  <2>3. ASSUME NEW q \in Only, Replayable(q), queue' = Queued(Replay(q, q))
        PROVE  ChainStep
    <3>1. q \in Creates
      BY <2>3, FullAreCreates DEF Replayable
    <3>2. Replay(q, q) \in Jobs /\ Replay(q, q).frame = q
      BY <3>1, FullAreCreates DEF Replay, Jobs
    <3> QED
      BY <1>19, <2>1, <2>3, <3>1, <3>2 DEF IdleReject, Queued, ChainStep
  <2> QED
    BY <1>19, <2>1, <2>2, <2>3 DEF IdleReject
<1>20. QED
  BY <1>1, <1>2, <1>3, <1>4, <1>5, <1>6, <1>7, <1>8, <1>9, <1>10, <1>11, <1>12, <1>13,
     <1>14, <1>15, <1>16, <1>17, <1>18, <1>19 DEF Next, Job, Event

\* The request table, the attempts and what is in progress upstream.
TablesTyped ==
    /\ requests \subseteq Creates /\ started \subseteq Creates /\ live \subseteq Creates
    /\ attempted \in [Frames -> SUBSET Accounts]
    /\ cooling \subseteq Accounts

ClientTyped ==
    /\ status \in {"open", "closing", "ended"}
    /\ quotaEnded \in BOOLEAN
    /\ sent \in 0..NumFrames
    /\ wire \in Seq(Frames \X Accounts)
    /\ seen \in [Frames -> {"nothing", "output", "rejected", "finished"}]
    /\ hidden \subseteq Frames

LEMMA RememberTyped ==
  ASSUME TypeOK, NEW f \in Frames, NEW a \in Accounts, Remember(f, a)
  PROVE  /\ requests' \subseteq Creates /\ started' \subseteq Creates
         /\ attempted' \in [Frames -> SUBSET Accounts]
<1>1. CASE f \in Creates
  BY <1>1 DEF Remember, TypeOK
<1>2. CASE f \notin Creates
  BY <1>2 DEF Remember, TypeOK, pendings
<1>3. QED
  BY <1>1, <1>2

LEMMA TransmitTyped ==
  ASSUME TypeOK, NEW f \in Frames, NEW a \in Accounts, Transmit(f, a)
  PROVE  /\ wire' \in Seq(Frames \X Accounts) /\ seen' = seen /\ status' = status
         /\ Len(wire) \in Nat /\ Len(wire') = Len(wire) + 1
         /\ \A i \in 1..Len(wire) : wire'[i] = wire[i]
         /\ wire'[Len(wire) + 1] = <<f, a>>
<1>1. wire \in Seq(Frames \X Accounts) /\ <<f, a>> \in Frames \X Accounts
  BY DEF TypeOK
<1>2. QED
  BY <1>1, AppendProperties, LenProperties DEF Transmit

LEMMA TablesKept ==
  ASSUME TInv, [Next]_vars
  PROVE  TablesTyped' /\ ClientTyped'
<1>1. TypeOK /\ TablesTyped /\ ClientTyped /\ account \in Accounts
  BY ConnsTyped DEF TInv, TypeOK, TablesTyped, ClientTyped
<1>2. CASE UNCHANGED vars
  BY <1>1, <1>2 DEF vars, TablesTyped, ClientTyped
<1>3. CASE ClientSend
  BY <1>1, <1>3, CountsAreNat DEF ClientSend, links, pendings, history, TablesTyped, ClientTyped
<1>4. CASE Close
  BY <1>1, <1>4 DEF Close, pendings, history, TablesTyped, ClientTyped
<1>5. CASE Forward
  <2>1. Head1 \in Jobs /\ Head1.frame \in Frames
    BY <1>1, <1>5, HeadTyped DEF Forward, IsHead, Head1, Jobs
  <2>2. /\ requests' \subseteq Creates /\ started' \subseteq Creates
        /\ attempted' \in [Frames -> SUBSET Accounts]
    BY <1>1, <1>5, <2>1, RememberTyped DEF Forward
  <2>3. wire' \in Seq(Frames \X Accounts) /\ seen' = seen /\ status' \in {"closing", status}
    BY <1>1, <1>5, <2>1, TransmitTyped DEF Forward, Refuse, ClientTyped
  <2> QED
    BY <1>1, <1>5, <2>2, <2>3 DEF Forward, links, TablesTyped, ClientTyped
<1>6. CASE BeginReplace
  BY <1>1, <1>6 DEF BeginReplace, links, pendings, history, TablesTyped, ClientTyped
<1>7. CASE Drop
  BY <1>1, <1>7 DEF Drop, links, pendings, history, TablesTyped, ClientTyped
<1>8. ASSUME NEW a \in Accounts, Chosen(a)
      PROVE  TablesTyped' /\ ClientTyped'
  BY <1>1, <1>8 DEF Chosen, links, pendings, history, TablesTyped, ClientTyped
<1>9. CASE ConnectedLate
  BY <1>1, <1>9 DEF ConnectedLate, links, pendings, history, TablesTyped, ClientTyped
<1>10. CASE ConnectedSend
  <2>1. Head1.frame \in Frames /\ choice \in Accounts
    BY <1>1, <1>10, HeadTyped DEF ConnectedSend, IsHead, Head1, Jobs, TInv, Connecting
  <2>2. /\ requests' \subseteq Creates /\ started' \subseteq Creates
        /\ attempted' \in [Frames -> SUBSET Accounts]
    BY <1>1, <1>10, <2>1, RememberTyped DEF ConnectedSend
  <2>3. wire' \in Seq(Frames \X Accounts) /\ seen' = seen /\ status' \in {"closing", status}
    BY <1>1, <1>10, <2>1, TransmitTyped DEF ConnectedSend, Refuse, ClientTyped
  <2> QED
    BY <1>1, <1>10, <2>2, <2>3 DEF ConnectedSend, Swap, TablesTyped, ClientTyped
<1>11. CASE ConnectedReplay
  <2>1. Head1.frame \in Creates /\ Head1.frame \in Frames /\ choice \in Accounts
    BY <1>1, <1>11, HeadTyped, FullAreCreates
       DEF ConnectedReplay, IsHead, Head1, Jobs, TInv, Connecting, ReplaysCreate
  <2>2. wire' \in Seq(Frames \X Accounts) /\ seen' = seen /\ status' \in {"closing", status}
    BY <1>1, <1>11, <2>1, TransmitTyped DEF ConnectedReplay, Refuse, ClientTyped
  <2> QED
    BY <1>1, <1>11, <2>1, <2>2 DEF ConnectedReplay, Swap, TablesTyped, ClientTyped
<1>12. CASE SendFails
  BY <1>1, <1>12 DEF SendFails, pendings, history, TablesTyped, ClientTyped
<1>13. CASE ReplayFails
  <2>1. Head1.rejected \in Frames
    BY <1>1, <1>13, HeadTyped DEF ReplayFails, Head1, Jobs
  <2> QED
    BY <1>1, <1>13, <2>1 DEF ReplayFails, links, TablesTyped, ClientTyped
<1>14. ASSUME NEW f \in Frames
       PROVE  /\ Started(f) \subseteq Creates
              /\ started \cup requests \subseteq Creates
              /\ requests \ Request(f) \subseteq Creates
              /\ Request(f) \subseteq requests
  BY <1>1 DEF Started, Request, Only, SameStream, TablesTyped
<1>15. ASSUME NEW f \in Frames, Output(f) \/ OutputBinary(f) \/ Finish(f) \/ FinishIncomplete(f)
       PROVE  TablesTyped' /\ ClientTyped'
  BY <1>1, <1>14, <1>15 DEF Output, OutputBinary, Finish, FinishIncomplete, links, TablesTyped, ClientTyped
<1>16. ASSUME NEW f \in Frames, RejectHidden(f)
       PROVE  TablesTyped' /\ ClientTyped'
  BY <1>1, <1>14, <1>16 DEF RejectHidden, Limited, TablesTyped, ClientTyped
<1>17. ASSUME NEW f \in Frames, RejectDelivered(f)
       PROVE  TablesTyped' /\ ClientTyped'
  BY <1>1, <1>14, <1>17 DEF RejectDelivered, Limited, TablesTyped, ClientTyped
<1>18. ASSUME NEW k \in 1..cur, LateReject(k)
       PROVE  TablesTyped' /\ ClientTyped'
  <2>1. conns[k].account \in Accounts
    <3>1. conns[k] \in Conn
      BY <1>1, ConnsTyped, ElementOfSeq DEF cur
    <3> QED
      BY <3>1 DEF Conn
  <2> QED
    BY <1>1, <1>18, <2>1 DEF LateReject, Limited, pendings, history, TablesTyped, ClientTyped
<1>19. CASE UpstreamClosed \/ Overflow
  BY <1>1, <1>19 DEF UpstreamClosed, Overflow, pendings, history, TablesTyped, ClientTyped
<1>20. ASSUME NEW a \in Accounts, CooldownEnds(a)
       PROVE  TablesTyped' /\ ClientTyped'
  BY <1>1, <1>20 DEF CooldownEnds, links, pendings, history, TablesTyped, ClientTyped
<1>21. CASE SendThrows
  BY <1>1, <1>21 DEF SendThrows, links, pendings, history, TablesTyped, ClientTyped
<1>22. CASE IdleReject
  <2>1. Only \subseteq requests /\ requests \subseteq Frames
    BY <1>1, FullAreCreates DEF Only, TablesTyped
  <2> QED
    BY <1>1, <1>22, <2>1 DEF IdleReject, Limited, TablesTyped, ClientTyped
<1>23. QED
  BY <1>2, <1>3, <1>4, <1>5, <1>6, <1>7, <1>8, <1>9, <1>10, <1>11, <1>12, <1>13,
     <1>15, <1>16, <1>17, <1>18, <1>19, <1>20, <1>21, <1>22 DEF Next, Job, Event

LEMMA TInvStarts == Init => TInv
<1> SUFFICES ASSUME Init PROVE TInv
  OBVIOUS
<1>1. PICK a \in Accounts : conns = <<[account |-> a, open |-> TRUE]>>
  BY DEF Init
<1>2. conns \in Seq(Conn) /\ Len(conns) = 1 /\ cur = 1
  BY <1>1 DEF Conn, cur
<1>3. 1 \in 1..MaxConns
  BY CountsAreNat
<1>4. queue = <<>> /\ wire = <<>> /\ queue \in Seq(Jobs) /\ wire \in Seq(Frames \X Accounts) /\ Len(queue) = 0
  BY EmptySeq DEF Init
<1>5. TypeOK
  <2>1. /\ attempted \in [Frames -> SUBSET Accounts]
        /\ seen \in [Frames -> {"nothing", "output", "rejected", "finished"}]
        /\ sent \in 0..NumFrames
    BY CountsAreNat DEF Init
  <2>2. conns \in Seq([account : Accounts, open : BOOLEAN]) /\ cur \in 1..MaxConns
    BY <1>2, <1>3 DEF Conn
  <2> QED
    BY <1>4, <2>1, <2>2 DEF Init, TypeOK
<1>6. QED
  BY <1>2, <1>4, <1>5 DEF TInv, ReplaysCreate, Connecting, OneUpstream, Init

LEMMA TInvKept == TInv /\ [Next]_vars => TInv'
<1> SUFFICES ASSUME TInv, [Next]_vars PROVE TInv'
  OBVIOUS
<1>1. conns' \in Seq(Conn) /\ cur' \in 1..MaxConns /\ OneUpstream'
  BY StepKinds, ConnsKept
<1>2. /\ queue' \in Seq(Jobs) /\ phase' \in {"ready", "choosing", "connecting", "failing"}
      /\ choice' \in Accounts \cup {NoAccount} /\ ReplaysCreate' /\ Connecting'
  BY StepKinds, ChainKept, NoAccountOutside
<1>3. TypeOK'
  BY <1>1, <1>2, TablesKept DEF TypeOK, Conn, TablesTyped, ClientTyped
<1>4. QED
  BY <1>1, <1>2, <1>3 DEF TInv

LEMMA SocketInv == Spec => []TInv
BY TInvStarts, TInvKept, PTL DEF Spec

\* Every variable keeps its type: the request table holds only creates of the
\* client, and a finished handshake finds an account to serve the socket.
THEOREM SocketTyped == Spec => []TypeOK
<1>1. TInv => TypeOK
  BY DEF TInv
<1>2. QED
  BY <1>1, SocketInv, PTL

\* No upstream connection is leaked, however closing, failing and replacing
\* interleave: only the current one can be open, and none once the socket ended
\* (replace and close in account-socket.ts).
THEOREM SocketOneUpstream == Spec => []OneUpstream
<1>1. TInv => OneUpstream
  BY DEF TInv
<1>2. QED
  BY <1>1, SocketInv, PTL

-----------------------------------------------------------------------------
(* The order of frames: what waits on the chain and what was forwarded *)

SendAt(i) == queue[i].kind = "send"
ReplayAt(i) == queue[i].kind = "replay"
Waiting(f) == \E i \in 1..Len(queue) : SendAt(i) /\ queue[i].frame = f

\* A frame that waits was sent, and is after everything that was forwarded.
SendsWait ==
    \A i \in 1..Len(queue) : SendAt(i) =>
        /\ queue[i].frame <= sent
        /\ \A g \in Frames : Forwarded(g) => g < queue[i].frame

SendsOrdered ==
    \A i, j \in 1..Len(queue) :
        i < j /\ SendAt(i) /\ SendAt(j) => queue[i].frame < queue[j].frame

NoneLost == status = "open" => \A f \in 1..sent : Forwarded(f) \/ Waiting(f)

ForwardedSent == \A i \in 1..Len(wire) : wire[i][1] <= sent

\* What is replayed, answered or pending was forwarded before.
ReplaysForwarded ==
    \A i \in 1..Len(queue), f \in Frames :
        ReplayAt(i) /\ queue[i].frame = f => Forwarded(f)
LiveForwarded == \A f \in live : Forwarded(f)
RequestsForwarded == status = "open" => \A f \in requests : Forwarded(f)

Turns ==
    /\ SendsWait /\ SendsOrdered
    /\ NoneLost
    /\ ForwardedSent
    /\ ReplaysForwarded
    /\ LiveForwarded /\ RequestsForwarded

\* What a step does to the chain and to the upstream.
Quiet == UNCHANGED <<queue, wire, sent>> /\ (status' = "open" => status = "open")
Enqueued(job) == queue' = Append(queue, job) /\ UNCHANGED <<status, wire>>
SendJoins == sent' = sent + 1 /\ sent < NumFrames /\ Enqueued(Send(sent + 1))
ReplayJoins ==
    \E q, f \in Frames : Forwarded(q) /\ Enqueued(Replay(q, f)) /\ UNCHANGED sent
JobDone ==
    /\ queue # <<>> /\ Pop
    /\ UNCHANGED <<wire, sent>>
    /\ status' # "open" \/ (ReplayAt(1) /\ UNCHANGED status)
JobForwards ==
    /\ queue # <<>> /\ Pop
    /\ \E a \in Accounts : Transmit(queue[1].frame, a)
    /\ UNCHANGED sent

WireStep == Quiet \/ SendJoins \/ ReplayJoins \/ JobDone \/ JobForwards

LEMMA WireKinds ==
  ASSUME TInv, Turns, [Next]_vars
  PROVE  WireStep
<1>1. TypeOK /\ (queue # <<>> => Head1 = queue[1] /\ queue[1] \in Jobs)
  BY HeadTyped DEF TInv, Head1
<1>2. CASE UNCHANGED vars
  BY <1>2 DEF vars, WireStep, Quiet
<1>3. CASE ClientSend
  BY <1>3 DEF ClientSend, WireStep, SendJoins, Enqueued, Queued, history
<1>4. CASE Close
  BY <1>4 DEF Close, chain, history, WireStep, Quiet
<1>5. CASE Forward
  <2>1. account \in Accounts
    BY <1>1, ConnsTyped
  <2> QED
    BY <1>1, <1>5, <2>1 DEF Forward, IsHead, Transmit, Refuse, WireStep, JobDone, JobForwards
<1>6. CASE BeginReplace
  BY <1>6 DEF BeginReplace, history, WireStep, Quiet
<1>7. CASE Drop
  BY <1>7 DEF Drop, history, WireStep, JobDone
<1>8. ASSUME NEW a \in Accounts, Chosen(a)
      PROVE  WireStep
  BY <1>8 DEF Chosen, history, WireStep, Quiet
<1>9. CASE ConnectedLate
  BY <1>9 DEF ConnectedLate, history, WireStep, JobDone, TInv, Connecting
<1>10. CASE ConnectedSend
  BY <1>1, <1>10 DEF ConnectedSend, IsHead, Transmit, Refuse, WireStep, JobDone, JobForwards, TInv, Connecting
<1>11. CASE ConnectedReplay
  BY <1>1, <1>11 DEF ConnectedReplay, IsHead, Transmit, Refuse, WireStep, JobDone, JobForwards, TInv, Connecting
<1>12. CASE SendFails
  BY <1>12 DEF SendFails, history, WireStep, JobDone, TInv, Connecting
<1>13. CASE ReplayFails
  BY <1>1, <1>13 DEF ReplayFails, WireStep, JobDone, ReplayAt
<1>14. ASSUME NEW f \in Frames,
              Output(f) \/ OutputBinary(f) \/ Finish(f) \/ FinishIncomplete(f) \/ RejectDelivered(f)
       PROVE  WireStep
  BY <1>14 DEF Output, OutputBinary, Finish, FinishIncomplete, RejectDelivered, chain, WireStep, Quiet
<1>15. ASSUME NEW f \in Frames, RejectHidden(f)
       PROVE  WireStep
  <2>1. PICK q \in Request(f) : Replayable(q) /\ queue' = Queued(Replay(q, f))
    BY <1>15 DEF RejectHidden
  <2>2. q \in requests /\ q \in Frames
    BY <2>1, FullAreCreates DEF Replayable
  <2>3. Forwarded(q)
    BY <1>15, <2>2 DEF RejectHidden, Arrives, Turns, RequestsForwarded
  <2> QED
    BY <1>15, <2>1, <2>2, <2>3 DEF RejectHidden, Queued, WireStep, ReplayJoins, Enqueued
<1>16. ASSUME NEW k \in 1..cur, LateReject(k)
       PROVE  WireStep
  BY <1>16 DEF LateReject, chain, history, WireStep, Quiet
<1>17. CASE UpstreamClosed \/ Overflow
  BY <1>17 DEF UpstreamClosed, Overflow, chain, history, WireStep, Quiet
<1>18. ASSUME NEW a \in Accounts, CooldownEnds(a)
       PROVE  WireStep
  BY <1>18 DEF CooldownEnds, chain, history, WireStep, Quiet
<1>19. CASE SendThrows
  BY <1>19 DEF SendThrows, history, WireStep, Quiet, JobDone
<1>20. CASE IdleReject
  <2>1. CASE UNCHANGED queue
    BY <1>20, <2>1 DEF IdleReject, WireStep, Quiet
  <2>2. ASSUME NEW q \in Only, Replayable(q), queue' = Queued(Replay(q, q))
        PROVE  WireStep
    <3>1. q \in requests /\ q \in Frames
      BY <2>2, FullAreCreates DEF Replayable
    <3>2. Forwarded(q)
      BY <1>20, <3>1 DEF IdleReject, Turns, RequestsForwarded
    <3> QED
      BY <1>20, <2>2, <3>1, <3>2 DEF IdleReject, Queued, WireStep, ReplayJoins, Enqueued
  <2> QED
    BY <1>20, <2>1, <2>2 DEF IdleReject
<1>21. QED
  BY <1>2, <1>3, <1>4, <1>5, <1>6, <1>7, <1>8, <1>9, <1>10, <1>11, <1>12, <1>13,
     <1>14, <1>15, <1>16, <1>17, <1>18, <1>19, <1>20 DEF Next, Job, Event

\* The frame that a job forwards is the only one that becomes forwarded.
LEMMA ForwardedKept ==
  ASSUME TInv, WireStep, NEW g \in Frames
  PROVE  /\ ~JobForwards => (Forwarded(g)' <=> Forwarded(g))
         /\ JobForwards => (Forwarded(g)' <=> Forwarded(g) \/ g = queue[1].frame)
<1>1. ~JobForwards => wire' = wire
  BY DEF WireStep, Quiet, SendJoins, ReplayJoins, JobDone, Enqueued
<1>2. ASSUME JobForwards
      PROVE  Forwarded(g)' <=> Forwarded(g) \/ g = queue[1].frame
  <2>1. PICK a \in Accounts : Transmit(queue[1].frame, a)
    BY <1>2 DEF JobForwards
  <2>2. queue[1].frame \in Frames
    BY <1>2, HeadTyped DEF JobForwards, TInv, Jobs
  <2>3. /\ Len(wire) \in Nat /\ Len(wire') = Len(wire) + 1
        /\ \A i \in 1..Len(wire) : wire'[i] = wire[i]
        /\ wire'[Len(wire) + 1] = <<queue[1].frame, a>>
    BY <2>1, <2>2, TransmitTyped DEF TInv
  <2> QED
    BY <2>3 DEF Forwarded
<1>3. QED
  BY <1>1, <1>2 DEF Forwarded

\* How the jobs of the chain move.
LEMMA JobsMove ==
  ASSUME TInv, WireStep
  PROVE  /\ Len(queue) \in Nat
         /\ \A i \in 1..Len(queue) : queue[i] \in Jobs
         /\ Quiet => queue' = queue
         /\ SendJoins \/ ReplayJoins =>
              /\ Len(queue') = Len(queue) + 1
              /\ \A i \in 1..Len(queue) : queue'[i] = queue[i]
         /\ SendJoins => queue'[Len(queue) + 1] = Send(sent + 1)
         /\ ReplayJoins => \E q, f \in Frames :
              Forwarded(q) /\ queue'[Len(queue) + 1] = Replay(q, f)
         /\ JobDone \/ JobForwards =>
              /\ Len(queue) >= 1 /\ Len(queue') = Len(queue) - 1
              /\ \A i \in 1..(Len(queue) - 1) : queue'[i] = queue[i+1]
<1>1. queue \in Seq(Jobs) /\ Len(queue) \in Nat /\ TypeOK
  BY LenProperties DEF TInv, TypeOK
<1>2. \A i \in 1..Len(queue) : queue[i] \in Jobs
  BY <1>1, ElementOfSeq
<1>3. ASSUME SendJoins
      PROVE  /\ Len(queue') = Len(queue) + 1
             /\ \A i \in 1..Len(queue) : queue'[i] = queue[i]
             /\ queue'[Len(queue) + 1] = Send(sent + 1)
  <2>1. Send(sent + 1) \in Jobs
    BY <1>1, <1>3, CountsAreNat DEF SendJoins, Send, Jobs, Frames, TypeOK
  <2> QED
    BY <1>1, <1>3, <2>1, AppendTyped DEF SendJoins, Enqueued
<1>4. ASSUME NEW q \in Frames, NEW f \in Frames, Enqueued(Replay(q, f))
      PROVE  /\ Len(queue') = Len(queue) + 1
             /\ \A i \in 1..Len(queue) : queue'[i] = queue[i]
             /\ queue'[Len(queue) + 1] = Replay(q, f)
  <2>1. Replay(q, f) \in Jobs
    BY DEF Replay, Jobs
  <2> QED
    BY <1>1, <1>4, <2>1, AppendTyped DEF Enqueued
<1>5. ASSUME JobDone \/ JobForwards
      PROVE  /\ Len(queue) >= 1 /\ Len(queue') = Len(queue) - 1
             /\ \A i \in 1..(Len(queue) - 1) : queue'[i] = queue[i+1]
  BY <1>1, <1>5, HeadTyped DEF JobDone, JobForwards, Pop
<1>6. QED
  BY <1>1, <1>2, <1>3, <1>4, <1>5 DEF ReplayJoins, Quiet

\* A job that moves up keeps its place among the others.
LEMMA QueueOrderKept ==
  ASSUME TInv, Turns, WireStep
  PROVE  SendsWait' /\ SendsOrdered' /\ ReplaysForwarded'
<1>1. /\ Len(queue) \in Nat /\ sent \in Nat
      /\ \A i \in 1..Len(queue) : queue[i].frame \in Frames /\ queue[i].kind \in {"send", "replay"}
      /\ \A f \in Frames : f \in Nat
  BY JobsMove, CountsAreNat DEF Jobs, TInv, TypeOK, Frames
<1>2. SendsWait /\ SendsOrdered /\ ReplaysForwarded
  BY DEF Turns
<1>3. \A g \in Frames : Forwarded(g) => g <= sent
  BY <1>1 DEF Turns, ForwardedSent, Forwarded
<1>4. CASE Quiet
  <2>1. queue' = queue /\ sent' = sent /\ wire' = wire
    BY <1>4 DEF Quiet
  <2> QED
    BY <1>2, <2>1 DEF SendsWait, SendsOrdered, ReplaysForwarded, SendAt, ReplayAt, Forwarded
<1>5. CASE SendJoins
  <2>1. /\ Len(queue') = Len(queue) + 1
        /\ \A i \in 1..Len(queue) : queue'[i] = queue[i]
        /\ queue'[Len(queue) + 1].kind = "send" /\ queue'[Len(queue) + 1].frame = sent + 1
    BY <1>5, JobsMove DEF Send
  <2>2. sent' = sent + 1 /\ wire' = wire
    BY <1>5 DEF SendJoins, Enqueued
  <2>3. SendsWait'
    BY <1>1, <1>2, <1>3, <2>1, <2>2 DEF SendsWait, SendAt, Forwarded
  <2>4. SendsOrdered'
    <3> SUFFICES ASSUME NEW i \in 1..Len(queue'), NEW j \in 1..Len(queue'),
                        i < j, SendAt(i)', SendAt(j)'
                 PROVE  queue'[i].frame < queue'[j].frame
      BY DEF SendsOrdered
    <3>1. i \in 1..Len(queue) /\ queue'[i] = queue[i] /\ SendAt(i)
      BY <1>1, <2>1 DEF SendAt
    <3>2. CASE j \in 1..Len(queue)
      BY <1>2, <2>1, <3>1, <3>2 DEF SendsOrdered, SendAt
    <3>3. CASE j = Len(queue) + 1
      BY <1>1, <1>2, <2>1, <3>1, <3>3 DEF SendsWait
    <3> QED
      BY <1>1, <2>1, <3>2, <3>3
  <2>5. ReplaysForwarded'
    BY <1>1, <1>2, <2>1, <2>2 DEF ReplaysForwarded, ReplayAt, Forwarded
  <2> QED
    BY <2>3, <2>4, <2>5
<1>6. CASE ReplayJoins
  <2>1. PICK q, f \in Frames : Forwarded(q) /\ queue'[Len(queue) + 1] = Replay(q, f)
    BY <1>6, JobsMove
  <2>2. /\ Len(queue') = Len(queue) + 1
        /\ \A i \in 1..Len(queue) : queue'[i] = queue[i]
        /\ queue'[Len(queue) + 1].kind = "replay" /\ queue'[Len(queue) + 1].frame = q
    BY <1>6, <2>1, JobsMove DEF Replay
  <2>3. sent' = sent /\ wire' = wire
    BY <1>6 DEF ReplayJoins, Enqueued
  <2>4. SendsWait'
    BY <1>1, <1>2, <2>2, <2>3 DEF SendsWait, SendAt, Forwarded
  <2>5. SendsOrdered'
    <3>1. \A i \in 1..Len(queue') : SendAt(i)' =>
            i \in 1..Len(queue) /\ SendAt(i) /\ queue'[i] = queue[i]
      BY <1>1, <2>2 DEF SendAt
    <3> QED
      BY <1>2, <3>1 DEF SendsOrdered
  <2>6. ReplaysForwarded'
    BY <1>1, <1>2, <2>1, <2>2, <2>3 DEF ReplaysForwarded, ReplayAt, Forwarded
  <2> QED
    BY <2>4, <2>5, <2>6
<1>7. CASE JobDone \/ JobForwards
  <2>1. /\ Len(queue) >= 1 /\ Len(queue') = Len(queue) - 1
        /\ \A i \in 1..(Len(queue) - 1) : queue'[i] = queue[i+1]
    BY <1>7, JobsMove
  <2>2. sent' = sent
    BY <1>7 DEF JobDone, JobForwards
  <2>3. \A i \in 1..Len(queue') : i + 1 \in 1..Len(queue) /\ queue'[i] = queue[i+1]
    BY <1>1, <2>1
  <2>4. \A g \in Frames : Forwarded(g)' => Forwarded(g) \/ g = queue[1].frame
    BY ForwardedKept
  <2>5. \A g \in Frames : Forwarded(g) => Forwarded(g)'
    BY ForwardedKept
  <2>6. SendsWait'
    <3> SUFFICES ASSUME NEW i \in 1..Len(queue'), SendAt(i)', NEW g \in Frames, Forwarded(g)'
                 PROVE  queue'[i].frame <= sent' /\ g < queue'[i].frame
      BY <1>1, <2>1, <2>2, <2>3, <1>2 DEF SendsWait, SendAt
    <3>1. i + 1 \in 1..Len(queue) /\ SendAt(i + 1) /\ queue'[i] = queue[i+1]
      BY <2>3 DEF SendAt
    <3>2. queue[i+1].frame <= sent /\ (Forwarded(g) => g < queue[i+1].frame)
      BY <1>2, <3>1 DEF SendsWait
    <3>3. CASE Forwarded(g)
      BY <3>1, <3>2, <3>3, <2>2
    <3>4. CASE ~Forwarded(g)
      <4>1. g = queue[1].frame
        BY <2>4, <3>4
      <4>2. 1 \in 1..Len(queue) /\ 1 < i + 1
        BY <1>1, <2>1
      <4>3. SendAt(1)
        BY <1>1, <1>2, <3>4, <4>1, <4>2 DEF ReplaysForwarded, ReplayAt, SendAt
      <4> QED
        BY <1>2, <2>2, <3>1, <3>2, <4>1, <4>2, <4>3 DEF SendsOrdered
    <3> QED
      BY <3>3, <3>4
  <2>7. SendsOrdered'
    <3> SUFFICES ASSUME NEW i \in 1..Len(queue'), NEW j \in 1..Len(queue'), i < j, SendAt(i)', SendAt(j)'
                 PROVE  queue'[i].frame < queue'[j].frame
      BY DEF SendsOrdered
    <3> QED
      BY <1>2, <2>3 DEF SendsOrdered, SendAt
  <2>8. ReplaysForwarded'
    <3> SUFFICES ASSUME NEW i \in 1..Len(queue'), NEW f \in Frames,
                        ReplayAt(i)', queue'[i].frame = f
                 PROVE  Forwarded(f)'
      BY DEF ReplaysForwarded
    <3>1. i + 1 \in 1..Len(queue) /\ ReplayAt(i + 1) /\ queue[i+1].frame = f
      BY <2>3 DEF ReplayAt
    <3>2. Forwarded(f)
      BY <1>2, <3>1 DEF ReplaysForwarded
    <3> QED
      BY <2>5, <3>2
  <2> QED
    BY <2>6, <2>7, <2>8
<1>8. QED
  BY <1>4, <1>5, <1>6, <1>7 DEF WireStep

\* No frame of an open client is lost between the chain and the upstream.
LEMMA NoneLostKept ==
  ASSUME TInv, Turns, WireStep
  PROVE  NoneLost' /\ ForwardedSent'
<1>1. /\ Len(queue) \in Nat /\ sent \in 0..NumFrames /\ NumFrames \in Nat
      /\ \A i \in 1..Len(queue) : queue[i].frame \in Frames
  BY JobsMove, CountsAreNat DEF Jobs, TInv, TypeOK
<1>2. NoneLost /\ ForwardedSent /\ SendsWait /\ ReplaysForwarded
  BY DEF Turns
<1>3. ASSUME NEW f \in Frames
      PROVE  Forwarded(f) => Forwarded(f)'
  BY ForwardedKept
<1>4. CASE Quiet
  <2>1. queue' = queue /\ sent' = sent /\ wire' = wire /\ (status' = "open" => status = "open")
    BY <1>4 DEF Quiet
  <2> QED
    BY <1>2, <2>1 DEF NoneLost, ForwardedSent, Waiting, SendAt, Forwarded
<1>5. CASE SendJoins
  <2>1. /\ Len(queue') = Len(queue) + 1
        /\ \A i \in 1..Len(queue) : queue'[i] = queue[i]
        /\ queue'[Len(queue) + 1].kind = "send" /\ queue'[Len(queue) + 1].frame = sent + 1
    BY <1>5, JobsMove DEF Send
  <2>2. sent' = sent + 1 /\ wire' = wire /\ status' = status
    BY <1>5 DEF SendJoins, Enqueued
  <2>3. \A f \in Frames : Waiting(f) => Waiting(f)'
    BY <1>1, <2>1 DEF Waiting, SendAt
  <2>4. ASSUME NEW f \in Frames, f = sent + 1
        PROVE  Waiting(f)'
    <3>1. Len(queue) + 1 \in 1..Len(queue') /\ queue'[Len(queue) + 1].kind = "send"
      BY <1>1, <2>1
    <3> QED
      BY <3>1, <2>1, <2>4 DEF Waiting, SendAt
  <2>5. NoneLost'
    <3> SUFFICES ASSUME status = "open", NEW f \in 1..(sent + 1)
                 PROVE  Forwarded(f)' \/ Waiting(f)'
      BY <2>2 DEF NoneLost
    <3>1. CASE f \in 1..sent
      BY <1>1, <1>2, <1>3, <2>3, <3>1 DEF NoneLost, Frames
    <3>2. CASE f = sent + 1
      BY <1>1, <1>5, <2>4, <3>2 DEF SendJoins, Frames
    <3> QED
      BY <1>1, <3>1, <3>2
  <2>6. ForwardedSent'
    BY <1>1, <1>2, <2>2 DEF ForwardedSent, TInv, TypeOK, Frames
  <2> QED
    BY <2>5, <2>6
<1>6. CASE ReplayJoins
  <2>1. /\ Len(queue') = Len(queue) + 1
        /\ \A i \in 1..Len(queue) : queue'[i] = queue[i]
    BY <1>6, JobsMove
  <2>2. sent' = sent /\ wire' = wire /\ status' = status
    BY <1>6 DEF ReplayJoins, Enqueued
  <2> QED
    BY <1>1, <1>2, <2>1, <2>2 DEF NoneLost, ForwardedSent, Waiting, SendAt, Forwarded
<1>7. ASSUME JobDone \/ JobForwards, NEW f \in Frames, Waiting(f)
      PROVE  Waiting(f)' \/ (SendAt(1) /\ f = queue[1].frame)
  <2>1. /\ Len(queue) >= 1 /\ Len(queue') = Len(queue) - 1
        /\ \A i \in 1..(Len(queue) - 1) : queue'[i] = queue[i+1]
    BY <1>7, JobsMove
  <2>2. PICK i \in 1..Len(queue) : SendAt(i) /\ queue[i].frame = f
    BY <1>7 DEF Waiting
  <2>3. CASE i = 1
    BY <2>2, <2>3
  <2>4. CASE i # 1
    <3>1. i - 1 \in 1..Len(queue') /\ queue'[i-1] = queue[i]
      BY <1>1, <2>1, <2>4
    <3> QED
      BY <2>2, <3>1 DEF Waiting, SendAt
  <2> QED
    BY <2>3, <2>4
<1>8. CASE JobDone
  <2>1. wire' = wire /\ sent' = sent /\ (status' # "open" \/ (ReplayAt(1) /\ status' = status))
    BY <1>8 DEF JobDone
  <2>2. ~(SendAt(1) /\ ReplayAt(1))
    BY DEF SendAt, ReplayAt
  <2>3. NoneLost'
    BY <1>1, <1>2, <1>3, <1>7, <1>8, <2>1, <2>2 DEF NoneLost, Frames
  <2> QED
    BY <1>2, <2>1, <2>3 DEF ForwardedSent
<1>9. CASE JobForwards
  <2>1. sent' = sent /\ status' = status
    BY <1>9 DEF JobForwards, Transmit
  <2>2. queue[1].frame \in Frames /\ 1 \in 1..Len(queue)
    BY <1>1, <1>9, JobsMove
  <2>3. \A f \in Frames : f = queue[1].frame => Forwarded(f)'
    BY <1>9, ForwardedKept
  <2>4. NoneLost'
    <3> SUFFICES ASSUME status = "open", NEW f \in 1..sent
                 PROVE  Forwarded(f)' \/ Waiting(f)'
      BY <2>1 DEF NoneLost
    <3>1. f \in Frames /\ (Forwarded(f) \/ Waiting(f))
      BY <1>1, <1>2 DEF NoneLost, Frames
    <3>2. Forwarded(f)' \/ Waiting(f)' \/ f = queue[1].frame
      BY <1>3, <1>7, <1>9, <3>1
    <3> QED
      BY <2>3, <3>1, <3>2
  <2>5. ForwardedSent'
    <3>1. PICK a \in Accounts : Transmit(queue[1].frame, a)
      BY <1>9 DEF JobForwards
    <3>2. /\ Len(wire) \in Nat /\ Len(wire') = Len(wire) + 1
          /\ \A i \in 1..Len(wire) : wire'[i] = wire[i]
          /\ wire'[Len(wire) + 1] = <<queue[1].frame, a>>
      BY <2>2, <3>1, TransmitTyped DEF TInv
    <3>3. queue[1].frame <= sent
      <4>1. CASE SendAt(1)
        BY <1>2, <2>2, <4>1 DEF SendsWait
      <4>2. CASE ReplayAt(1)
        BY <1>2, <2>2, <4>2 DEF ReplaysForwarded, Forwarded, ForwardedSent
      <4> QED
        BY <2>2, <4>1, <4>2, JobsMove DEF Jobs, SendAt, ReplayAt
    <3> QED
      BY <1>2, <2>1, <3>2, <3>3 DEF ForwardedSent
  <2> QED
    BY <2>4, <2>5
<1>10. QED
  BY <1>4, <1>5, <1>6, <1>8, <1>9 DEF WireStep

\* Only a frame that is forwarded becomes pending or gets an answer.
LEMMA InHandKept ==
  ASSUME TInv, Turns, [Next]_vars, WireStep
  PROVE  LiveForwarded' /\ RequestsForwarded'
<1>1. /\ TypeOK /\ LiveForwarded /\ RequestsForwarded
      /\ requests \subseteq Frames /\ live \subseteq Frames
  BY FullAreCreates DEF TInv, TypeOK, Turns
<1>2. \A f \in Frames : Forwarded(f) => Forwarded(f)'
  BY ForwardedKept
<1>3. queue # <<>> => Head1 = queue[1] /\ Head1.frame \in Frames
  BY <1>1, HeadTyped DEF Head1, Jobs
<1>4. ASSUME live' \subseteq live, requests' \subseteq requests, status' = "open" => status = "open"
      PROVE  LiveForwarded' /\ RequestsForwarded'
  BY <1>1, <1>2, <1>4 DEF LiveForwarded, RequestsForwarded
<1>5. CASE UNCHANGED vars
  BY <1>4, <1>5 DEF vars
<1>6. CASE ClientSend
  BY <1>4, <1>6 DEF ClientSend, pendings
<1>7. CASE Close
  BY <1>4, <1>7 DEF Close, pendings
<1>8. CASE Forward
  <2>1. requests' \subseteq requests \cup {Head1.frame}
    BY <1>8 DEF Forward, Remember, pendings
  <2>2. CASE Transmit(Head1.frame, account) /\ live' = live \cup ({Head1.frame} \cap Creates)
    <3>1. JobForwards
      BY <1>1, <1>3, <1>8, <2>2, ConnsTyped DEF Forward, IsHead, JobForwards
    <3>2. \A f \in Frames : f = Head1.frame => Forwarded(f)'
      BY <1>3, <1>8, <3>1, ForwardedKept DEF Forward, IsHead
    <3>3. status' = status
      BY <2>2 DEF Transmit
    <3> QED
      BY <1>1, <1>2, <2>1, <2>2, <3>2, <3>3, <1>3, <1>8 DEF LiveForwarded, RequestsForwarded, Forward, IsHead
  <2>3. CASE Refuse /\ UNCHANGED live
    BY <1>1, <1>2, <2>3 DEF Refuse, LiveForwarded, RequestsForwarded
  <2> QED
    BY <1>8, <2>2, <2>3 DEF Forward
<1>9. CASE BeginReplace
  BY <1>4, <1>9 DEF BeginReplace, pendings
<1>10. CASE Drop
  BY <1>4, <1>10 DEF Drop, pendings
<1>11. ASSUME NEW a \in Accounts, Chosen(a)
       PROVE  LiveForwarded' /\ RequestsForwarded'
  BY <1>4, <1>11 DEF Chosen, pendings
<1>12. CASE ConnectedLate
  BY <1>4, <1>12 DEF ConnectedLate, pendings
<1>13. CASE ConnectedSend
  <2>1. requests' \subseteq requests \cup {Head1.frame} /\ queue # <<>> /\ choice \in Accounts
    BY <1>13 DEF ConnectedSend, Remember, pendings, IsHead, TInv, Connecting
  <2>2. CASE Transmit(Head1.frame, choice) /\ live' = {Head1.frame} \cap Creates
    <3>1. JobForwards
      BY <1>3, <1>13, <2>1, <2>2 DEF ConnectedSend, JobForwards
    <3>2. \A f \in Frames : f = Head1.frame => Forwarded(f)'
      BY <1>3, <2>1, <3>1, ForwardedKept
    <3>3. status' = status
      BY <2>2 DEF Transmit
    <3> QED
      BY <1>1, <1>2, <1>3, <2>1, <2>2, <3>2, <3>3 DEF LiveForwarded, RequestsForwarded
  <2>3. CASE Refuse /\ live' = {}
    BY <2>3 DEF Refuse, LiveForwarded, RequestsForwarded
  <2> QED
    BY <1>13, <2>2, <2>3 DEF ConnectedSend
<1>14. CASE ConnectedReplay
  <2>1. requests' = requests /\ queue # <<>> /\ choice \in Accounts
    BY <1>14 DEF ConnectedReplay, IsHead, TInv, Connecting
  <2>2. CASE Transmit(Head1.frame, choice) /\ live' = {Head1.frame}
    <3>1. JobForwards
      BY <1>3, <1>14, <2>1, <2>2 DEF ConnectedReplay, JobForwards
    <3>2. \A f \in Frames : f = Head1.frame => Forwarded(f)'
      BY <1>3, <2>1, <3>1, ForwardedKept
    <3>3. status' = status
      BY <2>2 DEF Transmit
    <3> QED
      BY <1>1, <1>2, <1>3, <2>1, <2>2, <3>2, <3>3 DEF LiveForwarded, RequestsForwarded
  <2>3. CASE Refuse /\ live' = {}
    BY <2>3 DEF Refuse, LiveForwarded, RequestsForwarded
  <2> QED
    BY <1>14, <2>2, <2>3 DEF ConnectedReplay
<1>15. CASE SendFails
  BY <1>4, <1>15 DEF SendFails, pendings
<1>16. CASE ReplayFails
  BY <1>4, <1>16 DEF ReplayFails
<1>17. ASSUME NEW f \in Frames,
              \/ Output(f) \/ OutputBinary(f) \/ Finish(f) \/ FinishIncomplete(f)
              \/ RejectHidden(f) \/ RejectDelivered(f)
       PROVE  LiveForwarded' /\ RequestsForwarded'
  BY <1>4, <1>17 DEF Output, OutputBinary, Finish, FinishIncomplete, RejectHidden, RejectDelivered
<1>18. ASSUME NEW k \in 1..cur, LateReject(k)
       PROVE  LiveForwarded' /\ RequestsForwarded'
  BY <1>4, <1>18 DEF LateReject, pendings
<1>19. CASE UpstreamClosed \/ Overflow
  BY <1>4, <1>19 DEF UpstreamClosed, Overflow, pendings
<1>20. ASSUME NEW a \in Accounts, CooldownEnds(a)
       PROVE  LiveForwarded' /\ RequestsForwarded'
  BY <1>4, <1>20 DEF CooldownEnds, pendings
<1>21. CASE SendThrows
  BY <1>4, <1>21 DEF SendThrows, pendings
<1>22. CASE IdleReject
  BY <1>4, <1>22 DEF IdleReject
<1>23. QED
  BY <1>5, <1>6, <1>7, <1>8, <1>9, <1>10, <1>11, <1>12, <1>13, <1>14, <1>15, <1>16,
     <1>17, <1>18, <1>19, <1>20, <1>21, <1>22 DEF Next, Job, Event

LEMMA TurnsStart == Init => Turns
<1> SUFFICES ASSUME Init PROVE Turns
  OBVIOUS
<1>1. /\ queue = <<>> /\ wire = <<>> /\ sent = 0 /\ live = {} /\ requests = {}
      /\ Len(queue) = 0 /\ Len(wire) = 0
  BY EmptySeq DEF Init
<1>2. QED
  BY <1>1 DEF Turns, SendsWait, SendsOrdered, NoneLost, ForwardedSent, ReplaysForwarded,
              LiveForwarded, RequestsForwarded

LEMMA TurnsKept == TInv /\ Turns /\ [Next]_vars => Turns'
BY WireKinds, QueueOrderKept, NoneLostKept, InHandKept DEF Turns

LEMMA TurnsInv == Spec => [](TInv /\ Turns)
BY TInvStarts, TInvKept, TurnsStart, TurnsKept, PTL DEF Spec

\* Frames reach an upstream in the order the client sent them, whatever is
\* replayed between them, whichever account serves them, and none is skipped
\* while the client is open (the promise chain in account-socket.ts).
THEOREM SocketInOrder == Spec => []InOrder
<1>1. TInv /\ Turns => InOrder
  <2> SUFFICES ASSUME TInv, Turns, status = "open", NEW f \in Frames, NEW g \in Frames,
                      f < g, Forwarded(g)
               PROVE  Forwarded(f)
    BY DEF InOrder
  <2>1. sent \in Nat /\ f \in Nat /\ g \in Nat /\ f >= 1
    BY CountsAreNat DEF TInv, TypeOK, Frames
  <2>2. g <= sent
    BY DEF Turns, ForwardedSent, Forwarded
  <2>3. Forwarded(f) \/ Waiting(f)
    BY <2>1, <2>2 DEF Turns, NoneLost
  <2>4. ~Waiting(f)
    BY <2>1 DEF Turns, SendsWait, Waiting
  <2> QED
    BY <2>3, <2>4
<1>2. QED
  BY <1>1, TurnsInv, PTL

-----------------------------------------------------------------------------
(* No account gets a frame twice *)

\* A create that is pending knows every account that got it.
AttemptedOnWire ==
    \A i \in 1..Len(wire) : wire[i][1] \in Creates => wire[i][2] \in attempted[wire[i][1]]

\* A replay connects to an account that has not had the frame.
NewAccount ==
    phase = "connecting" /\ ReplayAt(1) => choice \notin attempted[queue[1].frame]

Tried == AttemptedOnWire /\ NewAccount /\ AtMostOncePerAccount

LEMMA ForwardsOnce ==
  ASSUME TInv, Tried, NEW f \in Frames, NEW a \in Accounts, Transmit(f, a),
         \A i \in 1..Len(wire) : wire[i] # <<f, a>>,
         \A i \in 1..Len(wire) : wire[i][1] \in Creates =>
            attempted[wire[i][1]] \subseteq attempted'[wire[i][1]],
         f \in Creates => a \in attempted'[f]
  PROVE  AttemptedOnWire' /\ AtMostOncePerAccount'
<1>1. /\ Len(wire) \in Nat /\ Len(wire') = Len(wire) + 1
      /\ \A i \in 1..Len(wire) : wire'[i] = wire[i]
      /\ wire'[Len(wire) + 1] = <<f, a>>
  BY TransmitTyped DEF TInv
<1>2. AttemptedOnWire'
  <2> SUFFICES ASSUME NEW i \in 1..Len(wire'), wire'[i][1] \in Creates
               PROVE  wire'[i][2] \in attempted'[wire'[i][1]]
    BY DEF AttemptedOnWire
  <2>1. CASE i \in 1..Len(wire)
    BY <1>1, <2>1 DEF Tried, AttemptedOnWire
  <2>2. CASE i = Len(wire) + 1
    BY <1>1, <2>2
  <2> QED
    BY <1>1, <2>1, <2>2
<1>3. AtMostOncePerAccount'
  <2> SUFFICES ASSUME NEW i \in 1..Len(wire'), NEW j \in 1..Len(wire'), wire'[i] = wire'[j]
               PROVE  i = j
    BY DEF AtMostOncePerAccount
  <2>1. CASE i \in 1..Len(wire) /\ j \in 1..Len(wire)
    BY <1>1, <2>1 DEF Tried, AtMostOncePerAccount
  <2>2. CASE i = Len(wire) + 1 \/ j = Len(wire) + 1
    BY <1>1, <2>2
  <2> QED
    BY <1>1, <2>1, <2>2
<1>4. QED
  BY <1>2, <1>3

\* A frame that waits is registered with the account it goes to; no account has
\* had it before.
LEMMA SendsOnce ==
  ASSUME TInv, Turns, Tried, queue # <<>>, Head1.kind = "send",
         NEW a \in Accounts, Remember(Head1.frame, a),
         UNCHANGED wire \/ Transmit(Head1.frame, a)
  PROVE  AttemptedOnWire' /\ AtMostOncePerAccount'
<1> DEFINE f == Head1.frame
<1>1. /\ Head1 = queue[1] /\ f \in Frames /\ 1 \in 1..Len(queue) /\ f \in Nat
      /\ attempted \in [Frames -> SUBSET Accounts] /\ wire \in Seq(Frames \X Accounts)
  BY HeadTyped, CountsAreNat DEF TInv, TypeOK, Head1, Jobs, Frames
<1>2. ~Forwarded(f)
  BY <1>1 DEF Turns, SendsWait, SendAt
<1>3. \A i \in 1..Len(wire) : wire[i][1] # f /\ wire[i][1] \in Frames /\ wire[i] # <<f, a>>
  BY <1>1, <1>2, ElementOfSeq DEF Forwarded
<1>4. /\ \A g \in Frames \ {f} : attempted'[g] = attempted[g]
      /\ f \in Creates => a \in attempted'[f]
  BY <1>1 DEF Remember, pendings
<1>5. CASE UNCHANGED wire
  BY <1>3, <1>4, <1>5 DEF Tried, AttemptedOnWire, AtMostOncePerAccount
<1>6. CASE Transmit(f, a)
  <2> HIDE DEF f
  <2> QED
    BY <1>1, <1>3, <1>4, <1>6, ForwardsOnce
<1>7. QED
  BY <1>5, <1>6

LEMMA NewAccountKept ==
  ASSUME TInv, NewAccount, ChainStep, phase' = "connecting" => UNCHANGED attempted
  PROVE  NewAccount'
<1> SUFFICES ASSUME phase' = "connecting", ReplayAt(1)'
             PROVE  choice' \notin attempted'[queue'[1].frame]
  BY DEF NewAccount
<1>1. attempted' = attempted
  OBVIOUS
<1>2. CASE UNCHANGED chain
  BY <1>1, <1>2 DEF chain, NewAccount, ReplayAt
<1>3. ASSUME NEW job \in Jobs, queue' = Append(queue, job), UNCHANGED <<phase, choice>>
      PROVE  choice' \notin attempted'[queue'[1].frame]
  <2>1. queue # <<>>
    BY <1>3 DEF TInv, Connecting
  <2>2. queue'[1] = queue[1]
    BY <1>3, <2>1, HeadTyped, AppendTyped DEF TInv
  <2> QED
    BY <1>1, <1>3, <2>2 DEF NewAccount, ReplayAt
<1>4. ~Pop /\ ~BeginReplace /\ ~Failing
  BY DEF Pop, BeginReplace, Failing
<1>5. ASSUME NEW a \in Accounts, Chosen(a)
      PROVE  choice' \notin attempted'[queue'[1].frame]
  <2>1. Head1 = queue[1]
    BY <1>5, HeadTyped DEF Chosen, TInv, Connecting, Head1
  <2> QED
    BY <1>1, <1>5, <2>1 DEF Chosen, Excluded, ReplayAt
<1>6. QED
  BY <1>2, <1>3, <1>4, <1>5 DEF ChainStep

LEMMA TriedKept == TInv /\ Turns /\ Tried /\ [Next]_vars => Tried'
<1> SUFFICES ASSUME TInv, Turns, Tried, [Next]_vars PROVE Tried'
  OBVIOUS
<1>1. TypeOK /\ ChainStep
  BY StepKinds DEF TInv
<1>2. ASSUME UNCHANGED wire, UNCHANGED attempted
      PROVE  Tried'
  BY <1>1, <1>2, NewAccountKept DEF Tried, AttemptedOnWire, AtMostOncePerAccount
<1>3. CASE Forward
  <2>1. /\ queue # <<>> /\ Head1.kind = "send" /\ Remember(Head1.frame, account)
        /\ UNCHANGED wire \/ Transmit(Head1.frame, account)
        /\ phase' = "ready" /\ account \in Accounts
    BY <1>1, <1>3, ConnsTyped DEF Forward, IsHead, Refuse, Pop
  <2> QED
    BY <1>1, <2>1, SendsOnce, NewAccountKept DEF Tried
<1>4. CASE ConnectedSend
  <2>1. /\ queue # <<>> /\ Head1.kind = "send" /\ Remember(Head1.frame, choice)
        /\ UNCHANGED wire \/ Transmit(Head1.frame, choice)
        /\ phase' = "ready" /\ choice \in Accounts
    BY <1>4 DEF ConnectedSend, IsHead, Refuse, Pop, TInv, Connecting
  <2> QED
    BY <1>1, <2>1, SendsOnce, NewAccountKept DEF Tried
<1>5. CASE ConnectedReplay
  <2> DEFINE f == Head1.frame
  <2>1. /\ queue # <<>> /\ Head1.kind = "replay" /\ phase = "connecting" /\ phase' = "ready"
        /\ attempted' = [attempted EXCEPT ![f] = @ \cup {choice}]
        /\ UNCHANGED wire \/ Transmit(f, choice)
        /\ choice \in Accounts
    BY <1>5 DEF ConnectedReplay, IsHead, Refuse, Pop, TInv, Connecting
  <2>2. /\ Head1 = queue[1] /\ f \in Frames /\ 1 \in 1..Len(queue)
        /\ attempted \in [Frames -> SUBSET Accounts] /\ wire \in Seq(Frames \X Accounts)
    BY <1>1, <2>1, HeadTyped DEF TypeOK, Head1, Jobs
  <2>3. f \in Creates /\ choice \notin attempted[f]
    BY <2>1, <2>2 DEF TInv, ReplaysCreate, Tried, NewAccount, ReplayAt
  <2>4. \A i \in 1..Len(wire) : wire[i] # <<f, choice>> /\ wire[i][1] \in Frames
    BY <2>2, <2>3, ElementOfSeq DEF Tried, AttemptedOnWire
  <2>5. /\ \A g \in Frames : attempted[g] \subseteq attempted'[g]
        /\ choice \in attempted'[f]
    BY <2>1, <2>2
  <2> HIDE DEF f
  <2>6. AttemptedOnWire' /\ AtMostOncePerAccount'
    <3>1. CASE UNCHANGED wire
      BY <2>2, <2>4, <2>5, <3>1, ElementOfSeq DEF Tried, AttemptedOnWire, AtMostOncePerAccount
    <3>2. CASE Transmit(f, choice)
      BY <2>1, <2>2, <2>3, <2>4, <2>5, <3>2, ForwardsOnce
    <3> QED
      BY <2>1, <3>1, <3>2
  <2> QED
    BY <1>1, <2>1, <2>6, NewAccountKept DEF Tried
<1>6. CASE UNCHANGED vars
  BY <1>2, <1>6 DEF vars
<1>7. CASE ClientSend \/ Close \/ BeginReplace \/ Drop \/ ConnectedLate \/ SendThrows \/ SendFails
           \/ ReplayFails
           \/ (\E a \in Accounts : Chosen(a))
  BY <1>2, <1>7 DEF ClientSend, Close, BeginReplace, Drop, ConnectedLate, SendThrows, SendFails, ReplayFails,
                    Chosen, pendings, history
<1>8. CASE Event
  BY <1>2, <1>8 DEF Event, Output, OutputBinary, Finish, FinishIncomplete, RejectHidden,
                    RejectDelivered, IdleReject, LateReject, UpstreamClosed, Overflow, CooldownEnds, pendings, history
<1>9. QED
  BY <1>3, <1>4, <1>5, <1>6, <1>7, <1>8 DEF Next, Job

LEMMA TriedInv == Spec => [](TInv /\ Turns /\ Tried)
<1>1. Init => Tried
  <2> SUFFICES ASSUME Init PROVE Tried
    OBVIOUS
  <2>1. wire = <<>> /\ Len(wire) = 0 /\ phase = "ready"
    BY EmptySeq DEF Init
  <2> QED
    BY <2>1 DEF Tried, AttemptedOnWire, NewAccount, AtMostOncePerAccount
<1>2. QED
  BY <1>1, TInvStarts, TInvKept, TurnsStart, TurnsKept, TriedKept, PTL DEF Spec

\* No account gets the same frame twice, however often it is rejected, replayed
\* or registered again: a replay excludes every account in its attempted set,
\* and a frame is forwarded by its own job only once (account-socket.ts).
THEOREM SocketAtMostOnce == Spec => []AtMostOncePerAccount
<1>1. Tried => AtMostOncePerAccount
  BY DEF Tried
<1>2. QED
  BY <1>1, TriedInv, PTL

-----------------------------------------------------------------------------
(* A rejection that is kept from the client *)

\* While the client is open, a hidden rejection has its replay on the chain: the
\* job that will forward the request again or deliver the rejection after all.
HiddenHasReplay ==
    \A f \in hidden :
        \/ status # "open"
        \/ \E i \in 1..Len(queue) : ReplayAt(i) /\ queue[i].rejected = f

LEMMA HiddenKept == TInv /\ HiddenHasReplay /\ [Next]_vars => HiddenHasReplay'
<1> SUFFICES ASSUME TInv, HiddenHasReplay, [Next]_vars PROVE HiddenHasReplay'
  OBVIOUS
<1>1. TypeOK /\ queue \in Seq(Jobs) /\ Len(queue) \in Nat
  BY LenProperties DEF TInv, TypeOK
<1>2. ASSUME UNCHANGED queue, UNCHANGED hidden, status' = "open" => status = "open"
      PROVE  HiddenHasReplay'
  BY <1>2 DEF HiddenHasReplay, ReplayAt
<1>3. ASSUME status' # "open"
      PROVE  HiddenHasReplay'
  BY <1>3 DEF HiddenHasReplay
<1>4. ASSUME NEW job \in Jobs, queue' = Append(queue, job), status' = status,
             hidden' \subseteq hidden \cup {job.rejected}, job.kind = "replay" \/ UNCHANGED hidden
      PROVE  HiddenHasReplay'
  <2>1. /\ Len(queue') = Len(queue) + 1 /\ queue'[Len(queue) + 1] = job
        /\ \A i \in 1..Len(queue) : queue'[i] = queue[i]
    BY <1>1, <1>4, AppendTyped
  <2> SUFFICES ASSUME NEW f \in hidden', status = "open"
               PROVE  \E i \in 1..Len(queue') : ReplayAt(i)' /\ queue'[i].rejected = f
    BY <1>4 DEF HiddenHasReplay
  <2>2. CASE f \in hidden
    <3>1. PICK i \in 1..Len(queue) : ReplayAt(i) /\ queue[i].rejected = f
      BY <2>2 DEF HiddenHasReplay
    <3>2. i \in 1..Len(queue') /\ ReplayAt(i)' /\ queue'[i].rejected = f
      BY <1>1, <2>1, <3>1 DEF ReplayAt
    <3> QED
      BY <3>2
  <2>3. CASE f \notin hidden
    <3>1. Len(queue) + 1 \in 1..Len(queue') /\ f = job.rejected /\ job.kind = "replay"
      BY <1>1, <1>4, <2>1, <2>3
    <3> QED
      BY <2>1, <3>1 DEF ReplayAt
  <2> QED
    BY <2>2, <2>3
<1>5. ASSUME queue # <<>>, Pop, status' = "open" => status = "open",
             hidden' = IF Head1.kind = "replay" THEN hidden \ {Head1.rejected} ELSE hidden
      PROVE  HiddenHasReplay'
  <2>1. /\ Head1 = queue[1] /\ Len(queue) >= 1 /\ Len(queue') = Len(queue) - 1
        /\ \A i \in 1..(Len(queue) - 1) : queue'[i] = queue[i+1]
    BY <1>1, <1>5, HeadTyped DEF Pop, Head1
  <2> SUFFICES ASSUME NEW f \in hidden', status = "open"
               PROVE  \E i \in 1..Len(queue') : ReplayAt(i)' /\ queue'[i].rejected = f
    BY <1>5 DEF HiddenHasReplay
  <2>2. PICK i \in 1..Len(queue) : ReplayAt(i) /\ queue[i].rejected = f
    BY <1>5 DEF HiddenHasReplay
  <2>3. i # 1
    BY <1>5, <2>1, <2>2 DEF ReplayAt
  <2>4. i - 1 \in 1..Len(queue') /\ queue'[i-1] = queue[i]
    BY <1>1, <2>1, <2>3
  <2> QED
    BY <2>2, <2>4 DEF ReplayAt
<1>6. CASE UNCHANGED vars
  BY <1>2, <1>6 DEF vars
<1>7. CASE ClientSend
  <2>1. Send(sent') \in Jobs
    BY <1>1, <1>7, CountsAreNat DEF ClientSend, Send, Jobs, TypeOK, Frames
  <2> QED
    BY <1>4, <1>7, <2>1 DEF ClientSend, Queued, history
<1>8. CASE Forward
  BY <1>5, <1>8 DEF Forward, IsHead, Transmit, Refuse
<1>9. CASE ConnectedSend
  BY <1>5, <1>9 DEF ConnectedSend, IsHead, Transmit, Refuse
<1>10. CASE ConnectedReplay
  <2>1. queue # <<>> /\ Head1.kind = "replay" /\ Pop
    BY <1>10 DEF ConnectedReplay, IsHead
  <2>2. CASE Transmit(Head1.frame, choice) /\ hidden' = hidden \ {Head1.rejected}
    BY <1>5, <2>1, <2>2 DEF Transmit
  <2>3. CASE Refuse
    BY <1>3, <2>3 DEF Refuse
  <2> QED
    BY <1>10, <2>2, <2>3 DEF ConnectedReplay
<1>11. CASE ReplayFails
  BY <1>5, <1>11 DEF ReplayFails
<1>12. ASSUME NEW f \in Frames, RejectHidden(f)
       PROVE  HiddenHasReplay'
  <2>1. PICK q \in Request(f) : Replayable(q) /\ queue' = Append(queue, Replay(q, f))
    BY <1>12 DEF RejectHidden, Queued
  <2>2. Replay(q, f) \in Jobs /\ Replay(q, f).kind = "replay" /\ Replay(q, f).rejected = f
    BY <2>1, FullAreCreates DEF Replay, Jobs, Replayable
  <2>3. hidden' = hidden \cup {f} /\ status' = status
    BY <1>12 DEF RejectHidden
  <2> QED
    BY <1>4, <2>1, <2>2, <2>3
<1>13. CASE Close \/ Drop \/ ConnectedLate \/ SendFails
  BY <1>3, <1>13 DEF Close, Drop, ConnectedLate, SendFails
<1>14. CASE BeginReplace \/ (\E a \in Accounts : Chosen(a))
  BY <1>2, <1>14 DEF BeginReplace, Chosen, history
<1>15. ASSUME NEW f \in Frames,
              Output(f) \/ OutputBinary(f) \/ Finish(f) \/ FinishIncomplete(f) \/ RejectDelivered(f)
       PROVE  HiddenHasReplay'
  BY <1>2, <1>15 DEF Output, OutputBinary, Finish, FinishIncomplete, RejectDelivered, chain
<1>16. ASSUME NEW k \in 1..cur, LateReject(k)
       PROVE  HiddenHasReplay'
  BY <1>2, <1>16 DEF LateReject, chain, history
<1>17. CASE UpstreamClosed \/ Overflow
  <2>1. conns[cur].open /\ cur \in 1..cur
    BY <1>17, ConnsTyped DEF UpstreamClosed, Overflow, TInv, cur
  <2>2. status # "ended"
    BY <2>1 DEF TInv, OneUpstream
  <2> QED
    BY <1>2, <1>17, <2>2 DEF UpstreamClosed, Overflow, chain, history
<1>18. ASSUME NEW a \in Accounts, CooldownEnds(a)
       PROVE  HiddenHasReplay'
  BY <1>2, <1>18 DEF CooldownEnds, chain, history
<1>19. CASE SendThrows
  <2>1. CASE status = "ended"
    BY <1>3, <1>19, <2>1 DEF SendThrows
  <2>2. CASE status # "ended"
    BY <1>2, <1>19, <2>2 DEF SendThrows, history
  <2> QED
    BY <2>1, <2>2
<1>20. CASE IdleReject
  <2>1. CASE UNCHANGED <<queue, hidden>>
    BY <1>2, <1>20, <2>1 DEF IdleReject
  <2>2. ASSUME NEW q \in Only, Replayable(q), queue' = Queued(Replay(q, q)), hidden' = hidden \cup {q}
        PROVE  HiddenHasReplay'
    <3>1. Replay(q, q) \in Jobs /\ Replay(q, q).kind = "replay" /\ Replay(q, q).rejected = q
      BY <2>2, FullAreCreates DEF Replay, Jobs, Replayable
    <3>2. queue' = Append(queue, Replay(q, q)) /\ status' = status
      BY <1>20, <2>2 DEF IdleReject, Queued
    <3> QED
      BY <1>4, <2>2, <3>1, <3>2
  <2> QED
    BY <1>20, <2>1, <2>2 DEF IdleReject
<1>21. QED
  BY <1>6, <1>7, <1>8, <1>9, <1>10, <1>11, <1>12, <1>13, <1>14, <1>15, <1>16, <1>17, <1>18, <1>19, <1>20
     DEF Next, Job, Event

\* A rejection is never kept from the client and forgotten: while the
\* client is open, the job that resolves it is on the chain (receive and replay in
\* account-socket.ts).  The safety half of HiddenIsResolved.
THEOREM SocketHiddenHasReplay == Spec => []HiddenHasReplay
<1>1. Init => HiddenHasReplay
  BY DEF Init, HiddenHasReplay
<1>2. QED
  BY <1>1, TInvStarts, TInvKept, HiddenKept, PTL DEF Spec
=============================================================================
