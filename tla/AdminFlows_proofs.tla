--------------------------- MODULE AdminFlows_proofs ---------------------------
(***************************************************************************)
(* One-use codes and truthful reports of the login flows, for any number   *)
(* of flows and requests and any deadlines.                                *)
(***************************************************************************)
EXTENDS AdminFlows, TLAPS

\* Only device logins that were started run.
JobsStarted == \A f \in Flows : job[f] # "none" => f \in Device /\ f \in started

\* The code of a flow that still accepts or awaits one was never exchanged.
Unexchanged ==
    \A f \in Flows :
        (f \notin started \/ job[f] \in {"poll", "sleep"} \/ f \in flows \cap Pasted)
            => exchanges[f] = 0

\* An outcome that can be reported was stored before.
StoredFirst ==
    /\ \A f \in Flows : status[f] = "completed" => f \in stored
    /\ \A r \in Requests : pc[r] = "ok" => asks[r] \in stored

IInv == TypeOK /\ JobsStarted /\ Unexchanged /\ OneUse /\ StoredFirst

LEMMA InitIInv == Init => IInv
  BY TicksAreNat DEF Init, IInv, TypeOK, TwoOrMore, JobsStarted, Unexchanged,
     OneUse, StoredFirst

\* One exchange of a code that was never exchanged.
LEMMA FirstExchange ==
  ASSUME exchanges \in [Flows -> 0..TwoOrMore], NEW f \in Flows, exchanges[f] = 0, Exchange(f)
  PROVE  /\ exchanges' = [exchanges EXCEPT ![f] = 1]
         /\ exchanges' \in [Flows -> 0..TwoOrMore]
         /\ \A g \in Flows : g # f => exchanges'[g] = exchanges[g]
         /\ OneUse => OneUse'
  BY DEF Exchange, TwoOrMore, OneUse

\* An exchange of flow f leaves the codes of the others alone.
LEMMA OthersUnexchanged ==
  ASSUME Unexchanged, NEW f \in started, flows' \subseteq flows, started' = started,
         f \notin flows' \cap Pasted, job'[f] \notin {"poll", "sleep"},
         \A g \in Flows : g # f => exchanges'[g] = exchanges[g] /\ job'[g] = job[g]
  PROVE  Unexchanged'
  BY DEF Unexchanged, Pasted

\* Only the job of flow f goes on.
LEMMA OtherJobs ==
  ASSUME job \in [Flows -> {"none", "poll", "sleep", "exchange", "add"}],
         NEW f \in Flows, NEW label, Goto(f, label)
  PROVE  job'[f] = label /\ \A g \in Flows : g # f => job'[g] = job[g]
  BY DEF Goto

\* The clocks keep to their bounds.
LEMMA TickTypes ==
  ASSUME TypeOK, JobsStarted, Tick
  PROVE  /\ age' \in [Flows -> 0..(Life + Grace)]
         /\ busy' \in [Flows -> 0..Patience]
<1>1. age \in [Flows -> 0..(Life + Grace)] /\ busy \in [Flows -> 0..Patience]
  BY DEF TypeOK
<1>2. age' \in [Flows -> 0..(Life + Grace)]
  BY <1>1, TicksAreNat DEF Tick
<1>3. \A f \in Flows : Exchanging(f) => busy[f] < Patience
  BY DEF Tick, JobsStarted, Exchanging
<1>4. busy' \in [Flows -> 0..Patience]
  BY <1>1, <1>3, TicksAreNat DEF Tick
<1>5. QED
  BY <1>2, <1>4

LEMMA StepIInv == IInv /\ [Next]_vars => IInv'
<1> SUFFICES ASSUME IInv, [Next]_vars
             PROVE  IInv'
  OBVIOUS
<1> USE TicksAreNat, DeviceFlows DEF IInv, TypeOK, Answers, table, clock, requests,
        JobsStarted, Unexchanged, OneUse, StoredFirst, Pasted, TwoOrMore
<1>1. CASE UNCHANGED vars
  BY <1>1 DEF vars
<1>2. ASSUME NEW f \in Flows, Start(f) \/ Forget(f)
      PROVE  IInv'
  BY <1>2 DEF Start, Forget
<1>3. ASSUME NEW f \in Flows, Pending(f) \/ Wake(f) \/ DeviceExchanged(f)
      PROVE  IInv'
  BY <1>3 DEF Pending, Wake, DeviceExchanged, Goto
<1>4. ASSUME NEW f \in Flows, Approved(f)
      PROVE  IInv'
  <2>1. /\ exchanges' = [exchanges EXCEPT ![f] = 1]
        /\ exchanges' \in [Flows -> 0..TwoOrMore] /\ OneUse'
        /\ \A g \in Flows : g # f => exchanges'[g] = exchanges[g]
    BY <1>4, FirstExchange DEF Approved
  <2>2. f \in started /\ f \in Device /\ f \notin Pasted
    BY <1>4 DEF Approved
  <2>3. QED
    <3>1. /\ job' = [job EXCEPT ![f] = "exchange"]
          /\ UNCHANGED <<flows, started, status, age, busy, pc, asks, stored>>
      BY <1>4 DEF Approved, Goto
    <3>2. TypeOK'
      BY <2>1, <3>1
    <3>3. JobsStarted' /\ StoredFirst'
      BY <2>2, <3>1
    <3>4. job'[f] = "exchange" /\ \A g \in Flows : g # f => job'[g] = job[g]
      BY <1>4, OtherJobs DEF Approved
    <3> HIDE DEF Unexchanged, OneUse, Pasted
    <3>5. /\ flows' \subseteq flows /\ started' = started /\ f \in started
          /\ f \notin flows' \cap Pasted /\ job'[f] \notin {"poll", "sleep"}
          /\ \A g \in Flows : g # f => exchanges'[g] = exchanges[g] /\ job'[g] = job[g]
      BY <2>1, <2>2, <3>1, <3>4
    <3>6. Unexchanged'
      BY <3>5, OthersUnexchanged
    <3>7. QED
      BY <2>1, <3>2, <3>3, <3>6
<1>5. ASSUME NEW f \in Flows, DeviceAdded(f) \/ DeviceFails(f)
      PROVE  IInv'
  <2>1. JobsStarted' /\ Unexchanged' /\ OneUse' /\ StoredFirst'
    BY <1>5 DEF DeviceAdded, DeviceFails, Goto
  <2>2. TypeOK'
    BY <1>5 DEF DeviceAdded, DeviceFails, Goto
  <2>3. QED
    BY <2>1, <2>2
<1>6. ASSUME NEW r \in Requests, NEW f \in Flows, NotFound(r, f) \/ Gone(r, f) \/ BadCode(r, f)
      PROVE  IInv'
  BY <1>6 DEF NotFound, Gone, BadCode, Ask, Answer
<1>7. ASSUME NEW r \in Requests, NEW f \in Flows, Accept(r, f)
      PROVE  IInv'
  <2>1. /\ exchanges' = [exchanges EXCEPT ![f] = 1]
        /\ exchanges' \in [Flows -> 0..TwoOrMore] /\ OneUse'
        /\ \A g \in Flows : g # f => exchanges'[g] = exchanges[g]
    BY <1>7, FirstExchange DEF Accept
  <2>2. f \in started /\ f \notin Device /\ flows' = flows \ {f}
    BY <1>7 DEF Accept
  <2>3. QED
    <3>1. /\ pc' = [pc EXCEPT ![r] = "exchange"]
          /\ asks' = [asks EXCEPT ![r] = f]
          /\ UNCHANGED <<started, status, age, busy, job, stored>>
      BY <1>7 DEF Accept, Ask, Answer
    <3>2. TypeOK'
      BY <2>1, <2>2, <3>1
    <3>3. JobsStarted' /\ StoredFirst'
      BY <3>1
    <3>4. job[f] = "none" /\ f \in started /\ f \notin flows'
      BY <2>2
    <3> HIDE DEF Unexchanged, OneUse, Pasted
    <3>5. Unexchanged'
      BY <2>1, <2>2, <3>1, <3>4, OthersUnexchanged
    <3>6. QED
      BY <2>1, <3>2, <3>3, <3>5
<1>8. ASSUME NEW r \in Requests, Exchanged(r) \/ Added(r) \/ CompleteFails(r) \/ Respond(r)
      PROVE  IInv'
  BY <1>8 DEF Exchanged, Added, CompleteFails, Respond, Answer
<1>9. CASE Tick
  <2>1. age' \in [Flows -> 0..(Life + Grace)] /\ busy' \in [Flows -> 0..Patience]
    BY <1>9, TickTypes
  <2>2. UNCHANGED <<flows, started, status, job, pc, asks, exchanges, stored>>
    BY <1>9 DEF Tick
  <2>3. QED
    BY <2>1, <2>2
<1>10. CASE Restart
  BY <1>10 DEF Restart
<1>11. QED
  BY <1>1, <1>2, <1>3, <1>4, <1>5, <1>6, <1>7, <1>8, <1>9, <1>10 DEF Next, DeviceStep

LEMMA InvariantHolds == Spec => []IInv
  BY InitIInv, StepIInv, PTL DEF Spec

(***************************************************************************)
(* Every variable of the login flows keeps its type (admin.ts).            *)
(***************************************************************************)
THEOREM FlowsTyped == Spec => []TypeOK
<1>1. IInv => TypeOK
  BY DEF IInv
<1>2. QED
  BY <1>1, InvariantHolds, PTL

(***************************************************************************)
(* However often a code is submitted, an exchange fails or the server      *)
(* restarts, it is exchanged at most once (admin.ts, oauth/complete;       *)
(* codex/oauth.ts, finishDeviceLogin).                                     *)
(***************************************************************************)
THEOREM CodesOnce == Spec => []OneUse
<1>1. IInv => OneUse
  BY DEF IInv
<1>2. QED
  BY <1>1, InvariantHolds, PTL

(***************************************************************************)
(* A login is reported as completed, by /complete or by GET, only when its *)
(* account is stored (admin.ts, handle).                                   *)
(***************************************************************************)
THEOREM ReportsTrue == Spec => []CompletedIsStored
<1>1. IInv => CompletedIsStored
  BY DeviceFlows DEF IInv, StoredFirst, CompletedIsStored, Report
<1>2. QED
  BY <1>1, InvariantHolds, PTL

-----------------------------------------------------------------------------
(* Time *)

\* A device login polls until its flow expires and exchanges no longer than
\* Patience after that; its flow is there all the while.
FlowInTime(f) ==
    /\ f \notin started => age[f] = 0
    /\ job[f] # "none" => f \in flows
    /\ job[f] \in {"poll", "sleep"} => age[f] <= Life
    /\ Exchanging(f) => age[f] <= Life + busy[f]

InTime == \A f \in Flows : FlowInTime(f)

LEMMA InitInTime == Init => InTime
  BY DEF Init, InTime, FlowInTime, Exchanging

\* A step of one flow's login does not touch the time of any.
LEMMA LoginInTime ==
  ASSUME TypeOK, InTime, NEW f \in Flows, DeviceStep(f)
  PROVE  InTime'
<1>1. /\ job \in [Flows -> {"none", "poll", "sleep", "exchange", "add"}]
      /\ age \in [Flows -> 0..(Life + Grace)] /\ busy \in [Flows -> 0..Patience]
  BY DEF TypeOK
<1>2. UNCHANGED <<flows, started, age, busy>>
  BY DEF DeviceStep, Pending, Wake, Approved, DeviceExchanged, DeviceAdded, DeviceFails,
     table, clock
<1>3. \/ job[f] \in {"poll", "sleep"} /\ job' = [job EXCEPT ![f] = "poll"]
      \/ job[f] \in {"poll", "sleep"} /\ job' = [job EXCEPT ![f] = "sleep"]
      \/ job[f] \in {"poll", "sleep"} /\ job' = [job EXCEPT ![f] = "exchange"]
      \/ job[f] = "exchange" /\ job' = [job EXCEPT ![f] = "add"]
      \/ job' = [job EXCEPT ![f] = "none"]
  BY DEF DeviceStep, Pending, Wake, Approved, DeviceExchanged, DeviceAdded, DeviceFails,
     Goto
<1>4. age[f] <= Life => age[f] <= Life + busy[f]
  BY <1>1, TicksAreNat
<1>5. ASSUME NEW g \in Flows, g # f
      PROVE  job'[g] = job[g]
  BY <1>1, <1>3, <1>5
<1>6. ASSUME NEW g \in Flows, g # f
      PROVE  FlowInTime(g)'
  <2>1. /\ g \notin started => age[g] = 0
        /\ job[g] # "none" => g \in flows
        /\ job[g] \in {"poll", "sleep"} => age[g] <= Life
        /\ Exchanging(g) => age[g] <= Life + busy[g]
    BY DEF InTime, FlowInTime
  <2>2. Exchanging(g)' = Exchanging(g)
    BY <1>5, <1>6 DEF Exchanging
  <2>3. QED
    BY <1>2, <1>5, <1>6, <2>1, <2>2 DEF FlowInTime
<1>7. FlowInTime(f)'
  <2>1. /\ f \notin started => age[f] = 0
        /\ job[f] # "none" => f \in flows
        /\ job[f] \in {"poll", "sleep"} => age[f] <= Life
        /\ job[f] \in {"exchange", "add"} => age[f] <= Life + busy[f]
    BY DEF InTime, FlowInTime, Exchanging
  <2>2. job[f] # "none"
    BY <1>1 DEF DeviceStep, Pending, Wake, Approved, DeviceExchanged, DeviceAdded, DeviceFails
  <2>3. f \in flows' /\ age'[f] = age[f] /\ busy'[f] = busy[f]
    BY <1>2, <2>1, <2>2
  <2>4. \/ job[f] \in {"poll", "sleep"} /\ job'[f] \in {"poll", "sleep"}
        \/ age[f] <= Life + busy[f] /\ job'[f] \in {"exchange", "add"}
        \/ job'[f] = "none"
    BY <1>1, <1>3, <1>4, <2>1
  <2>5. QED
    BY <1>2, <2>1, <2>3, <2>4 DEF FlowInTime, Exchanging
<1>8. QED
  BY <1>6, <1>7 DEF InTime

LEMMA StepInTime == IInv /\ InTime /\ [Next]_vars => InTime'
<1> SUFFICES ASSUME IInv, InTime, [Next]_vars
             PROVE  InTime'
  OBVIOUS
<1>0. /\ flows \subseteq started
      /\ job \in [Flows -> {"none", "poll", "sleep", "exchange", "add"}]
      /\ age \in [Flows -> 0..(Life + Grace)] /\ busy \in [Flows -> 0..Patience]
      /\ JobsStarted /\ TypeOK
  BY DEF IInv, TypeOK
<1>1. CASE UNCHANGED vars
  BY <1>1 DEF vars, table, clock, InTime, FlowInTime, Exchanging
<1>2. ASSUME NEW f \in Flows, Start(f)
      PROVE  InTime'
  <2>1. age[f] <= Life
    BY <1>2, TicksAreNat DEF Start, InTime, FlowInTime
  <2>2. QED
    BY <1>0, <1>2, <2>1 DEF Start, InTime, FlowInTime, Exchanging, clock
<1>3. ASSUME NEW f \in Flows, Forget(f)
      PROVE  InTime'
  <2>1. age[f] > Life + busy[f] /\ age[f] > Life
    BY <1>0, <1>3, TicksAreNat, GraceSuffices DEF Forget
  <2>2. job[f] = "none"
    BY <1>0, <2>1, TicksAreNat DEF InTime, FlowInTime, Exchanging
  <2>3. QED
    BY <1>3, <2>2 DEF Forget, InTime, FlowInTime, Exchanging, clock
<1>4. ASSUME NEW f \in Flows, DeviceStep(f)
      PROVE  InTime'
  BY <1>0, <1>4, LoginInTime
<1>5. ASSUME NEW r \in Requests, NEW f \in Flows,
             NotFound(r, f) \/ Gone(r, f) \/ BadCode(r, f) \/ Accept(r, f)
      PROVE  InTime'
  <2>1. /\ flows' = flows \/ (flows' = flows \ {f} /\ f \notin Device)
        /\ UNCHANGED <<started, job, age, busy>>
    BY <1>5 DEF NotFound, Gone, BadCode, Accept, Pasted, table, clock
  <2>2. f \notin Device => job[f] = "none"
    BY <1>0 DEF JobsStarted
  <2>3. QED
    BY <2>1, <2>2 DEF InTime, FlowInTime, Exchanging
<1>6. ASSUME NEW r \in Requests,
             Exchanged(r) \/ Added(r) \/ CompleteFails(r) \/ Respond(r)
      PROVE  InTime'
  BY <1>6 DEF Exchanged, Added, CompleteFails, Respond, InTime, FlowInTime, Exchanging,
     table, clock
<1>7. CASE Tick
  <2>1. ASSUME NEW f \in Flows
        PROVE  FlowInTime(f)'
    <3>1. job' = job /\ flows' = flows /\ started' = started
      BY <1>7 DEF Tick, table
    <3>2. age'[f] \in {age[f], age[f] + 1}
      BY <1>7 DEF Tick
    <3>3. busy'[f] = IF Exchanging(f) THEN busy[f] + 1 ELSE 0
      BY <1>7 DEF Tick
    <3>4. job[f] \in {"poll", "sleep"} => age[f] < Life
      BY <1>0, <1>7, TicksAreNat DEF Tick, JobsStarted, Expired
    <3>5. age[f] \in Nat /\ busy[f] \in Nat
      BY <1>0, TicksAreNat
    <3>6. Exchanging(f) => age[f] <= Life + busy[f]
      BY DEF InTime, FlowInTime
    <3>7. Exchanging(f)' = Exchanging(f)
      BY <3>1 DEF Exchanging
    <3>8. job[f] # "none" => f \in flows
      BY DEF InTime, FlowInTime
    <3>9. Exchanging(f) => age'[f] <= Life + busy'[f]
      BY <3>2, <3>3, <3>5, <3>6, TicksAreNat
    <3>10. job[f] \in {"poll", "sleep"} => age'[f] <= Life
      BY <3>2, <3>4, <3>5, TicksAreNat
    <3>11. f \notin started => age'[f] = 0
      BY <1>7 DEF Tick, InTime, FlowInTime
    <3>12. QED
      BY <3>1, <3>7, <3>8, <3>9, <3>10, <3>11 DEF FlowInTime
  <2>2. QED
    BY <2>1 DEF InTime
<1>8. CASE Restart
  <2>1. /\ job' = [f \in Flows |-> "none"]
        /\ UNCHANGED <<started, age, busy>>
    BY <1>8 DEF Restart, clock
  <2>2. QED
    BY <2>1 DEF InTime, FlowInTime, Exchanging
<1>9. QED
  BY <1>1, <1>2, <1>3, <1>4, <1>5, <1>6, <1>7, <1>8 DEF Next

(***************************************************************************)
(* Whatever the lifetimes, as long as the grace exceeds the time that an   *)
(* exchange and an add() may take: a device login that still runs can be   *)
(* read with GET (admin.ts, save and handle).                              *)
(***************************************************************************)
THEOREM OutcomesReadable == Spec => []OutcomeReadable
<1>1. InTime => OutcomeReadable
  BY DeviceFlows DEF InTime, FlowInTime, OutcomeReadable
<1>2. Spec => []InTime
  BY InitInTime, StepInTime, InvariantHolds, PTL DEF Spec
<1>3. QED
  BY <1>1, <1>2, PTL
=============================================================================
