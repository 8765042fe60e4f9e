---------------------------- MODULE Failover_proofs ----------------------------
(***************************************************************************)
(* Session bindings and failover, for any number of turns, sessions and    *)
(* accounts.  The promises of SessionBindings implement a queue: that is   *)
(* Queued, and what a selection has read stays true because only the head  *)
(* of the queue touches the binding.                                       *)
(***************************************************************************)
EXTENDS Failover, TLAPS

\* The selections of key k wait for each other in the order of q.
Chain(k, q) ==
    /\ \A t \in Turns : KeyOf[t] = k /\ stage[t] # "out" <=> \E i \in 1..Len(q) : q[i] = t
    /\ \A i, j \in 1..Len(q) : q[i] = q[j] => i = j
    /\ \A i \in 1..Len(q) : after[q[i]] = IF i = 1 THEN Nothing ELSE q[i-1]
    /\ pending[k] = IF Len(q) = 0 THEN Nothing ELSE q[Len(q)]

Queued == \A k \in Keys : \E q \in Seq(Turns) : Chain(k, q)

\* A selection past its wait knows the binding of its key.
Staged(t) ==
    /\ stage[t] \in {"choosing", "writing"} => after[t] = Nothing
    /\ stage[t] = "choosing" => preferred[t] = memory[KeyOf[t]]
    /\ stage[t] = "writing" => selected[t] = memory[KeyOf[t]] /\ selected[t] # Nothing

BInv ==
    /\ BindingsTypeOK
    /\ Queued
    /\ \A t \in Turns : Staged(t)
    /\ BindingDurable

\* What the turns do to the bindings.
BStep ==
    \/ \E t \in Turns : stage[t] = "out" /\ Select(t)
    \/ \E t \in Turns : Read(t) \/ ReadFails(t) \/ NotChosen(t) \/ Written(t) \/ WriteFails(t)
    \/ \E t \in Turns, a \in Accounts : Chosen(t, a)
    \/ Restart
    \/ UNCHANGED bindings

-----------------------------------------------------------------------------
(* The queue *)

LEMMA HeadUnique ==
    ASSUME Queued, NEW t \in Turns, NEW u \in Turns, KeyOf[t] = KeyOf[u],
           stage[t] # "out", stage[u] # "out", after[t] = Nothing, after[u] = Nothing
    PROVE  t = u
<1>1. PICK q \in Seq(Turns) : Chain(KeyOf[t], q)
  BY TurnsHaveKeys DEF Queued
<1>2. PICK i \in 1..Len(q) : q[i] = t
  BY <1>1 DEF Chain
<1>3. PICK j \in 1..Len(q) : q[j] = u
  BY <1>1 DEF Chain
<1>4. ASSUME NEW n \in 1..Len(q), n # 1 PROVE after[q[n]] \in Turns
  <2>1. n - 1 \in 1..Len(q)
    BY <1>4
  <2>2. q[n-1] \in Turns
    BY <2>1
  <2> QED
    BY <1>1, <1>4, <2>2 DEF Chain
<1> QED
  BY <1>2, <1>3, <1>4, NothingOutside

LEMMA KeepQueue ==
    ASSUME Queued, UNCHANGED promises,
           \A t \in Turns : stage'[t] = "out" <=> stage[t] = "out"
    PROVE  Queued'
<1> SUFFICES ASSUME NEW k \in Keys PROVE \E q \in Seq(Turns) : Chain(k, q)'
  BY DEF Queued
<1>1. PICK q \in Seq(Turns) : Chain(k, q)
  BY DEF Queued
<1>2. Chain(k, q)'
  BY <1>1 DEF Chain, promises
<1> QED
  BY <1>2

LEMMA SelectQueue ==
    ASSUME BindingsTypeOK, Queued, NEW t \in Turns, stage[t] = "out", Select(t)
    PROVE  Queued'
<1> SUFFICES ASSUME NEW k \in Keys PROVE \E q \in Seq(Turns) : Chain(k, q)'
  BY DEF Queued
<1>1. PICK q \in Seq(Turns) : Chain(k, q)
  BY DEF Queued
<1>2. KeyOf[t] \in Keys
  BY TurnsHaveKeys
<1>3. /\ \A u \in Turns : stage'[u] = IF u = t THEN "queued" ELSE stage[u]
      /\ \A u \in Turns : after'[u] = IF u = t THEN pending[KeyOf[t]] ELSE after[u]
      /\ pending'[k] = IF k = KeyOf[t] THEN t ELSE pending[k]
  BY <1>2 DEF Select, BindingsTypeOK
<1>4. \A i \in 1..Len(q) : q[i] \in Turns /\ q[i] # t
  BY <1>1 DEF Chain
<1>5. CASE k # KeyOf[t]
  <2>1. \A u \in Turns : KeyOf[u] = k => u # t
    BY <1>5
  <2>2. Chain(k, q)'
    BY <1>1, <1>3, <1>4, <1>5, <2>1 DEF Chain
  <2> QED
    BY <2>2
<1>6. CASE k = KeyOf[t]
  <2>1. PICK r : r = Append(q, t)
    OBVIOUS
  <2>2. /\ r \in Seq(Turns) /\ Len(r) = Len(q) + 1 /\ Len(q) \in Nat
        /\ \A i \in 1..Len(q) : r[i] = q[i]
        /\ r[Len(q)+1] = t
    BY <2>1
  <2>3. ASSUME NEW u \in Turns
        PROVE  KeyOf[u] = k /\ stage'[u] # "out" <=> \E i \in 1..Len(r) : r[i] = u
    <3>1. CASE u = t
      BY <1>3, <1>6, <2>2, <3>1
    <3>2. CASE u # t
      <4>1. (\E i \in 1..Len(r) : r[i] = u) <=> \E i \in 1..Len(q) : q[i] = u
        BY <2>2, <3>2
      <4> QED
        BY <1>1, <1>3, <3>2, <4>1 DEF Chain
    <3> QED
      BY <3>1, <3>2
  <2>4. ASSUME NEW i \in 1..Len(r), NEW j \in 1..Len(r), r[i] = r[j] PROVE i = j
    <3>1. i \in 1..Len(q) \/ i = Len(q) + 1
      BY <2>2
    <3>2. j \in 1..Len(q) \/ j = Len(q) + 1
      BY <2>2
    <3> QED
      BY <1>1, <1>4, <2>2, <2>4, <3>1, <3>2 DEF Chain
  <2>5. ASSUME NEW i \in 1..Len(r) PROVE after'[r[i]] = IF i = 1 THEN Nothing ELSE r[i-1]
    <3>1. CASE i \in 1..Len(q)
      <4>1. after'[r[i]] = after[q[i]]
        BY <1>3, <1>4, <2>2, <3>1
      <4>2. i # 1 => r[i-1] = q[i-1]
        <5>1. i # 1 => i - 1 \in 1..Len(q)
          BY <3>1
        <5> QED
          BY <2>2, <5>1
      <4> QED
        BY <1>1, <3>1, <4>1, <4>2 DEF Chain
    <3>2. CASE i = Len(q) + 1
      <4>1. after'[r[i]] = pending[k]
        BY <1>3, <1>6, <2>2, <3>2
      <4>2. Len(q) # 0 => Len(q) \in 1..Len(q)
        BY <2>2
      <4>3. Len(q) # 0 => r[i-1] = q[Len(q)]
        BY <2>2, <3>2, <4>2
      <4> QED
        BY <1>1, <2>2, <3>2, <4>1, <4>3 DEF Chain
    <3> QED
      BY <2>2, <3>1, <3>2
  <2>6. pending'[k] = r[Len(r)] /\ Len(r) # 0
    BY <1>3, <1>6, <2>2
  <2>7. Chain(k, r)'
    BY <2>3, <2>4, <2>5, <2>6 DEF Chain
  <2> QED
    BY <2>2, <2>7
<1> QED
  BY <1>5, <1>6

LEMMA SettleQueue ==
    ASSUME BindingsTypeOK, Queued, NEW t \in Turns, NEW result,
           stage[t] # "out", after[t] = Nothing, Settle(t, result)
    PROVE  Queued'
<1> SUFFICES ASSUME NEW k \in Keys PROVE \E q \in Seq(Turns) : Chain(k, q)'
  BY DEF Queued
<1>1. PICK q \in Seq(Turns) : Chain(k, q)
  BY DEF Queued
<1>2. /\ \A u \in Turns : stage'[u] = IF u = t THEN "out" ELSE stage[u]
      /\ \A u \in Turns : after'[u] = IF after[u] = t THEN Nothing ELSE after[u]
      /\ pending'[k] = IF pending[k] = t THEN Nothing ELSE pending[k]
  BY DEF Settle, BindingsTypeOK, Removed
<1>3. \A i \in 1..Len(q) : q[i] \in Turns
  OBVIOUS
<1>4. t # Nothing
  BY NothingOutside
<1>5. CASE k # KeyOf[t]
  <2>1. \A i \in 1..Len(q) : q[i] # t
    BY <1>1, <1>3, <1>5 DEF Chain
  <2>2. ASSUME NEW i \in 1..Len(q) PROVE after'[q[i]] = IF i = 1 THEN Nothing ELSE q[i-1]
    <3>1. i # 1 => q[i-1] # t
      <4>1. i # 1 => i - 1 \in 1..Len(q)
        OBVIOUS
      <4> QED
        BY <2>1, <4>1
    <3> QED
      BY <1>1, <1>2, <1>3, <1>4, <3>1 DEF Chain
  <2>3. pending'[k] = pending[k]
    <3>1. Len(q) # 0 => Len(q) \in 1..Len(q)
      OBVIOUS
    <3> QED
      BY <1>1, <1>2, <1>4, <2>1, <3>1 DEF Chain
  <2>4. \A u \in Turns : KeyOf[u] = k => stage'[u] = stage[u]
    BY <1>2, <1>5
  <2>5. Chain(k, q)'
    BY <1>1, <2>2, <2>3, <2>4 DEF Chain
  <2> QED
    BY <2>5
<1>6. CASE k = KeyOf[t]
  <2>0. Len(q) \in Nat
    OBVIOUS
  <2>1. Len(q) # 0 /\ q[1] = t
    <3>1. PICK i \in 1..Len(q) : q[i] = t
      BY <1>1, <1>6 DEF Chain
    <3>2. i # 1 => after[t] \in Turns
      <4>1. i # 1 => i - 1 \in 1..Len(q)
        OBVIOUS
      <4> QED
        BY <1>1, <1>3, <3>1, <4>1 DEF Chain
    <3> QED
      BY <3>1, <3>2, NothingOutside
  <2>2. PICK r : r = Tail(q)
    OBVIOUS
  <2>3. /\ r \in Seq(Turns) /\ Len(r) = Len(q) - 1
        /\ \A i \in 1..Len(r) : i + 1 \in 1..Len(q) /\ r[i] = q[i+1]
    BY <2>0, <2>1, <2>2
  <2>4. \A i \in 1..Len(q) : q[i] = t <=> i = 1
    BY <1>1, <2>0, <2>1 DEF Chain
  <2>5. ASSUME NEW u \in Turns
        PROVE  KeyOf[u] = k /\ stage'[u] # "out" <=> \E i \in 1..Len(r) : r[i] = u
    <3>1. (\E i \in 1..Len(r) : r[i] = u) => u # t /\ \E i \in 1..Len(q) : q[i] = u
      BY <2>3, <2>4
    <3>2. u # t /\ (\E i \in 1..Len(q) : q[i] = u) => \E i \in 1..Len(r) : r[i] = u
      <4> SUFFICES ASSUME u # t, NEW i \in 1..Len(q), q[i] = u PROVE \E j \in 1..Len(r) : r[j] = u
        OBVIOUS
      <4>1. i - 1 \in 1..Len(r) /\ (i - 1) + 1 = i
        BY <2>0, <2>3, <2>4
      <4>2. r[i-1] = u
        BY <2>3, <4>1
      <4> QED
        BY <4>1, <4>2
    <3> QED
      BY <1>1, <1>2, <3>1, <3>2 DEF Chain
  <2>6. ASSUME NEW i \in 1..Len(r), NEW j \in 1..Len(r), r[i] = r[j] PROVE i = j
    <3>1. i + 1 = j + 1
      BY <1>1, <2>3, <2>6 DEF Chain
    <3> QED
      BY <3>1
  <2>7. ASSUME NEW i \in 1..Len(r) PROVE after'[r[i]] = IF i = 1 THEN Nothing ELSE r[i-1]
    <3>1. after[r[i]] = q[i] /\ r[i] \in Turns
      <4>1. i + 1 \in 1..Len(q) /\ i + 1 # 1 /\ (i + 1) - 1 = i /\ r[i] = q[i+1]
        BY <2>3
      <4> QED
        BY <1>1, <1>3, <4>1 DEF Chain
    <3>2. CASE i = 1
      BY <1>2, <2>1, <3>1, <3>2
    <3>3. CASE i # 1
      <4>1. i \in 1..Len(q) /\ q[i] # t
        BY <2>3, <2>4, <3>3
      <4>2. i - 1 \in 1..Len(r) /\ (i - 1) + 1 = i
        BY <3>3
      <4>3. r[i-1] = q[i]
        BY <2>3, <4>2
      <4> QED
        BY <1>2, <3>1, <3>3, <4>1, <4>3
    <3> QED
      BY <3>2, <3>3
  <2>8. pending'[k] = IF Len(r) = 0 THEN Nothing ELSE r[Len(r)]
    <3>1. pending[k] = q[Len(q)]
      BY <1>1, <2>1 DEF Chain
    <3>2. CASE Len(q) = 1
      BY <1>2, <2>1, <2>3, <3>1, <3>2
    <3>3. CASE Len(q) # 1
      <4>1. Len(r) \in 1..Len(r) /\ Len(r) + 1 = Len(q) /\ Len(q) \in 1..Len(q)
        BY <2>0, <2>1, <2>3, <3>3
      <4>2. r[Len(r)] = q[Len(q)] /\ q[Len(q)] # t
        BY <2>3, <2>4, <3>3, <4>1
      <4> QED
        BY <1>2, <3>1, <4>1, <4>2
    <3> QED
      BY <3>2, <3>3
  <2>9. Chain(k, r)'
    BY <2>5, <2>6, <2>7, <2>8 DEF Chain
  <2> QED
    BY <2>3, <2>9
<1> QED
  BY <1>5, <1>6

-----------------------------------------------------------------------------
(* The binding *)

\* A selection whose promise settles leaves what the others know.
LEMMA SettleStaged ==
    ASSUME BindingsTypeOK, \A u \in Turns : Staged(u),
           NEW t \in Turns, NEW result \in MaybeAccount, Settle(t, result), UNCHANGED memory
    PROVE  /\ \A u \in Turns : Staged(u)'
           /\ pending' \in [Keys -> Turns \cup {Nothing}]
           /\ after' \in [Turns -> Turns \cup {Nothing}]
           /\ stage' \in [Turns -> Stages]
           /\ preferred' \in [Turns -> MaybeAccount]
           /\ selected' \in [Turns -> MaybeAccount]
           /\ stage'[t] = "out"
           /\ \A u \in Turns : u # t => stage'[u] = stage[u] /\ selected'[u] = selected[u]
<1>1. /\ stage' = [stage EXCEPT ![t] = "out"]
      /\ preferred' = [preferred EXCEPT ![t] = Nothing]
      /\ selected' = [selected EXCEPT ![t] = result]
      /\ after' = [u \in Turns |-> IF after[u] = t THEN Nothing ELSE after[u]]
      /\ pending' = [k \in Keys |-> IF pending[k] = t THEN Nothing ELSE pending[k]]
  BY DEF Settle, Removed
<1>2. /\ pending' \in [Keys -> Turns \cup {Nothing}]
      /\ after' \in [Turns -> Turns \cup {Nothing}]
  BY <1>1 DEF BindingsTypeOK
<1>3. /\ stage' \in [Turns -> Stages]
      /\ preferred' \in [Turns -> MaybeAccount]
      /\ selected' \in [Turns -> MaybeAccount]
  BY <1>1 DEF BindingsTypeOK, Stages, MaybeAccount
<1>4. ASSUME NEW u \in Turns PROVE Staged(u)'
  <2>1. CASE u = t
    BY <1>1, <2>1 DEF BindingsTypeOK, Staged
  <2>2. CASE u # t
    BY <1>1, <2>2 DEF BindingsTypeOK, Staged
  <2> QED
    BY <2>1, <2>2
<1>5. /\ stage'[t] = "out"
      /\ \A u \in Turns : u # t => stage'[u] = stage[u] /\ selected'[u] = selected[u]
  BY <1>1 DEF BindingsTypeOK
<1> QED
  BY <1>2, <1>3, <1>4, <1>5

LEMMA SelectInv ==
    ASSUME BInv, NEW t \in Turns, stage[t] = "out", Select(t) PROVE BInv'
<1>1. /\ stage' = [stage EXCEPT ![t] = "queued"]
      /\ after' = [after EXCEPT ![t] = pending[KeyOf[t]]]
      /\ pending' = [pending EXCEPT ![KeyOf[t]] = t]
      /\ selected' = [selected EXCEPT ![t] = Nothing]
      /\ UNCHANGED <<memory, disk, preferred, unsaved>>
  BY DEF Select
<1>2. BindingsTypeOK'
  BY <1>1, TurnsHaveKeys DEF BInv, BindingsTypeOK, Stages, MaybeAccount
<1>3. Queued'
  BY SelectQueue DEF BInv
<1>4. ASSUME NEW u \in Turns PROVE Staged(u)'
  <2>1. CASE u = t
    BY <1>1, <2>1 DEF BInv, BindingsTypeOK, Staged
  <2>2. CASE u # t
    BY <1>1, <2>2 DEF BInv, BindingsTypeOK, Staged
  <2> QED
    BY <2>1, <2>2
<1>5. BindingDurable'
  <2>1. \A u \in Turns : stage[u] = "writing" => stage'[u] = "writing" /\ selected'[u] = selected[u]
    BY <1>1 DEF BInv, BindingsTypeOK
  <2> QED
    BY <1>1, <2>1 DEF BInv, BindingDurable
<1> QED
  BY <1>2, <1>3, <1>4, <1>5 DEF BInv

LEMMA ReadInv ==
    ASSUME BInv, NEW t \in Turns, Read(t) PROVE BInv'
<1>0. PICK k \in Keys : k = KeyOf[t]
  BY TurnsHaveKeys
<1>1. PICK found \in MaybeAccount : found = IF memory[k] # Nothing THEN memory[k] ELSE disk[k]
  BY DEF BInv, BindingsTypeOK
<1>2. /\ stage[t] = "queued" /\ after[t] = Nothing
      /\ preferred' = [preferred EXCEPT ![t] = found]
      /\ memory' = [memory EXCEPT ![k] = found]
      /\ stage' = [stage EXCEPT ![t] = "choosing"]
      /\ UNCHANGED <<disk, promises, selected, unsaved>>
  BY <1>0, <1>1 DEF Read
<1>3. BindingsTypeOK'
  BY <1>2 DEF BInv, BindingsTypeOK, Stages, promises
<1>4. Queued'
  <2>1. \A u \in Turns : stage'[u] = "out" <=> stage[u] = "out"
    BY <1>2 DEF BInv, BindingsTypeOK
  <2> QED
    BY <1>2, <2>1, KeepQueue DEF BInv
<1>5. ASSUME NEW u \in Turns PROVE Staged(u)'
  <2>1. CASE u = t
    BY <1>0, <1>2, <2>1 DEF BInv, BindingsTypeOK, Staged, promises
  <2>2. CASE u # t
    <3>1. stage[u] \in {"choosing", "writing"} => KeyOf[u] # k
      BY <1>0, <1>2, <2>2, HeadUnique DEF BInv, Staged
    <3>2. stage'[u] = stage[u] /\ preferred'[u] = preferred[u]
      BY <1>2, <2>2 DEF BInv, BindingsTypeOK
    <3>3. KeyOf[u] # k => memory'[KeyOf[u]] = memory[KeyOf[u]]
      BY <1>2, TurnsHaveKeys DEF BInv, BindingsTypeOK
    <3> QED
      BY <1>2, <3>1, <3>2, <3>3 DEF BInv, Staged, promises
  <2> QED
    BY <2>1, <2>2
<1>6. BindingDurable'
  <2> SUFFICES ASSUME NEW l \in Keys, memory'[l] \notin {Nothing, disk[l]}, l \notin unsaved
               PROVE  \E u \in Turns : KeyOf[u] = l /\ stage'[u] = "writing" /\ selected[u] = memory'[l]
    BY <1>2 DEF BindingDurable
  <2>1. memory'[l] = memory[l]
    BY <1>1, <1>2 DEF BInv, BindingsTypeOK
  <2>2. PICK u \in Turns : KeyOf[u] = l /\ stage[u] = "writing" /\ selected[u] = memory[l]
    BY <2>1 DEF BInv, BindingDurable
  <2>3. stage'[u] = "writing"
    BY <1>2, <2>2 DEF BInv, BindingsTypeOK
  <2> QED
    BY <2>1, <2>2, <2>3
<1> QED
  BY <1>3, <1>4, <1>5, <1>6 DEF BInv

\* A selection that settles without a new binding.
LEMMA SettleInv ==
    ASSUME BInv, NEW t \in Turns, NEW result \in MaybeAccount, Settle(t, result),
           stage[t] \in {"queued", "choosing"}, after[t] = Nothing,
           UNCHANGED <<memory, disk, unsaved>>
    PROVE  BInv'
<1>1. Queued'
  BY SettleQueue DEF BInv
<1>2. \A u \in Turns : Staged(u)'
  BY SettleStaged DEF BInv
<1>3. BindingsTypeOK'
  <2>1. /\ pending' \in [Keys -> Turns \cup {Nothing}]
        /\ after' \in [Turns -> Turns \cup {Nothing}]
        /\ stage' \in [Turns -> Stages]
        /\ preferred' \in [Turns -> MaybeAccount]
        /\ selected' \in [Turns -> MaybeAccount]
    BY SettleStaged DEF BInv
  <2> QED
    BY <2>1 DEF BInv, BindingsTypeOK
<1>4. BindingDurable'
  <2>1. \A u \in Turns : u # t => stage'[u] = stage[u] /\ selected'[u] = selected[u]
    BY SettleStaged DEF BInv
  <2>2. \A u \in Turns : stage[u] = "writing" => stage'[u] = "writing" /\ selected'[u] = selected[u]
    BY <2>1
  <2> QED
    BY <2>2 DEF BInv, BindingDurable
<1> QED
  BY <1>1, <1>2, <1>3, <1>4 DEF BInv

LEMMA SaveInv ==
    ASSUME BInv, NEW t \in Turns, Written(t) \/ WriteFails(t) PROVE BInv'
<1>0. PICK k \in Keys : k = KeyOf[t]
  BY TurnsHaveKeys
<1>1. /\ stage[t] = "writing" /\ after[t] = Nothing
      /\ selected[t] = memory[k] /\ selected[t] \in Accounts
      /\ Settle(t, selected[t])
      /\ UNCHANGED memory
  BY <1>0 DEF Written, WriteFails, BInv, Staged, BindingsTypeOK, MaybeAccount
<1>2. \/ disk' = [disk EXCEPT ![k] = selected[t]] /\ unsaved' = unsaved \ {k}
      \/ disk' \in {disk, [disk EXCEPT ![k] = selected[t]]} /\ unsaved' = unsaved \cup {k}
  BY <1>0 DEF Written, WriteFails, Record
<1>3. selected[t] \in MaybeAccount
  BY <1>1 DEF MaybeAccount
<1>4. Queued'
  BY <1>1, SettleQueue DEF BInv
<1>5. /\ \A u \in Turns : Staged(u)'
      /\ pending' \in [Keys -> Turns \cup {Nothing}]
      /\ after' \in [Turns -> Turns \cup {Nothing}]
      /\ stage' \in [Turns -> Stages]
      /\ preferred' \in [Turns -> MaybeAccount]
      /\ selected' \in [Turns -> MaybeAccount]
      /\ \A u \in Turns : u # t => stage'[u] = stage[u] /\ selected'[u] = selected[u]
  BY <1>1, <1>3, SettleStaged DEF BInv
<1>6. BindingsTypeOK'
  <2>1. disk' \in [Keys -> MaybeAccount] /\ unsaved' \subseteq Keys
    BY <1>2, <1>3 DEF BInv, BindingsTypeOK
  <2> QED
    BY <1>1, <1>5, <2>1 DEF BInv, BindingsTypeOK
<1>7. BindingDurable'
  <2> SUFFICES ASSUME NEW l \in Keys, memory[l] \notin {Nothing, disk'[l]}, l \notin unsaved'
               PROVE  \E u \in Turns : KeyOf[u] = l /\ stage'[u] = "writing" /\ selected'[u] = memory[l]
    BY <1>1 DEF BindingDurable
  <2>1. l # k
    BY <1>1, <1>2 DEF BInv, BindingsTypeOK
  <2>2. disk'[l] = disk[l] /\ l \notin unsaved
    BY <1>2, <2>1 DEF BInv, BindingsTypeOK
  <2>3. PICK u \in Turns : KeyOf[u] = l /\ stage[u] = "writing" /\ selected[u] = memory[l]
    BY <2>2 DEF BInv, BindingDurable
  <2> QED
    BY <1>0, <1>5, <2>1, <2>3
<1> QED
  BY <1>4, <1>5, <1>6, <1>7 DEF BInv

LEMMA ChosenInv ==
    ASSUME BInv, NEW t \in Turns, NEW a \in Accounts, Chosen(t, a) PROVE BInv'
<1>0. PICK k \in Keys : k = KeyOf[t]
  BY TurnsHaveKeys
<1>1. stage[t] = "choosing" /\ after[t] = Nothing
  BY DEF Chosen, BInv, Staged
<1>2. CASE a = preferred[t]
  <2>1. Settle(t, a) /\ UNCHANGED <<memory, disk, unsaved>>
    BY <1>2 DEF Chosen
  <2>2. a \in MaybeAccount
    BY DEF MaybeAccount
  <2> QED
    BY <1>1, <2>1, <2>2, SettleInv
<1>3. CASE a # preferred[t]
  <2>1. /\ memory' = [memory EXCEPT ![k] = a]
        /\ selected' = [selected EXCEPT ![t] = a]
        /\ stage' = [stage EXCEPT ![t] = "writing"]
        /\ UNCHANGED <<disk, promises, preferred, unsaved>>
    BY <1>0, <1>3 DEF Chosen
  <2>2. BindingsTypeOK'
    BY <2>1 DEF BInv, BindingsTypeOK, Stages, MaybeAccount, promises
  <2>3. Queued'
    <3>1. \A u \in Turns : stage'[u] = "out" <=> stage[u] = "out"
      BY <1>1, <2>1 DEF BInv, BindingsTypeOK
    <3> QED
      BY <2>1, <3>1, KeepQueue DEF BInv
  <2>4. ASSUME NEW u \in Turns PROVE Staged(u)'
    <3>1. CASE u = t
      BY <1>0, <1>1, <2>1, <3>1, NothingOutside DEF BInv, BindingsTypeOK, Staged, promises
    <3>2. CASE u # t
      <4>1. stage[u] \in {"choosing", "writing"} => KeyOf[u] # k
        BY <1>0, <1>1, <3>2, HeadUnique DEF BInv, Staged
      <4>2. stage'[u] = stage[u] /\ selected'[u] = selected[u]
        BY <2>1, <3>2 DEF BInv, BindingsTypeOK
      <4>3. KeyOf[u] # k => memory'[KeyOf[u]] = memory[KeyOf[u]]
        BY <2>1, TurnsHaveKeys DEF BInv, BindingsTypeOK
      <4> QED
        BY <2>1, <4>1, <4>2, <4>3 DEF BInv, Staged, promises
    <3> QED
      BY <3>1, <3>2
  <2>5. BindingDurable'
    <3> SUFFICES ASSUME NEW l \in Keys, memory'[l] \notin {Nothing, disk[l]}, l \notin unsaved
                 PROVE  \E u \in Turns : KeyOf[u] = l /\ stage'[u] = "writing" /\ selected'[u] = memory'[l]
      BY <2>1 DEF BindingDurable
    <3>1. CASE l = k
      <4>1. stage'[t] = "writing" /\ selected'[t] = memory'[k]
        BY <2>1 DEF BInv, BindingsTypeOK
      <4> QED
        BY <1>0, <3>1, <4>1
    <3>2. CASE l # k
      <4>1. memory'[l] = memory[l]
        BY <2>1, <3>2 DEF BInv, BindingsTypeOK
      <4>2. PICK u \in Turns : KeyOf[u] = l /\ stage[u] = "writing" /\ selected[u] = memory[l]
        BY <4>1 DEF BInv, BindingDurable
      <4>3. stage'[u] = "writing" /\ selected'[u] = selected[u]
        BY <1>1, <2>1, <4>2 DEF BInv, BindingsTypeOK
      <4> QED
        BY <4>1, <4>2, <4>3
    <3> QED
      BY <3>1, <3>2
  <2> QED
    BY <2>2, <2>3, <2>4, <2>5 DEF BInv
<1> QED
  BY <1>2, <1>3

\* No promise, no selection.
LEMMA EmptyQueue ==
    ASSUME \A t \in Turns : stage[t] = "out", \A k \in Keys : pending[k] = Nothing
    PROVE  Queued
<1> SUFFICES ASSUME NEW k \in Keys PROVE \E q \in Seq(Turns) : Chain(k, q)
  BY DEF Queued
<1>1. PICK q : q = <<>>
  OBVIOUS
<1>2. q \in Seq(Turns) /\ Len(q) = 0
  BY <1>1
<1>3. Chain(k, q)
  BY <1>2 DEF Chain
<1> QED
  BY <1>2, <1>3

LEMMA RestartInv == ASSUME BInv, Restart PROVE BInv'
<1>1. BindingsTypeOK'
  BY DEF BInv, BindingsTypeOK, Restart, Stages, MaybeAccount
<1>2. \A t \in Turns : stage'[t] = "out"
  BY DEF Restart
<1>3. Queued'
  <2>1. \A k \in Keys : pending'[k] = Nothing
    BY DEF Restart
  <2>2. (\A t \in Turns : stage[t] = "out")' /\ (\A k \in Keys : pending[k] = Nothing)'
    BY <1>2, <2>1
  <2>3. ((\A t \in Turns : stage[t] = "out") /\ (\A k \in Keys : pending[k] = Nothing) => Queued)'
    BY EmptyQueue, PTL
  <2> QED
    BY <2>2, <2>3
<1>4. \A t \in Turns : Staged(t)'
  BY <1>2 DEF Staged
<1>5. BindingDurable'
  BY DEF Restart, BindingDurable
<1> QED
  BY <1>1, <1>3, <1>4, <1>5 DEF BInv

LEMMA BStepInv == ASSUME BInv, BStep PROVE BInv'
<1>1. ASSUME NEW t \in Turns, stage[t] = "out" /\ Select(t) PROVE BInv'
  BY <1>1, SelectInv
<1>2. ASSUME NEW t \in Turns, Read(t) PROVE BInv'
  BY <1>2, ReadInv
<1>3. ASSUME NEW t \in Turns, ReadFails(t) \/ NotChosen(t) PROVE BInv'
  <2>1. /\ Settle(t, Nothing) /\ UNCHANGED <<memory, disk, unsaved>>
        /\ stage[t] \in {"queued", "choosing"} /\ after[t] = Nothing
    BY <1>3 DEF ReadFails, NotChosen, BInv, Staged
  <2>2. Nothing \in MaybeAccount
    BY DEF MaybeAccount
  <2> QED
    BY <2>1, <2>2, SettleInv
<1>4. ASSUME NEW t \in Turns, Written(t) \/ WriteFails(t) PROVE BInv'
  BY <1>4, SaveInv
<1>5. ASSUME NEW t \in Turns, NEW a \in Accounts, Chosen(t, a) PROVE BInv'
  BY <1>5, ChosenInv
<1>6. CASE Restart
  BY <1>6, RestartInv
<1>7. CASE UNCHANGED bindings
  <2>1. Queued'
    BY <1>7, KeepQueue DEF BInv, bindings, promises
  <2>2. BindingsTypeOK'
    BY <1>7 DEF BInv, BindingsTypeOK, bindings
  <2>3. \A t \in Turns : Staged(t)'
    BY <1>7 DEF BInv, Staged, bindings
  <2>4. BindingDurable'
    BY <1>7 DEF BInv, BindingDurable, bindings
  <2> QED
    BY <2>1, <2>2, <2>3, <2>4 DEF BInv
<1> QED
  BY <1>1, <1>2, <1>3, <1>4, <1>5, <1>6, <1>7 DEF BStep

-----------------------------------------------------------------------------
(* The turns *)

OnceEach(t) ==
    \A i, j \in 1..Len(attempts[t]) : attempts[t][i] = attempts[t][j] => i = j

\* What a turn does fits its selection; an account it was executed on is neither
\* checked nor selected again; a bound account that failed the check is lost.
Turn(t) ==
    /\ pc[t] \notin {"selecting", "picking"} => stage[t] = "out"
    /\ pc[t] = "selecting" => stage[t] \in {"queued", "choosing"}
    /\ pc[t] = "picking" => stage[t] # "queued"
    /\ pc[t] \in {"executing", "streaming"} => Len(attempts[t]) # 0
    /\ checked[t] \cap Tried(t) = {}
    /\ pc[t] = "picking" /\ stage[t] # "choosing" => selected[t] \in Accounts \ Tried(t)
    /\ pc[t] = "picking" /\ stage[t] = "choosing" =>
           preferred[t] \in {Nothing} \cup checked[t] \cup Tried(t) \/ KeyOf[t] \in lost
    /\ OnceEach(t)

Gone == \A k \in Keys : memory[k] \in exhausted \cup unusable => k \in lost

Inv ==
    /\ TypeOK
    /\ BInv
    /\ \A t \in Turns : Turn(t)
    /\ Gone

LEMMA InitInv == Init => Inv
<1> SUFFICES ASSUME Init PROVE Inv
  OBVIOUS
<1>1. BindingsTypeOK
  BY DEF Init, BindingsInit, BindingsTypeOK, Stages, MaybeAccount
<1>2. TypeOK
  BY <1>1 DEF Init, TypeOK
<1>3. Queued
  <2>1. (\A t \in Turns : stage[t] = "out") /\ (\A k \in Keys : pending[k] = Nothing)
    BY DEF Init, BindingsInit
  <2> QED
    BY <2>1, EmptyQueue
<1>4. \A t \in Turns : Staged(t)
  BY DEF Init, BindingsInit, Staged
<1>5. BindingDurable
  BY DEF Init, BindingsInit, BindingDurable
<1>6. \A t \in Turns : Turn(t)
  BY DEF Init, BindingsInit, Turn, Tried, OnceEach
<1>7. Gone
  BY DEF Init, Gone
<1> QED
  BY <1>1, <1>2, <1>3, <1>4, <1>5, <1>6, <1>7 DEF Inv, BInv

\* What has to be shown of a step: the turns it leaves alone keep their part.
LEMMA TurnStep ==
    ASSUME Inv, TypeOK', BStep, Track,
           \A u \in Turns :
               \/ Turn(u)'
               \/ UNCHANGED <<pc[u], attempts[u], checked[u], stage[u], preferred[u], selected[u]>>
    PROVE  Inv'
<1>1. BInv'
  BY BStepInv DEF Inv
<1>2. Gone'
  <2>1. \A k \in Keys : memory'[k] \in exhausted' \cup unusable' => memory'[k] # Nothing
    BY NothingOutside DEF TypeOK
  <2> QED
    BY <2>1 DEF Track, Gone
<1>3. ASSUME NEW u \in Turns,
             UNCHANGED <<pc[u], attempts[u], checked[u], stage[u], preferred[u], selected[u]>>
      PROVE  Turn(u)'
  <2>1. stage[u] = "choosing" => memory'[KeyOf[u]] = preferred[u] /\ memory[KeyOf[u]] = preferred[u]
    BY <1>1, <1>3 DEF Inv, BInv, Staged
  <2>2. stage[u] = "choosing" /\ preferred[u] # Nothing /\ KeyOf[u] \in lost => KeyOf[u] \in lost'
    BY <2>1, TurnsHaveKeys DEF Track
  <2>3. Tried(u)' = Tried(u)
    BY <1>3 DEF Tried
  <2>4. Turn(u)
    BY DEF Inv
  <2>5. /\ (pc[u] \notin {"selecting", "picking"} => stage[u] = "out")'
        /\ (pc[u] = "selecting" => stage[u] \in {"queued", "choosing"})'
        /\ (pc[u] = "picking" => stage[u] # "queued")'
        /\ (pc[u] \in {"executing", "streaming"} => Len(attempts[u]) # 0)'
        /\ OnceEach(u)'
    BY <1>3, <2>4 DEF Turn, OnceEach
  <2>6. /\ (checked[u] \cap Tried(u) = {})'
        /\ (pc[u] = "picking" /\ stage[u] # "choosing" => selected[u] \in Accounts \ Tried(u))'
    BY <1>3, <2>3, <2>4 DEF Turn
  <2>7. (pc[u] = "picking" /\ stage[u] = "choosing" =>
           preferred[u] \in {Nothing} \cup checked[u] \cup Tried(u) \/ KeyOf[u] \in lost)'
    BY <1>3, <2>2, <2>3, <2>4 DEF Turn
  <2> QED
    BY <2>5, <2>6, <2>7 DEF Turn
<1> QED
  BY <1>1, <1>2, <1>3 DEF Inv

\* The types, when the bindings keep theirs.
LEMMA Typed ==
    ASSUME Inv, BStep, Track,
           pc' \in [Turns -> {"idle", "streaming", "done"} \cup Running],
           attempts' \in [Turns -> Seq(Accounts)],
           outcome' \in [Turns -> {"none", "served", "rejected", "failed", "refused"}],
           checked' \in [Turns -> SUBSET Accounts],
           exhausted' \subseteq Accounts, unusable' \subseteq Accounts
    PROVE  TypeOK'
<1>1. BindingsTypeOK'
  BY BStepInv DEF Inv, BInv
<1>2. lost' \subseteq Keys
  BY DEF Track
<1> QED
  BY <1>1, <1>2 DEF TypeOK

\* What a settled selection leaves alone.
LEMMA SettleFrame ==
    ASSUME Inv, NEW t \in Turns, NEW result, Settle(t, result)
    PROVE  /\ stage'[t] = "out" /\ selected'[t] = result
           /\ \A u \in Turns \ {t} : UNCHANGED <<stage[u], preferred[u], selected[u]>>
BY DEF Settle, Inv, BInv, BindingsTypeOK

LEMMA StartInv == ASSUME Inv, NEW t \in Turns, Start(t) PROVE Inv'
<1>1. /\ pc[t] = "idle" /\ Select(t) /\ Track
      /\ pc' = [pc EXCEPT ![t] = "selecting"]
      /\ UNCHANGED <<attempts, outcome, checked, exhausted, unusable>>
  BY DEF Start, Goto, pool
<1>2. stage[t] = "out"
  BY <1>1 DEF Inv, Turn
<1>3. BStep
  BY <1>1, <1>2 DEF BStep
<1>4. TypeOK'
  BY <1>1, <1>3, Typed DEF Inv, TypeOK, Running
<1>5. /\ stage' = [stage EXCEPT ![t] = "queued"]
      /\ selected' = [selected EXCEPT ![t] = Nothing]
      /\ UNCHANGED preferred
  BY <1>1 DEF Select
<1>6. pc'[t] = "selecting" /\ stage'[t] = "queued"
  BY <1>1, <1>5 DEF Inv, TypeOK, BInv, BindingsTypeOK
<1>7. Turn(t)'
  BY <1>1, <1>6 DEF Inv, Turn, Tried, OnceEach
<1>8. \A u \in Turns \ {t} :
          UNCHANGED <<pc[u], attempts[u], checked[u], stage[u], preferred[u], selected[u]>>
  BY <1>1, <1>5 DEF Inv, TypeOK, BInv, BindingsTypeOK
<1> QED
  BY <1>1, <1>3, <1>4, <1>7, <1>8, TurnStep

LEMMA ReadBindingInv == ASSUME Inv, NEW t \in Turns, ReadBinding(t) PROVE Inv'
<1>1. /\ Read(t) /\ Track
      /\ UNCHANGED <<pc, attempts, outcome, checked, exhausted, unusable>>
  BY DEF ReadBinding, turns, pool
<1>2. /\ stage[t] = "queued"
      /\ stage' = [stage EXCEPT ![t] = "choosing"]
      /\ \A u \in Turns \ {t} : preferred'[u] = preferred[u]
      /\ UNCHANGED selected
  BY <1>1 DEF Read, Inv, BInv, BindingsTypeOK
<1>3. BStep
  BY <1>1 DEF BStep
<1>4. TypeOK'
  BY <1>1, <1>3, Typed DEF Inv, TypeOK
<1>5. pc[t] = "selecting" /\ stage'[t] = "choosing"
  BY <1>2 DEF Inv, Turn, BInv, BindingsTypeOK
<1>6. Turn(t)'
  BY <1>1, <1>5 DEF Inv, Turn, Tried, OnceEach
<1>7. \A u \in Turns \ {t} :
          UNCHANGED <<pc[u], attempts[u], checked[u], stage[u], preferred[u], selected[u]>>
  BY <1>1, <1>2 DEF Inv, BInv, BindingsTypeOK
<1> QED
  BY <1>1, <1>3, <1>4, <1>6, <1>7, TurnStep

LEMMA CheckInv == ASSUME Inv, NEW t \in Turns, Check(t) PROVE Inv'
<1>1. /\ pc[t] = "selecting" /\ stage[t] = "choosing" /\ Track
      /\ checked' = [checked EXCEPT ![t] = Usable(t)]
      /\ pc' = [pc EXCEPT ![t] = "picking"]
      /\ UNCHANGED <<bindings, attempts, outcome, exhausted, unusable>>
  BY DEF Check, Goto, pool
<1>2. BStep
  BY <1>1 DEF BStep
<1>3. TypeOK'
  BY <1>1, <1>2, Typed DEF Inv, TypeOK, Running, Usable
<1>4. /\ UNCHANGED <<memory, stage, preferred, selected>>
      /\ pc'[t] = "picking" /\ checked'[t] = Usable(t) /\ Tried(t)' = Tried(t)
  BY <1>1 DEF bindings, Inv, TypeOK, Tried
<1>5. preferred[t] = memory[KeyOf[t]] /\ preferred[t] \in Accounts \cup {Nothing}
  BY <1>1 DEF Inv, BInv, Staged, BindingsTypeOK, MaybeAccount
<1>6. preferred[t] \in exhausted \cup unusable => KeyOf[t] \in lost'
  <2>1. memory[KeyOf[t]] \in exhausted \cup unusable => memory[KeyOf[t]] # Nothing
    BY NothingOutside DEF Inv, TypeOK
  <2> QED
    BY <1>1, <1>4, <1>5, <2>1, TurnsHaveKeys DEF Track
<1>7. preferred[t] \in {Nothing} \cup Usable(t) \cup Tried(t) \/ KeyOf[t] \in lost'
  BY <1>5, <1>6 DEF Usable
<1>8. Turn(t)'
  <2>1. Turn(t)
    BY DEF Inv
  <2>2. OnceEach(t)'
    BY <1>1, <2>1 DEF Turn, OnceEach
  <2>3. (checked[t] \cap Tried(t) = {})'
    BY <1>4 DEF Usable
  <2> QED
    BY <1>1, <1>4, <1>7, <2>2, <2>3 DEF Turn
<1>9. \A u \in Turns \ {t} :
          UNCHANGED <<pc[u], attempts[u], checked[u], stage[u], preferred[u], selected[u]>>
  BY <1>1, <1>4 DEF Inv, TypeOK
<1> QED
  BY <1>1, <1>2, <1>3, <1>8, <1>9, TurnStep

LEMMA PickInv == ASSUME Inv, NEW t \in Turns, NEW a \in Accounts, Pick(t, a) PROVE Inv'
<1>1. /\ pc[t] = "picking" /\ stage[t] = "choosing" /\ a \in checked[t]
      /\ Chosen(t, a) /\ Track
      /\ UNCHANGED <<pc, attempts, outcome, checked, exhausted, unusable>>
  BY DEF Pick, turns, pool
<1>2. BStep
  BY <1>1 DEF BStep
<1>3. TypeOK'
  BY <1>1, <1>2, Typed DEF Inv, TypeOK
<1>4. /\ stage'[t] \in {"out", "writing"} /\ selected'[t] = a
      /\ \A u \in Turns \ {t} : UNCHANGED <<stage[u], preferred[u], selected[u]>>
  <2>1. CASE Settle(t, a)
    BY <2>1, SettleFrame
  <2>2. CASE /\ selected' = [selected EXCEPT ![t] = a]
             /\ stage' = [stage EXCEPT ![t] = "writing"]
             /\ UNCHANGED preferred
    BY <2>2 DEF Inv, BInv, BindingsTypeOK
  <2> QED
    BY <1>1, <2>1, <2>2 DEF Chosen
<1>5. Turn(t)'
  <2>1. Turn(t) /\ Tried(t)' = Tried(t)
    BY <1>1 DEF Inv, Tried
  <2>2. OnceEach(t)'
    BY <1>1, <2>1 DEF Turn, OnceEach
  <2> QED
    BY <1>1, <1>4, <2>1, <2>2 DEF Turn
<1>6. \A u \in Turns \ {t} :
          UNCHANGED <<pc[u], attempts[u], checked[u], stage[u], preferred[u], selected[u]>>
  BY <1>1, <1>4
<1> QED
  BY <1>1, <1>2, <1>3, <1>5, <1>6, TurnStep

LEMMA SaveTurnInv == ASSUME Inv, NEW t \in Turns, Save(t) PROVE Inv'
<1>1. /\ Written(t) \/ WriteFails(t)
      /\ stage[t] = "writing" /\ Settle(t, selected[t]) /\ Track
      /\ UNCHANGED <<pc, attempts, outcome, checked, exhausted, unusable>>
  BY DEF Save, Written, WriteFails, turns, pool
<1>2. BStep
  BY <1>1 DEF BStep
<1>3. TypeOK'
  BY <1>1, <1>2, Typed DEF Inv, TypeOK
<1>4. /\ stage'[t] = "out" /\ selected'[t] = selected[t]
      /\ \A u \in Turns \ {t} : UNCHANGED <<stage[u], preferred[u], selected[u]>>
  BY <1>1, SettleFrame
<1>5. Turn(t)'
  <2>1. Turn(t) /\ Tried(t)' = Tried(t) /\ pc[t] = "picking"
    BY <1>1 DEF Inv, Tried, Turn
  <2>2. OnceEach(t)'
    BY <1>1, <2>1 DEF Turn, OnceEach
  <2> QED
    BY <1>1, <1>4, <2>1, <2>2 DEF Turn
<1>6. \A u \in Turns \ {t} :
          UNCHANGED <<pc[u], attempts[u], checked[u], stage[u], preferred[u], selected[u]>>
  BY <1>1, <1>4
<1> QED
  BY <1>1, <1>2, <1>3, <1>5, <1>6, TurnStep

LEMMA NoAccountInv == ASSUME Inv, NEW t \in Turns, NoAccount(t) PROVE Inv'
<1>1. /\ ReadFails(t) \/ NotChosen(t)
      /\ Settle(t, Nothing) /\ Track
      /\ pc' = [pc EXCEPT ![t] = "done"]
      /\ \E result \in {"refused", "rejected"} : outcome' = [outcome EXCEPT ![t] = result]
      /\ checked' = [checked EXCEPT ![t] = {}]
      /\ UNCHANGED <<attempts, exhausted, unusable>>
  BY DEF NoAccount, ReadFails, NotChosen, Answer, Goto, pool
<1>2. BStep
  BY <1>1 DEF BStep
<1>3. TypeOK'
  <2>1. /\ pc' \in [Turns -> {"idle", "streaming", "done"} \cup Running]
        /\ attempts' \in [Turns -> Seq(Accounts)]
        /\ outcome' \in [Turns -> {"none", "served", "rejected", "failed", "refused"}]
        /\ checked' \in [Turns -> SUBSET Accounts]
        /\ exhausted' \subseteq Accounts /\ unusable' \subseteq Accounts
    BY <1>1 DEF Inv, TypeOK
  <2> QED
    BY <1>1, <1>2, <2>1, Typed
<1>4. /\ stage'[t] = "out"
      /\ \A u \in Turns \ {t} : UNCHANGED <<stage[u], preferred[u], selected[u]>>
  BY <1>1, SettleFrame
<1>5. Turn(t)'
  <2>1. Turn(t) /\ Tried(t)' = Tried(t) /\ pc'[t] = "done" /\ checked'[t] = {}
    BY <1>1 DEF Inv, Tried, TypeOK
  <2>2. OnceEach(t)'
    BY <1>1, <2>1 DEF Turn, OnceEach
  <2> QED
    BY <1>4, <2>1, <2>2 DEF Turn
<1>6. \A u \in Turns \ {t} :
          UNCHANGED <<pc[u], attempts[u], checked[u], stage[u], preferred[u], selected[u]>>
  BY <1>1, <1>4 DEF Inv, TypeOK
<1> QED
  BY <1>1, <1>2, <1>3, <1>5, <1>6, TurnStep

LEMMA ExecuteInv == ASSUME Inv, NEW t \in Turns, Execute(t) PROVE Inv'
<1>1. /\ pc[t] = "picking" /\ stage[t] = "out" /\ Track
      /\ attempts' = [attempts EXCEPT ![t] = Append(attempts[t], selected[t])]
      /\ checked' = [checked EXCEPT ![t] = {}]
      /\ pc' = [pc EXCEPT ![t] = "executing"]
      /\ UNCHANGED <<bindings, outcome, exhausted, unusable>>
  BY DEF Execute, Goto, pool
<1>2. BStep
  BY <1>1 DEF BStep
<1>3. PICK a \in Accounts : a = selected[t] /\ a \notin Tried(t)
  BY <1>1 DEF Inv, Turn
<1>4. attempts' \in [Turns -> Seq(Accounts)]
  BY <1>1, <1>3 DEF Inv, TypeOK
<1>5. TypeOK'
  BY <1>1, <1>2, <1>4, Typed DEF Inv, TypeOK, Running
<1>6. UNCHANGED <<stage, preferred, selected>> /\ pc'[t] = "executing" /\ checked'[t] = {}
  BY <1>1 DEF bindings, Inv, TypeOK
<1>7. /\ attempts[t] \in Seq(Accounts) /\ attempts'[t] = Append(attempts[t], a)
  BY <1>1, <1>3 DEF Inv, TypeOK
<1>8. Len(attempts[t]) \in Nat /\ Len(attempts'[t]) = Len(attempts[t]) + 1
  BY <1>7
<1>9. OnceEach(t)'
  <2> SUFFICES ASSUME NEW i \in 1..Len(attempts'[t]), NEW j \in 1..Len(attempts'[t]),
                      attempts'[t][i] = attempts'[t][j]
               PROVE  i = j
    BY DEF OnceEach
  <2>1. \A n \in 1..Len(attempts[t]) : attempts'[t][n] = attempts[t][n] /\ attempts[t][n] # a
    BY <1>3, <1>7 DEF Tried
  <2>2. attempts'[t][Len(attempts[t]) + 1] = a
    BY <1>7
  <2>3. i \in 1..Len(attempts[t]) \/ i = Len(attempts[t]) + 1
    BY <1>8
  <2>4. j \in 1..Len(attempts[t]) \/ j = Len(attempts[t]) + 1
    BY <1>8
  <2>5. OnceEach(t)
    BY DEF Inv, Turn
  <2> QED
    BY <2>1, <2>2, <2>3, <2>4, <2>5 DEF OnceEach
<1>10. Turn(t)'
  <2>1. Len(attempts'[t]) # 0
    BY <1>8
  <2> QED
    BY <1>1, <1>6, <1>9, <2>1 DEF Turn
<1>11. \A u \in Turns \ {t} :
          UNCHANGED <<pc[u], attempts[u], checked[u], stage[u], preferred[u], selected[u]>>
  BY <1>1, <1>6 DEF Inv, TypeOK
<1> QED
  BY <1>1, <1>2, <1>5, <1>10, <1>11, TurnStep

\* The upstream's answer ends the attempt, or starts another selection.
LEMMA AnswerInv ==
    ASSUME Inv, NEW t \in Turns, NEW to \in {"streaming", "done"},
           NEW result \in {"none", "served", "rejected", "failed"},
           pc[t] \in {"executing", "streaming"}, Track,
           pc' = [pc EXCEPT ![t] = to],
           outcome' = [outcome EXCEPT ![t] = result] \/ UNCHANGED outcome,
           exhausted' \subseteq Accounts,
           UNCHANGED <<bindings, attempts, checked, unusable>>
    PROVE  Inv'
<1>1. BStep
  BY DEF BStep
<1>2. TypeOK'
  <2>1. /\ pc' \in [Turns -> {"idle", "streaming", "done"} \cup Running]
        /\ outcome' \in [Turns -> {"none", "served", "rejected", "failed", "refused"}]
    BY DEF Inv, TypeOK
  <2> QED
    BY <1>1, <2>1, Typed DEF Inv, TypeOK
<1>3. UNCHANGED <<stage, preferred, selected>> /\ pc'[t] = to
  BY DEF bindings, Inv, TypeOK
<1>4. Turn(t)'
  BY <1>3 DEF Inv, Turn, Tried, OnceEach
<1>5. \A u \in Turns \ {t} :
          UNCHANGED <<pc[u], attempts[u], checked[u], stage[u], preferred[u], selected[u]>>
  BY <1>3 DEF Inv, TypeOK
<1> QED
  BY <1>1, <1>2, <1>4, <1>5, TurnStep

LEMMA RetryInv == ASSUME Inv, NEW t \in Turns, RejectedRetry(t) PROVE Inv'
<1>1. /\ pc[t] = "executing" /\ Select(t) /\ Track
      /\ exhausted' = exhausted \cup {Account(t)}
      /\ pc' = [pc EXCEPT ![t] = "selecting"]
      /\ UNCHANGED <<attempts, outcome, checked, unusable>>
  BY DEF RejectedRetry, Limit, Goto
<1>2. stage[t] = "out" /\ Len(attempts[t]) # 0
  BY <1>1 DEF Inv, Turn
<1>3. Account(t) \in Accounts
  BY <1>2 DEF Account, Inv, TypeOK
<1>4. BStep
  BY <1>1, <1>2 DEF BStep
<1>5. TypeOK'
  BY <1>1, <1>3, <1>4, Typed DEF Inv, TypeOK, Running
<1>6. /\ stage' = [stage EXCEPT ![t] = "queued"]
      /\ selected' = [selected EXCEPT ![t] = Nothing]
      /\ UNCHANGED preferred
  BY <1>1 DEF Select
<1>7. pc'[t] = "selecting" /\ stage'[t] = "queued"
  BY <1>1, <1>6 DEF Inv, TypeOK, BInv, BindingsTypeOK
<1>8. Turn(t)'
  BY <1>1, <1>7 DEF Inv, Turn, Tried, OnceEach
<1>9. \A u \in Turns \ {t} :
          UNCHANGED <<pc[u], attempts[u], checked[u], stage[u], preferred[u], selected[u]>>
  BY <1>1, <1>6 DEF Inv, TypeOK, BInv, BindingsTypeOK
<1> QED
  BY <1>1, <1>4, <1>5, <1>8, <1>9, TurnStep

\* Only the pool changes, or nothing at all.
LEMMA PoolInv ==
    ASSUME Inv, Track, exhausted' \subseteq Accounts, unusable' \subseteq Accounts,
           UNCHANGED <<bindings, turns, checked>>
    PROVE  Inv'
<1>1. BStep
  BY DEF BStep
<1>2. TypeOK'
  BY <1>1, Typed DEF Inv, TypeOK, turns
<1>3. \A u \in Turns :
          UNCHANGED <<pc[u], attempts[u], checked[u], stage[u], preferred[u], selected[u]>>
  BY DEF turns, bindings
<1> QED
  BY <1>1, <1>2, <1>3, TurnStep

LEMMA CrashInv == ASSUME Inv, Crash PROVE Inv'
<1>1. /\ Restart /\ Track
      /\ pc' = [t \in Turns |-> IF pc[t] = "idle" THEN "idle" ELSE "done"]
      /\ checked' = [t \in Turns |-> {}]
      /\ exhausted' = {}
      /\ UNCHANGED <<attempts, outcome, unusable>>
  BY DEF Crash
<1>2. BStep
  BY <1>1 DEF BStep
<1>3. TypeOK'
  BY <1>1, <1>2, Typed DEF Inv, TypeOK
<1>4. ASSUME NEW t \in Turns PROVE Turn(t)'
  <2>1. pc'[t] \in {"idle", "done"} /\ stage'[t] = "out" /\ checked'[t] = {}
    BY <1>1 DEF Restart
  <2> QED
    BY <1>1, <2>1 DEF Inv, Turn, OnceEach
<1> QED
  BY <1>1, <1>2, <1>3, <1>4, TurnStep

LEMMA StepInv == Inv /\ [Next]_vars => Inv'
<1> SUFFICES ASSUME Inv, [Next]_vars PROVE Inv'
  OBVIOUS
<1>1. ASSUME NEW t \in Turns,
             Start(t) \/ ReadBinding(t) \/ Check(t) \/ Save(t) \/ NoAccount(t) \/ Execute(t)
      PROVE  Inv'
  BY <1>1, StartInv, ReadBindingInv, CheckInv, SaveTurnInv, NoAccountInv, ExecuteInv
<1>2. ASSUME NEW t \in Turns, NEW a \in Accounts, Pick(t, a) PROVE Inv'
  BY <1>2, PickInv
<1>3. ASSUME NEW t \in Turns, pc[t] \in {"executing", "streaming"} PROVE Account(t) \in Accounts
  BY <1>3 DEF Account, Inv, Turn, TypeOK
<1>4. ASSUME NEW t \in Turns, Accepted(t) \/ ExecuteFails(t) \/ StreamEnds(t) PROVE Inv'
  <2>1. exhausted' \subseteq Accounts
    BY <1>4 DEF Accepted, ExecuteFails, StreamEnds, Inv, TypeOK, pool
  <2> QED
    BY <1>4, <2>1, AnswerInv DEF Accepted, ExecuteFails, StreamEnds, Answer, Goto, pool
<1>5. ASSUME NEW t \in Turns, RejectedFinally(t) PROVE Inv'
  <2>1. exhausted' \subseteq Accounts
    BY <1>3, <1>5 DEF RejectedFinally, Limit, Inv, TypeOK
  <2> QED
    BY <1>5, <2>1, AnswerInv DEF RejectedFinally, Answer, Goto, Limit
<1>6. ASSUME NEW t \in Turns, RejectedRetry(t) PROVE Inv'
  BY <1>6, RetryInv
<1>7. ASSUME NEW t \in Turns, LateLimit(t) PROVE Inv'
  <2>1. exhausted' \subseteq Accounts /\ unusable' \subseteq Accounts
    BY <1>3, <1>7 DEF LateLimit, Limit, Inv, TypeOK
  <2> QED
    BY <1>7, <2>1, PoolInv DEF LateLimit
<1>8. ASSUME NEW a \in Accounts, CooldownEnds(a) \/ PoolChanges(a) PROVE Inv'
  <2>1. exhausted' \subseteq Accounts /\ unusable' \subseteq Accounts
    BY <1>8 DEF CooldownEnds, PoolChanges, Inv, TypeOK
  <2> QED
    BY <1>8, <2>1, PoolInv DEF CooldownEnds, PoolChanges
<1>9. CASE Crash
  BY <1>9, CrashInv
<1>10. CASE UNCHANGED vars
  <2>1. UNCHANGED <<bindings, pc, attempts, outcome, checked, exhausted, unusable, lost>>
    BY <1>10 DEF vars, turns, pool
  <2>2. BInv'
    BY <2>1, BStepInv DEF Inv, BStep
  <2>3. TypeOK'
    BY <2>1, <2>2 DEF Inv, BInv, TypeOK
  <2>4. \A t \in Turns : Turn(t)'
    BY <2>1 DEF Inv, Turn, Tried, OnceEach, bindings
  <2>5. Gone'
    BY <2>1 DEF Inv, Gone, bindings
  <2> QED
    BY <2>2, <2>3, <2>4, <2>5 DEF Inv
<1> QED
  BY <1>1, <1>2, <1>4, <1>5, <1>6, <1>7, <1>8, <1>9, <1>10 DEF Next, Step

-----------------------------------------------------------------------------
(* Theorems *)

\* Every variable of the turns and of their bindings keeps its type.
THEOREM TurnsTyped == Spec => []TypeOK
<1>1. Inv => TypeOK
  BY DEF Inv
<1> QED
  BY <1>1, InitInv, StepInv, PTL DEF Spec

\* The chained promises serialize the selections of a session.
THEOREM SelectionsExclusive == Spec => []SelectionExclusive
<1>1. Inv => SelectionExclusive
  BY HeadUnique DEF Inv, BInv, Staged, SelectionExclusive
<1> QED
  BY <1>1, InitInv, StepInv, PTL DEF Spec

\* A restart finds the binding the turns used, unless a write failed.
THEOREM BindingsDurable == Spec => []BindingDurable
<1>1. Inv => BindingDurable
  BY DEF Inv, BInv
<1> QED
  BY <1>1, InitInv, StepInv, PTL DEF Spec

\* No turn is executed twice on one account, whatever happens to the cooldowns.
THEOREM AccountsTriedOnce == Spec => []TriedOnce
<1>1. Inv => TriedOnce
  BY DEF Inv, Turn, OnceEach, TriedOnce
<1> QED
  BY <1>1, InitInv, StepInv, PTL DEF Spec

\* A session leaves its account only when it has to.
THEOREM BindingsKept == Spec => BindingKept
<1> DEFINE Moved ==
        \A k \in Keys :
            (memory[k] # Nothing /\ memory'[k] \notin {Nothing, memory[k]}) =>
                \/ k \in lost
                \/ \E t \in Turns : KeyOf[t] = k /\ stage[t] = "choosing" /\ memory[k] \in Tried(t)
<1>1. Inv /\ [Next]_vars => Moved
  <2> SUFFICES ASSUME Inv, [Next]_vars, NEW k \in Keys,
                      memory[k] # Nothing, memory'[k] \notin {Nothing, memory[k]}, k \notin lost
               PROVE  \E t \in Turns : KeyOf[t] = k /\ stage[t] = "choosing" /\ memory[k] \in Tried(t)
    OBVIOUS
  <2>1. memory' # memory
    OBVIOUS
  <2>2. ~ \E t \in Turns : Read(t)
    <3> SUFFICES ASSUME NEW t \in Turns, Read(t) PROVE FALSE
      OBVIOUS
    <3> QED
      BY DEF Read, Inv, BInv, BindingsTypeOK
  <2>3. ~ Restart
    BY DEF Restart
  <2>4. PICK t \in Turns, a \in Accounts : Pick(t, a)
    BY <2>1, <2>2, <2>3 DEF Next, Step, vars, bindings, Start, Select, ReadBinding, Check, Save,
       Written, WriteFails, NoAccount, ReadFails, NotChosen, Execute, Accepted, ExecuteFails,
       RejectedRetry, RejectedFinally, LateLimit, StreamEnds, CooldownEnds, PoolChanges, Crash
  <2>5. /\ stage[t] = "choosing" /\ pc[t] = "picking" /\ a # preferred[t]
        /\ Preferred(t, a)
        /\ memory' = [memory EXCEPT ![KeyOf[t]] = a]
    BY <2>1, <2>4 DEF Pick, Chosen
  <2>6. k = KeyOf[t]
    BY <2>5, TurnsHaveKeys DEF Inv, BInv, BindingsTypeOK
  <2>7. preferred[t] = memory[k] /\ preferred[t] \notin checked[t]
    BY <2>5, <2>6 DEF Preferred, Inv, BInv, Staged
  <2>8. memory[k] \in Tried(t)
    BY <2>5, <2>6, <2>7 DEF Inv, Turn
  <2> QED
    BY <2>5, <2>6, <2>8
<1>2. Moved => [Moved]_vars
  OBVIOUS
<1> QED
  BY <1>1, InitInv, StepInv, PTL DEF Spec, BindingKept
=============================================================================
