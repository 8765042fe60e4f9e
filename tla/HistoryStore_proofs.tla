-------------------------- MODULE HistoryStore_proofs --------------------------
(***************************************************************************)
(* What a power failure leaves of the history is consistent, for any       *)
(* number of calls, keys and records.  The argument needs the files and    *)
(* the calls' progress only: the memory and the reading calls are free.    *)
(* The second part rests on it: the memory is a map, and a reader of a     *)
(* saved key finds a record in it or behind its reference.                 *)
(***************************************************************************)
EXTENDS HistoryStore, SequenceTheorems, TLAPS

Writing == {"putDirs", "putObject", "syncObject", "putRef", "syncRef"}
Reading == {"idle", "ref", "object", "got"}

\* The shapes of the variables that the argument looks into.
DiskShape ==
    /\ objects \subseteq Records /\ kept \subseteq objects
    /\ refs \in [Keys -> MaybeRecord]
    /\ leaves \in [Keys -> SUBSET MaybeRecord]
    /\ pc \in [Calls -> Reading \cup Writing]
    /\ record = [c \in Calls |-> record[c]]
    /\ \A c \in Calls : pc[c] \in Writing => record[c] \in Records
    /\ saved \subseteq Keys

\* A put() never runs ahead of its object.
ObjectFirst ==
    \A c \in Calls :
        /\ pc[c] = "syncObject" => record[c] \in objects
        /\ pc[c] \in {"putRef", "syncRef"} => record[c] \in kept

\* What is on the disk now may be what a power failure leaves.
CurrentLeft == \A k \in Keys : refs[k] \in leaves[k]

\* The reference that a put() has renamed is not removed by another one, and
\* another one that replaced it has its object, too.
RefStays ==
    \A c \in Calls : pc[c] = "syncRef" => refs[KeyOf[record[c]]] \in kept

IInv ==
    /\ DiskShape
    /\ ObjectFirst
    /\ CurrentLeft
    /\ RefStays
    /\ ReferencesResolve
    /\ SavedSurvives

LEMMA InitIInv == Init => IInv
  BY NoneOutside DEF Init, IInv, DiskShape, ObjectFirst, CurrentLeft, RefStays,
     ReferencesResolve, SavedSurvives, Writing, Reading, MaybeRecord

\* A call that reads, finishes or gives up leaves the files alone.
LEMMA ReadingKeepsIInv ==
  ASSUME IInv, NEW c \in Calls, NEW label, label \in Reading,
         NEW r, Goto(c, label, r), UNCHANGED <<objects, kept, refs, leaves, history>>
  PROVE  IInv'
  BY DEF history, Goto, IInv, DiskShape, ObjectFirst, CurrentLeft, RefStays,
     ReferencesResolve, SavedSurvives, Writing, Reading, MaybeRecord

LEMMA RestartKeepsCalls ==
  ASSUME Restart
  PROVE  /\ pc' \in [Calls -> Reading \cup Writing]
         /\ record' = [c \in Calls |-> record'[c]]
         /\ \A c \in Calls : pc'[c] = "idle"
  BY DEF Restart, Writing, Reading

LEMMA StepIInv == IInv /\ [Next]_vars => IInv'
<1> SUFFICES ASSUME IInv, [Next]_vars
             PROVE  IInv'
  OBVIOUS
<1> USE RecordsHaveKeys, NoneOutside
<1> USE DEF IInv, DiskShape, ObjectFirst, CurrentLeft, RefStays,
        ReferencesResolve, SavedSurvives, Writing, Reading, MaybeRecord
<1>1. CASE UNCHANGED vars
  BY <1>1 DEF vars, disk, calls, history
<1>2. ASSUME NEW c \in Calls, NEW k \in Keys, Get(c, k)
      PROVE  IInv'
  <2>1. UNCHANGED <<objects, kept, refs, leaves, history>>
    BY <1>2 DEF Get, disk
  <2>2. \/ \E r \in Hits(k) : Goto(c, "got", r)
        \/ Goto(c, "ref", None)
    BY <1>2 DEF Get
  <2>3. QED
    BY <2>1, <2>2, ReadingKeepsIInv
<1>3. ASSUME NEW c \in Calls, ReadRef(c) \/ ReadObject(c) \/ Got(c) \/ PutFails(c)
      PROVE  IInv'
  <2>1. UNCHANGED <<objects, kept, refs, leaves, history>>
    BY <1>3 DEF ReadRef, ReadObject, Got, PutFails, disk
  <2>2. \/ Goto(c, "got", refs[key[c]]) \/ Goto(c, "object", refs[key[c]])
        \/ Goto(c, "got", record[c]) \/ Goto(c, "got", None)
        \/ Goto(c, "idle", None)
    BY <1>3 DEF ReadRef, ReadObject, Got, PutFails
  <2>3. QED
    BY <2>1, <2>2, ReadingKeepsIInv
<1>4. ASSUME NEW c \in Calls, NEW r \in Records, Put(c, r)
      PROVE  IInv'
  BY <1>4 DEF Put, Goto, disk, history
<1>4a. ASSUME NEW c \in Calls, MakeDirectories(c)
      PROVE  IInv'
  <2>1. /\ pc[c] = "putDirs" /\ UNCHANGED <<objects, kept, refs, leaves, history>>
        /\ Goto(c, "idle", None) \/ Goto(c, "putObject", record[c])
    BY <1>4a DEF MakeDirectories
  <2>2. CASE Goto(c, "idle", None)
    BY <2>1, <2>2, ReadingKeepsIInv
  <2>3. CASE Goto(c, "putObject", record[c])
    BY <2>1, <2>3 DEF Goto, history
  <2>4. QED
    BY <2>1, <2>2, <2>3
<1>5. ASSUME NEW c \in Calls, PutObject(c)
      PROVE  IInv'
  BY <1>5 DEF PutObject, Goto, history
<1>6. ASSUME NEW c \in Calls, SyncObject(c)
      PROVE  IInv'
  BY <1>6 DEF SyncObject, Goto, history
<1>7. ASSUME NEW c \in Calls, PutRef(c)
      PROVE  IInv'
  <2> DEFINE k == KeyOf[record[c]]
  <2>1. record[c] \in Records /\ record[c] \in kept /\ k \in Keys
    BY <1>7 DEF PutRef
  <2>2. /\ refs' = [refs EXCEPT ![k] = record[c]]
        /\ leaves' = [leaves EXCEPT ![k] = @ \cup {record[c]}]
        /\ pc' = [pc EXCEPT ![c] = "syncRef"]
        /\ record' = [record EXCEPT ![c] = record[c]]
        /\ UNCHANGED <<objects, kept, saved, swept>>
    BY <1>7 DEF PutRef, Goto, history
  <2>3. DiskShape'
    BY <2>1, <2>2
  <2>4. ObjectFirst' /\ CurrentLeft' /\ RefStays'
    BY <2>1, <2>2
  <2>5. ReferencesResolve' /\ SavedSurvives'
    BY <2>1, <2>2
  <2>6. QED
    BY <2>3, <2>4, <2>5
<1>8. ASSUME NEW c \in Calls, SyncRef(c)
      PROVE  IInv'
  <2> DEFINE k == KeyOf[record[c]]
  <2>1. record[c] \in Records /\ k \in Keys /\ refs[k] \in kept
    BY <1>8 DEF SyncRef
  <2>2. /\ leaves' = [j \in Keys |-> {refs[j]}]
        /\ saved' = saved \cup {k}
        /\ pc' = [pc EXCEPT ![c] = "idle"]
        /\ record' = [record EXCEPT ![c] = None]
        /\ UNCHANGED <<objects, kept, refs, swept>>
    BY <1>8 DEF SyncRef, Goto
  <2>3. DiskShape' /\ ObjectFirst' /\ CurrentLeft' /\ RefStays'
    <3>1. DiskShape'
      BY <2>1, <2>2
    <3>2. ObjectFirst' /\ CurrentLeft'
      BY <2>2
    <3>3. RefStays'
      BY <2>2
    <3>4. QED
      BY <3>1, <3>2, <3>3
  <2>4. ReferencesResolve'
    BY <2>2
  <2>5. SavedSurvives'
    BY <2>1, <2>2
  <2>6. QED
    BY <2>3, <2>4, <2>5
<1>9. CASE Crash
  BY <1>9, RestartKeepsCalls DEF Crash, disk, history
<1>10. CASE PowerFails
  <2>1. PICK lost \in SUBSET {d \in Directories : directory[d] = "made"} :
          /\ IF "objects" \in lost
             THEN objects' = {} /\ swept' = swept \cup kept
             ELSE objects' \in {s \in SUBSET objects : kept \subseteq s} /\ UNCHANGED swept
          /\ refs' \in [Keys -> MaybeRecord]
          /\ \A k \in Keys : refs'[k] \in (IF "refs" \in lost THEN {None} ELSE leaves[k])
          /\ saved' = IF lost = {} THEN saved ELSE {}
    BY <1>10 DEF PowerFails
  <2>2. kept' = objects' /\ leaves' = [k \in Keys |-> {refs'[k]}] /\ Restart
    BY <1>10 DEF PowerFails
  <2>3. /\ objects' \subseteq objects
        /\ lost = {} => kept \subseteq objects'
        /\ kept \cup swept \subseteq objects' \cup swept'
    BY <2>1
  <2>4. /\ \A k \in Keys : refs'[k] \in leaves[k] \cup {None}
        /\ lost = {} => \A k \in Keys : refs'[k] \in leaves[k]
    BY <2>1
  <2>5. DiskShape' /\ ObjectFirst' /\ CurrentLeft' /\ RefStays'
    BY <2>1, <2>2, <2>3, RestartKeepsCalls
  <2>6. ReferencesResolve'
    BY <2>2, <2>3, <2>4
  <2>7. SavedSurvives'
    BY <2>1, <2>2, <2>3, <2>4
  <2>8. QED
    BY <2>5, <2>6, <2>7
<1>11. ASSUME NEW r \in Records, Damage(r)
       PROVE  IInv'
  BY <1>11 DEF Damage, calls, history
<1>12. QED
  BY <1>1, <1>2, <1>3, <1>4, <1>4a, <1>5, <1>6, <1>7, <1>8, <1>9, <1>10, <1>11 DEF Next

LEMMA InvariantHolds == Spec => []IInv
  BY InitIInv, StepIInv, PTL DEF Spec

(***************************************************************************)
(* No power failure leaves a reference to an object that is gone, however  *)
(* many put() calls write in the same directories (history-store.ts, put), *)
(* unless it takes objects/ itself, whose making nothing syncs.            *)
(***************************************************************************)
THEOREM References == Spec => []ReferencesResolve
<1>1. IInv => ReferencesResolve
  BY DEF IInv
<1>2. QED
  BY <1>1, InvariantHolds, PTL

(***************************************************************************)
(* What put() stored without a warning is found after any crash, and after *)
(* a power failure that takes neither directory (history-store.ts,         *)
(* atomicWrite).                                                           *)
(***************************************************************************)
THEOREM Saved == Spec => []SavedSurvives
<1>1. IInv => SavedSurvives
  BY DEF IInv
<1>2. QED
  BY <1>1, InvariantHolds, PTL

-----------------------------------------------------------------------------
(* The memory *)

\* A map of at most Cap entries: no two of the same key.
MapLike(entries) ==
    /\ entries \in Seq(Records)
    /\ Len(entries) <= Cap
    /\ \A i, j \in 1..Len(entries) : KeyOf[entries[i]] = KeyOf[entries[j]] => i = j

LEMMA RemoveAtElements ==
  ASSUME NEW s \in Seq(Records), NEW p \in 1..Len(s)
  PROVE  /\ RemoveAt(s, p) \in Seq(Records)
         /\ Len(RemoveAt(s, p)) = Len(s) - 1
         /\ \A i \in 1..(Len(s) - 1) :
                RemoveAt(s, p)[i] = IF i < p THEN s[i] ELSE s[i+1]
<1> DEFINE a == SubSeq(s, 1, p - 1)
           b == SubSeq(s, p + 1, Len(s))
<1>1. /\ a \in Seq(Records) /\ Len(a) = p - 1
      /\ \A i \in 1..(p - 1) : a[i] = s[i]
  OBVIOUS
<1>2. /\ b \in Seq(Records) /\ Len(b) = Len(s) - p
      /\ \A i \in 1..(Len(s) - p) : b[i] = s[p + i]
  OBVIOUS
<1>3. RemoveAt(s, p) = a \o b
  BY DEF RemoveAt
<1> HIDE DEF a, b
<1>4. QED
  BY <1>1, <1>2, <1>3, ConcatProperties

\* delete() removes the key's entry and no other.
LEMMA OtherEntries ==
  ASSUME MapLike(memory), NEW k \in Keys
  PROVE  /\ MapLike(Other(k))
         /\ \A i \in 1..Len(Other(k)) : KeyOf[Other(k)[i]] # k
<1>1. CASE At(k) = {}
  BY <1>1 DEF Other, At, MapLike
<1>2. CASE At(k) # {}
  <2> DEFINE p == CHOOSE i \in At(k) : TRUE
             rest == RemoveAt(memory, p)
  <2>1. p \in 1..Len(memory) /\ KeyOf[memory[p]] = k
    BY <1>2 DEF At, MapLike
  <2>2. memory \in Seq(Records) /\ Len(memory) \in Nat/\ Cap \in Nat
    BY CapIsPositive, LenProperties DEF MapLike
  <2>3. Other(k) = rest
    BY <1>2 DEF Other
  <2> HIDE DEF p
  <2>4. /\ rest \in Seq(Records) /\ Len(rest) = Len(memory) - 1
        /\ \A i \in 1..(Len(memory) - 1) : rest[i] = IF i < p THEN memory[i] ELSE memory[i+1]
    BY <2>1, <2>2, RemoveAtElements
  <2> HIDE DEF rest
  <2>5. Len(rest) <= Cap
    BY <2>2, <2>4 DEF MapLike
  <2>6. ASSUME NEW i \in 1..Len(rest) PROVE KeyOf[rest[i]] # k
    <3>1. CASE i < p
      BY <3>1, <2>1, <2>2, <2>4 DEF MapLike
    <3>2. CASE ~(i < p)
      BY <3>2, <2>1, <2>2, <2>4 DEF MapLike
    <3>3. QED
      BY <3>1, <3>2
  <2>7. ASSUME NEW i \in 1..Len(rest), NEW j \in 1..Len(rest), KeyOf[rest[i]] = KeyOf[rest[j]]
        PROVE  i = j
    <3> DEFINE at(n) == IF n < p THEN n ELSE n + 1
    <3>1. rest[i] = memory[at(i)] /\ rest[j] = memory[at(j)]
      BY <2>1, <2>2, <2>4
    <3>2. at(i) \in 1..Len(memory) /\ at(j) \in 1..Len(memory)
      BY <2>1, <2>2, <2>4
    <3>3. at(i) = at(j)
      BY <2>7, <3>1, <3>2 DEF MapLike
    <3>4. QED
      BY <3>3, <2>1
  <2>8. QED
    BY <2>3, <2>4, <2>5, <2>6, <2>7 DEF MapLike
<1>3. QED
  BY <1>1, <1>2

LEMMA RememberKeepsMap ==
  ASSUME MapLike(memory), NEW r \in Records, Remember(r)
  PROVE  MapLike(memory')
<1> DEFINE old == Other(KeyOf[r])
           new == Append(old, r)
<1>1. KeyOf[r] \in Keys
  BY RecordsHaveKeys
<1>2. /\ old \in Seq(Records) /\ Len(old) \in Nat /\ Len(old) <= Cap /\ Cap \in Nat
      /\ \A i, j \in 1..Len(old) : KeyOf[old[i]] = KeyOf[old[j]] => i = j
      /\ \A i \in 1..Len(old) : KeyOf[old[i]] # KeyOf[r]
  BY <1>1, OtherEntries, CapIsPositive, LenProperties DEF MapLike
<1>3. memory' = IF Len(new) > Cap THEN Tail(new) ELSE new
  BY DEF Remember
<1> HIDE DEF old
<1>4. /\ new \in Seq(Records) /\ Len(new) = Len(old) + 1
      /\ \A i \in 1..Len(old) : new[i] = old[i]
      /\ new[Len(old) + 1] = r
  BY <1>2, AppendProperties
<1>5. \A i, j \in 1..Len(new) : KeyOf[new[i]] = KeyOf[new[j]] => i = j
  <2> SUFFICES ASSUME NEW i \in 1..Len(new), NEW j \in 1..Len(new), KeyOf[new[i]] = KeyOf[new[j]]
               PROVE  i = j
    OBVIOUS
  <2>1. (i \in 1..Len(old) \/ i = Len(old) + 1) /\ (j \in 1..Len(old) \/ j = Len(old) + 1)
    BY <1>2, <1>4
  <2>2. QED
    BY <1>2, <1>4, <2>1
<1> HIDE DEF new
<1>6. CASE Len(new) > Cap
  <2>1. /\ Tail(new) \in Seq(Records) /\ Len(Tail(new)) = Len(new) - 1
        /\ \A i \in 1..(Len(new) - 1) : Tail(new)[i] = new[i+1]
    BY <1>2, <1>4, HeadTailProperties
  <2>2. ASSUME NEW i \in 1..Len(Tail(new)), NEW j \in 1..Len(Tail(new)),
               KeyOf[Tail(new)[i]] = KeyOf[Tail(new)[j]]
        PROVE  i = j
    BY <1>2, <1>4, <1>5, <2>1, <2>2
  <2>3. QED
    BY <1>2, <1>3, <1>4, <1>6, <2>1, <2>2 DEF MapLike
<1>7. CASE ~(Len(new) > Cap)
  BY <1>2, <1>3, <1>4, <1>5, <1>7 DEF MapLike
<1>8. QED
  BY <1>6, <1>7

-----------------------------------------------------------------------------
(* Readers *)

\* What a get() of a saved key has in hand, when no damage concerns it.
Holds(c) ==
    c \in expects =>
        /\ damaged = {}
        /\ pc[c] \in {"ref", "object", "got"}
        /\ pc[c] = "ref" => key[c] \in saved
        /\ pc[c] = "object" => record[c] \in objects
        /\ pc[c] = "got" => record[c] # None

CallsTyped ==
    /\ damaged \subseteq objects
    /\ record \in [Calls -> MaybeRecord]
    /\ key \in [Calls -> Keys]
    /\ expects \subseteq Calls
    /\ directory \in [Directories -> {"missing", "made", "durable"}]
    /\ swept \subseteq Records

FInv ==
    /\ MapLike(memory)
    /\ CallsTyped
    /\ \A c \in Calls : Holds(c)

LEMMA InitFInv == Init => FInv
  BY CapIsPositive DEF Directories, Init, FInv, MapLike, CallsTyped, Holds, MaybeRecord

LEMMA StepFInv == IInv /\ FInv /\ [Next]_vars => FInv'
<1> SUFFICES ASSUME IInv, FInv, [Next]_vars
             PROVE  FInv'
  OBVIOUS
<1> USE RecordsHaveKeys, NoneOutside
<1>0. /\ objects \subseteq Records /\ pc \in [Calls -> Reading \cup Writing]
      /\ \A c \in Calls : pc[c] \in Writing => record[c] \in Records
  BY DEF IInv, DiskShape
<1>1. CASE UNCHANGED vars
  BY <1>1 DEF vars, disk, calls, history, FInv, MapLike, CallsTyped, Holds
<1>2. ASSUME NEW c \in Calls, NEW k \in Keys, Get(c, k)
      PROVE  FInv'
  <2>1. /\ pc[c] = "idle" /\ key' = [key EXCEPT ![c] = k]
        /\ expects' = IF k \in saved /\ damaged = {} THEN expects \cup {c} ELSE expects
        /\ UNCHANGED <<objects, damaged, directory, saved, swept>>
    BY <1>2 DEF Get, disk, history
  <2>2. c \notin expects
    BY <2>1 DEF FInv, Holds
  <2>3. CASE \E r \in Hits(k) : Remember(r) /\ Goto(c, "got", r)
    <3>1. PICK r \in Hits(k) : Remember(r) /\ Goto(c, "got", r)
      BY <2>3
    <3>2. r \in Records
      BY <3>1, ElementOfSeq DEF Hits, At, FInv, MapLike
    <3>3. MapLike(memory')
      BY <3>1, <3>2, RememberKeepsMap DEF FInv
    <3>4. CallsTyped'
      BY <2>1, <3>1, <3>2 DEF FInv, CallsTyped, Goto, MaybeRecord
    <3>5. \A d \in Calls : Holds(d)'
      BY <1>0, <2>1, <2>2, <3>1, <3>2 DEF FInv, CallsTyped, Holds, Goto
    <3>6. QED
      BY <3>3, <3>4, <3>5 DEF FInv
  <2>4. CASE Goto(c, "ref", None) /\ UNCHANGED memory
    <3>1. MapLike(memory') /\ CallsTyped'
      BY <2>1, <2>4 DEF FInv, CallsTyped, Goto, MaybeRecord
    <3>2. \A d \in Calls : Holds(d)'
      BY <1>0, <2>1, <2>2, <2>4 DEF FInv, CallsTyped, Holds, Goto
    <3>3. QED
      BY <3>1, <3>2 DEF FInv
  <2>5. QED
    BY <1>2, <2>3, <2>4 DEF Get
<1>3. ASSUME NEW c \in Calls, ReadRef(c)
      PROVE  FInv'
  <2>1. /\ pc[c] = "ref"
        /\ Goto(c, IF refs[key[c]] = None THEN "got" ELSE "object", refs[key[c]])
        /\ UNCHANGED <<memory, objects, damaged, directory, key, saved, swept, expects>>
    BY <1>3 DEF ReadRef, disk, history
  <2>2. key[c] \in Keys /\ refs[key[c]] \in MaybeRecord
    BY DEF FInv, CallsTyped, IInv, DiskShape
  <2>3. MapLike(memory') /\ CallsTyped'
    BY <2>1, <2>2 DEF FInv, CallsTyped, Goto
  <2>4. c \in expects => refs[key[c]] # None /\ refs[key[c]] \in objects
    <3>1. SUFFICES ASSUME c \in expects PROVE refs[key[c]] # None /\ refs[key[c]] \in objects
      OBVIOUS
    <3>2. key[c] \in saved
      BY <2>1, <3>1 DEF FInv, Holds
    <3>3. refs[key[c]] \in leaves[key[c]] /\ None \notin leaves[key[c]]
      BY <2>2, <3>2 DEF IInv, CurrentLeft, SavedSurvives
    <3>4. leaves[key[c]] \subseteq kept /\ kept \subseteq objects
      BY <3>2 DEF IInv, SavedSurvives, DiskShape
    <3>5. QED
      BY <3>3, <3>4
  <2>5. \A d \in Calls : Holds(d)'
    BY <1>0, <2>1, <2>4 DEF FInv, CallsTyped, Holds, Goto
  <2>6. QED
    BY <2>3, <2>5 DEF FInv
<1>4. ASSUME NEW c \in Calls, ReadObject(c)
      PROVE  FInv'
  <2>1. pc[c] = "object" /\ UNCHANGED <<objects, damaged, directory, key, saved, swept, expects>>
    BY <1>4 DEF ReadObject, disk, history
  <2>2. CASE record[c] \in objects \ damaged /\ Remember(record[c]) /\ Goto(c, "got", record[c])
    <3>1. record[c] \in Records
      BY <1>0, <2>2
    <3>2. MapLike(memory')
      BY <2>2, <3>1, RememberKeepsMap DEF FInv
    <3>3. CallsTyped'
      BY <2>1, <2>2 DEF FInv, CallsTyped, Goto
    <3>4. \A d \in Calls : Holds(d)'
      BY <1>0, <2>1, <2>2, <3>1 DEF FInv, CallsTyped, Holds, Goto
    <3>5. QED
      BY <3>2, <3>3, <3>4 DEF FInv
  <2>3. CASE record[c] \notin objects \ damaged /\ Goto(c, "got", None) /\ UNCHANGED memory
    <3>1. MapLike(memory') /\ CallsTyped'
      BY <2>1, <2>3 DEF FInv, CallsTyped, Goto, MaybeRecord
    <3>2. c \notin expects
      BY <2>1, <2>3 DEF FInv, Holds
    <3>3. \A d \in Calls : Holds(d)'
      BY <1>0, <2>1, <2>3, <3>2 DEF FInv, CallsTyped, Holds, Goto
    <3>4. QED
      BY <3>1, <3>3 DEF FInv
  <2>4. QED
    BY <1>4, <2>2, <2>3 DEF ReadObject
<1>5. ASSUME NEW c \in Calls, Got(c) \/ PutFails(c)
      PROVE  FInv'
  <2>1. /\ Goto(c, "idle", None) /\ expects' = expects \ {c}
        /\ UNCHANGED <<memory, objects, damaged, directory, key, saved, swept>>
    BY <1>5 DEF Got, PutFails, disk, history, FInv, CallsTyped, Holds
  <2>2. MapLike(memory') /\ CallsTyped'
    BY <2>1 DEF FInv, CallsTyped, Goto, MaybeRecord
  <2>3. \A d \in Calls : Holds(d)'
    BY <1>0, <2>1 DEF FInv, CallsTyped, Holds, Goto
  <2>4. QED
    BY <2>2, <2>3 DEF FInv
<1>6. ASSUME NEW c \in Calls, NEW r \in Records, Put(c, r)
      PROVE  FInv'
  <2>1. /\ pc[c] = "idle" /\ Remember(r) /\ Goto(c, "putDirs", r)
        /\ UNCHANGED <<objects, damaged, directory, key, saved, swept, expects>>
    BY <1>6 DEF Put, disk, history
  <2>2. MapLike(memory')
    BY <2>1, RememberKeepsMap DEF FInv
  <2>3. CallsTyped'
    BY <2>1 DEF FInv, CallsTyped, Goto, MaybeRecord
  <2>4. c \notin expects
    BY <2>1 DEF FInv, Holds
  <2>5. \A d \in Calls : Holds(d)'
    BY <1>0, <2>1, <2>4 DEF FInv, CallsTyped, Holds, Goto
  <2>6. QED
    BY <2>2, <2>3, <2>5 DEF FInv
<1>7. ASSUME NEW c \in Calls, MakeDirectories(c) \/ PutObject(c) \/ SyncObject(c) \/ PutRef(c) \/ SyncRef(c)
      PROVE  FInv'
  <2>1. /\ pc[c] \in Writing /\ record[c] \in Records
        /\ \E label : Goto(c, label, record[c]) \/ Goto(c, label, None)
        /\ objects' \in {objects, objects \cup {record[c]}} /\ damaged' \subseteq damaged
        /\ damaged' \subseteq objects' /\ saved \subseteq saved'
        /\ UNCHANGED <<memory, key, expects>>
        /\ directory' \in [Directories -> {"missing", "made", "durable"}]
        /\ swept' \subseteq Records
    <3>1. CASE MakeDirectories(c)
      BY <1>0, <3>1 DEF MakeDirectories, Writing, FInv, CallsTyped, history
    <3>2. CASE PutObject(c) \/ SyncObject(c) \/ PutRef(c) \/ SyncRef(c)
      BY <1>0, <3>2 DEF PutObject, SyncObject, PutRef, SyncRef, Writing, FInv, CallsTyped, history
    <3>3. QED
      BY <1>7, <3>1, <3>2
  <2>2. c \notin expects
    BY <2>1 DEF FInv, Holds, Writing
  <2>3. PICK label : Goto(c, label, record[c]) \/ Goto(c, label, None)
    BY <2>1
  <2>4. MapLike(memory') /\ CallsTyped'
    BY <2>1, <2>3 DEF FInv, CallsTyped, Goto, MaybeRecord
  <2>5. \A d \in Calls : Holds(d)'
    BY <1>0, <2>1, <2>2, <2>3 DEF FInv, CallsTyped, Holds, Goto
  <2>6. QED
    BY <2>4, <2>5 DEF FInv
<1>8. CASE Crash \/ PowerFails
  <2>1. Restart /\ damaged' \subseteq objects' /\ key' = key
    BY <1>8 DEF Crash, PowerFails, disk, FInv, CallsTyped
  <2>0. directory' \in [Directories -> {"missing", "made", "durable"}] /\ swept' \subseteq Records
    <3>1. CASE Crash
      BY <3>1 DEF Crash, disk, history, FInv, CallsTyped
    <3>2. CASE PowerFails
      BY <3>2, <1>0 DEF PowerFails, FInv, CallsTyped, IInv, DiskShape
    <3>3. QED
      BY <1>8, <3>1, <3>2
  <2>2. MapLike(memory')
    BY <2>1, CapIsPositive DEF Restart, MapLike
  <2>3. CallsTyped' /\ \A d \in Calls : Holds(d)'
    BY <2>0, <2>1 DEF Restart, FInv, CallsTyped, Holds, MaybeRecord
  <2>4. QED
    BY <2>2, <2>3 DEF FInv
<1>9. ASSUME NEW r \in Records, Damage(r)
      PROVE  FInv'
  BY <1>9 DEF Damage, calls, history, FInv, CallsTyped, Holds, MapLike
<1>10. QED
  BY <1>1, <1>2, <1>3, <1>4, <1>5, <1>6, <1>7, <1>8, <1>9 DEF Next

LEMMA ReadersHold == Spec => []FInv
  BY InitFInv, StepFInv, InvariantHolds, PTL DEF Spec

(***************************************************************************)
(* The memory is a map of at most Cap records, and every other variable    *)
(* keeps its type (history-store.ts, remember).                            *)
(***************************************************************************)
THEOREM HistoryTyped == Spec => []TypeOK
<1>1. IInv /\ FInv => TypeOK
  <2> SUFFICES ASSUME IInv, FInv PROVE TypeOK
    OBVIOUS
  <2>1. Len(memory) \in 0..Cap /\ memory \in [1..Len(memory) -> Records]
    BY CapIsPositive, LenProperties DEF FInv, MapLike
  <2>2. memory \in BoundedSeq(Records, Cap)
    BY <2>1 DEF BoundedSeq, SeqOf
  <2>3. QED
    BY <2>2 DEF TypeOK, IInv, DiskShape, FInv, CallsTyped, Reading, Writing
<1>2. QED
  BY <1>1, InvariantHolds, ReadersHold, PTL

(***************************************************************************)
(* A get() of a saved key finds a record, whatever other calls replace or  *)
(* evict and whichever processes died half-way (history-store.ts, get).    *)
(***************************************************************************)
THEOREM SavedFound == Spec => []SavedIsFound
<1>1. FInv => SavedIsFound
  BY DEF FInv, CallsTyped, Holds, SavedIsFound
<1>2. QED
  BY <1>1, ReadersHold, PTL
=============================================================================
