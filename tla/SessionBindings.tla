---------------------------- MODULE SessionBindings ----------------------------
(***************************************************************************)
(* The durable (session, model) -> account bindings of one provider.       *)
(* Every HTTP turn selects its account through select(): selections of one *)
(* key wait for each other on a chain of promises, whose tail is           *)
(* `pending'.  What a selection chooses is left to the module that         *)
(* composes this one (Failover).                                           *)
(***************************************************************************)
EXTENDS Naturals, Sequences, FiniteSets

CONSTANTS
    Accounts,
    Keys,       \* (session, model) pairs
    Turns,      \* HTTP requests
    KeyOf,      \* the key of each turn
    Nothing     \* no binding, no account, no promise

ASSUME NothingOutside == Nothing \notin Accounts \cup Turns
ASSUME TurnsHaveKeys == KeyOf \in [Turns -> Keys]

VARIABLES
    memory,     \* SessionBindings.memory
    disk,       \* the record files
    pending,    \* SessionBindings.pending: the last promise of each chain
    after,      \* the promise a selection waits for
    stage,      \* where each turn is in select()
    preferred,  \* the binding a selection found
    selected,   \* the account a selection chose
    unsaved     \* history: keys whose last record was not written

bindings == <<memory, disk, pending, after, stage, preferred, selected, unsaved>>
promises == <<pending, after>>

Stages == {"out", "queued", "choosing", "writing"}
MaybeAccount == Accounts \cup {Nothing}

BindingsTypeOK ==
    /\ memory \in [Keys -> MaybeAccount]
    /\ disk \in [Keys -> MaybeAccount]
    /\ pending \in [Keys -> Turns \cup {Nothing}]
    /\ after \in [Turns -> Turns \cup {Nothing}]
    /\ stage \in [Turns -> Stages]
    /\ preferred \in [Turns -> MaybeAccount]
    /\ selected \in [Turns -> MaybeAccount]
    /\ unsaved \subseteq Keys

BindingsInit ==
    /\ memory = [k \in Keys |-> Nothing]
    /\ disk \in [Keys -> MaybeAccount]  \* records of an earlier server process
    /\ pending = [k \in Keys |-> Nothing]
    /\ after = [t \in Turns |-> Nothing]
    /\ stage = [t \in Turns |-> "out"]
    /\ preferred = [t \in Turns |-> Nothing]
    /\ selected = [t \in Turns |-> Nothing]
    /\ unsaved = {}

-----------------------------------------------------------------------------
\* select(): the selection joins the chain of its key.
Select(t) ==
    /\ stage' = [stage EXCEPT ![t] = "queued"]
    /\ after' = [after EXCEPT ![t] = pending[KeyOf[t]]]
    /\ pending' = [pending EXCEPT ![KeyOf[t]] = t]
    /\ selected' = [selected EXCEPT ![t] = Nothing]
    /\ UNCHANGED <<memory, disk, preferred, unsaved>>

\* Bug: the finished selection removes whatever promise is the tail.
BugRemoved(t, k) == k = KeyOf[t]

\* The tail of a chain is removed if it is still the finished promise.
Removed(t, k) == pending[k] = t

\* The promise of a selection settles, and the next one goes on, also after a
\* failure.
Settle(t, result) ==
    /\ stage' = [stage EXCEPT ![t] = "out"]
    /\ preferred' = [preferred EXCEPT ![t] = Nothing]
    /\ selected' = [selected EXCEPT ![t] = result]
    /\ after' = [u \in Turns |-> IF after[u] = t THEN Nothing ELSE after[u]]
    /\ pending' = [k \in Keys |-> IF Removed(t, k) THEN Nothing ELSE pending[k]]

\* read(): the remembered binding, or the record on disk.
Read(t) ==
    LET k == KeyOf[t]
        found == IF memory[k] # Nothing THEN memory[k] ELSE disk[k]
    IN  /\ stage[t] = "queued" /\ after[t] = Nothing
        /\ preferred' = [preferred EXCEPT ![t] = found]
        /\ memory' = [memory EXCEPT ![k] = found]
        /\ stage' = [stage EXCEPT ![t] = "choosing"]
        /\ UNCHANGED <<disk, promises, selected, unsaved>>

\* The record cannot be read or does not belong to the key: select() rejects.
ReadFails(t) ==
    /\ stage[t] = "queued" /\ after[t] = Nothing
    /\ memory[KeyOf[t]] = Nothing /\ disk[KeyOf[t]] # Nothing
    /\ Settle(t, Nothing)
    /\ UNCHANGED <<memory, disk, unsaved>>

\* choose() answered account a: the first half of write() if a is new.
Chosen(t, a) ==
    /\ stage[t] = "choosing"
    /\ \/ /\ a = preferred[t]
          /\ Settle(t, a)
          /\ UNCHANGED <<memory, disk, unsaved>>
       \/ /\ a # preferred[t]
          /\ memory' = [memory EXCEPT ![KeyOf[t]] = a]
          /\ selected' = [selected EXCEPT ![t] = a]
          /\ stage' = [stage EXCEPT ![t] = "writing"]
          /\ UNCHANGED <<disk, promises, preferred, unsaved>>

\* Bug: a selection that throws leaves its promise unsettled.
BugNotChosen(t) ==
    /\ stage[t] = "choosing"
    /\ stage' = [stage EXCEPT ![t] = "out"]
    /\ preferred' = [preferred EXCEPT ![t] = Nothing]
    /\ UNCHANGED <<memory, disk, promises, selected, unsaved>>

\* choose() threw.
NotChosen(t) ==
    /\ stage[t] = "choosing"
    /\ Settle(t, Nothing)
    /\ UNCHANGED <<memory, disk, unsaved>>

\* Bug: a record that exists is kept.
BugRecord(t) == IF preferred[t] = Nothing THEN selected[t] ELSE preferred[t]

\* The binding that write() records.
Record(t) == selected[t]

\* The record is renamed into place.
Written(t) ==
    /\ stage[t] = "writing"
    /\ disk' = [disk EXCEPT ![KeyOf[t]] = Record(t)]
    /\ unsaved' = unsaved \ {KeyOf[t]}
    /\ Settle(t, selected[t])
    /\ UNCHANGED memory

\* "Session binding write failed; retained in memory only": before the rename,
\* or after it when the directory could not be synced.
WriteFails(t) ==
    /\ stage[t] = "writing"
    /\ disk' \in {disk, [disk EXCEPT ![KeyOf[t]] = Record(t)]}
    /\ unsaved' = unsaved \cup {KeyOf[t]}
    /\ Settle(t, selected[t])
    /\ UNCHANGED memory

\* The server process dies and restarts: only the records survive.
Restart ==
    /\ memory' = [k \in Keys |-> Nothing]
    /\ pending' = [k \in Keys |-> Nothing]
    /\ after' = [t \in Turns |-> Nothing]
    /\ stage' = [t \in Turns |-> "out"]
    /\ preferred' = [t \in Turns |-> Nothing]
    /\ selected' = [t \in Turns |-> Nothing]
    /\ unsaved' = {}
    /\ UNCHANGED disk

-----------------------------------------------------------------------------
\* "Serialize selection": at most one selection of a key is past its wait.
SelectionExclusive ==
    \A t, u \in Turns :
        (t # u /\ KeyOf[t] = KeyOf[u]) =>
            ~(stage[t] \in {"choosing", "writing"} /\ stage[u] \in {"choosing", "writing"})

\* A binding in memory is also on disk, unless its write is running or the
\* last write failed: a restart finds the binding the turns used.
BindingDurable ==
    \A k \in Keys :
        memory[k] \in {Nothing, disk[k]}
            \/ k \in unsaved
            \/ \E t \in Turns : KeyOf[t] = k /\ stage[t] = "writing" /\ selected[t] = memory[k]
=============================================================================
