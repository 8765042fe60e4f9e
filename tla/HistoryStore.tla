----------------------------- MODULE HistoryStore -----------------------------
(***************************************************************************)
(* The conversation history of the Claude transport: an LRU memory over    *)
(* content-addressed objects and one reference per key, both written to a  *)
(* temporary file, synced, renamed and made durable by syncing the         *)
(* directory.  Calls overlap; the process may die and the power may fail.  *)
(*                                                                         *)
(* The directories objects/ and refs/ are made by put(), and nothing syncs *)
(* the directory they are made in: a power failure may take either of them *)
(* with all it holds (losing .claude-proxy-cas itself is losing both).     *)
(***************************************************************************)
EXTENDS Naturals, SequencesExt

CONSTANTS
    Keys,       \* digests of (session, account, history)
    Records,    \* what put() stores; a record's address is the record
    KeyOf,      \* the key of each record
    Calls,      \* concurrent get() and put() calls
    Cap,        \* entries that the memory holds
    None        \* no record

ASSUME RecordsHaveKeys == KeyOf \in [Records -> Keys]
ASSUME CapIsPositive == Cap \in Nat \ {0}
ASSUME NoneOutside == None \notin Records

VARIABLES
    memory,     \* the remembered records, the least recently used first
    objects,    \* object files
    damaged,    \* objects whose content does not match their address
    refs,       \* the reference file of each key
    directory,  \* objects/ and refs/: missing, made, or found on the disk again
    kept,       \* objects that survive a power failure, if objects/ does
    leaves,     \* per key: the references one may leave, if refs/ survives
    pc, record, key,    \* per call: where it is, the record, a get()'s key
    swept,      \* history: kept objects that went with their directory
    saved,      \* history: keys that a put() stored without a warning since
                \* a directory was last lost
    expects     \* history: get() calls of a saved key that no damage concerns

disk == <<objects, damaged, refs, directory, kept, leaves>>
calls == <<pc, record, key>>
history == <<swept, saved>>
vars == <<memory, disk, calls, history, expects>>

Directories == {"objects", "refs"}
MaybeRecord == Records \cup {None}

TypeOK ==
    /\ memory \in BoundedSeq(Records, Cap)
    /\ objects \subseteq Records /\ damaged \subseteq objects
    /\ kept \subseteq objects
    /\ directory \in [Directories -> {"missing", "made", "durable"}]
    /\ refs \in [Keys -> MaybeRecord]
    /\ leaves \in [Keys -> SUBSET MaybeRecord]
    /\ pc \in [Calls -> {"idle", "ref", "object", "got",
                         "putDirs", "putObject", "syncObject", "putRef", "syncRef"}]
    /\ record \in [Calls -> MaybeRecord]
    /\ key \in [Calls -> Keys]
    /\ swept \subseteq Records /\ saved \subseteq Keys
    /\ expects \subseteq Calls

Init ==
    /\ memory = <<>>
    /\ objects = {} /\ damaged = {} /\ kept = {}
    /\ directory = [d \in Directories |-> "missing"]
    /\ refs = [k \in Keys |-> None]
    /\ leaves = [k \in Keys |-> {None}]
    /\ pc = [c \in Calls |-> "idle"]
    /\ record = [c \in Calls |-> None]
    /\ key \in [Calls -> Keys]
    /\ swept = {} /\ saved = {} /\ expects = {}

-----------------------------------------------------------------------------
\* Where the memory has the record of key k: a key has at most one.
At(k) == {i \in DOMAIN memory : KeyOf[memory[i]] = k}
Hits(k) == {memory[i] : i \in At(k)}

\* The memory without the entry of key k.
Other(k) == IF At(k) = {} THEN memory ELSE RemoveAt(memory, CHOOSE i \in At(k) : TRUE)

\* Bug: the size is checked before the entry is added.
BugRemember(r) ==
    LET old == Other(KeyOf[r])
    IN  memory' = Append(IF Len(old) > Cap THEN Tail(old) ELSE old, r)

\* remember(): the key becomes the most recently used one; the oldest goes.
Remember(r) ==
    LET new == Append(Other(KeyOf[r]), r)
    IN  memory' = IF Len(new) > Cap THEN Tail(new) ELSE new

Goto(c, label, r) ==
    /\ pc' = [pc EXCEPT ![c] = label]
    /\ record' = [record EXCEPT ![c] = r]

\* get(): from the memory, or on to the reference.
Get(c, k) ==
    /\ pc[c] = "idle"
    /\ key' = [key EXCEPT ![c] = k]
    /\ expects' = IF k \in saved /\ damaged = {} THEN expects \cup {c} ELSE expects
    /\ \/ \E r \in Hits(k) : Remember(r) /\ Goto(c, "got", r)
       \/ Hits(k) = {} /\ Goto(c, "ref", None) /\ UNCHANGED memory
    /\ UNCHANGED <<disk, history>>

ReadRef(c) ==
    /\ pc[c] = "ref"
    /\ Goto(c, IF refs[key[c]] = None THEN "got" ELSE "object", refs[key[c]])
    /\ UNCHANGED <<memory, disk, key, history, expects>>

\* The object is missing or fails its checksum, or it is remembered.
ReadObject(c) ==
    /\ pc[c] = "object"
    /\ IF record[c] \in objects \ damaged
       THEN Remember(record[c]) /\ Goto(c, "got", record[c])
       ELSE Goto(c, "got", None) /\ UNCHANGED memory
    /\ UNCHANGED <<disk, key, history, expects>>

Got(c) ==
    /\ pc[c] = "got"
    /\ Goto(c, "idle", None)
    /\ expects' = expects \ {c}
    /\ UNCHANGED <<memory, disk, key, history>>

Put(c, r) ==
    /\ pc[c] = "idle"
    /\ Remember(r)
    /\ Goto(c, "putDirs", r)
    /\ UNCHANGED <<disk, key, history, expects>>

\* mkdir of the missing directories: some may be made before another fails.
MakeDirectories(c) ==
    /\ pc[c] = "putDirs"
    /\ \E made \in SUBSET {d \in Directories : directory[d] = "missing"} :
          /\ directory' = [d \in Directories |-> IF d \in made THEN "made" ELSE directory[d]]
          /\ IF \E d \in Directories : directory'[d] = "missing"
             THEN Goto(c, "idle", None)
             ELSE Goto(c, "putObject", record[c])
    /\ UNCHANGED <<memory, objects, damaged, refs, kept, leaves, key, history, expects>>

\* Bug: the reference follows before the object's directory is synced.
BugPutObject(c) ==
    /\ pc[c] = "putObject"
    /\ objects' = objects \cup {record[c]}
    /\ damaged' = damaged \ {record[c]}
    /\ Goto(c, "putRef", record[c])
    /\ UNCHANGED <<memory, refs, directory, kept, leaves, key, history, expects>>

\* The object is renamed into place.
PutObject(c) ==
    /\ pc[c] = "putObject"
    /\ objects' = objects \cup {record[c]}
    /\ damaged' = damaged \ {record[c]}
    /\ Goto(c, "syncObject", record[c])
    /\ UNCHANGED <<memory, refs, directory, kept, leaves, key, history, expects>>

SyncObject(c) ==
    /\ pc[c] = "syncObject"
    /\ kept' = objects
    /\ swept' = swept \ objects
    /\ Goto(c, "putRef", record[c])
    /\ UNCHANGED <<memory, objects, damaged, refs, directory, leaves, key, saved, expects>>

\* Bug: the old reference is removed before the new one is renamed.
BugPutRef(c) ==
    LET k == KeyOf[record[c]]
    IN  /\ pc[c] = "putRef"
        /\ refs' = [refs EXCEPT ![k] = IF @ = None THEN record[c] ELSE None]
        /\ leaves' = [leaves EXCEPT ![k] = @ \cup {refs'[k]}]
        /\ Goto(c, IF refs[k] = None THEN "syncRef" ELSE "putRef", record[c])
        /\ UNCHANGED <<memory, objects, damaged, directory, kept, key, history, expects>>

\* The reference is renamed over the one of an earlier or concurrent put().
PutRef(c) ==
    LET k == KeyOf[record[c]]
    IN  /\ pc[c] = "putRef"
        /\ refs' = [refs EXCEPT ![k] = record[c]]
        /\ leaves' = [leaves EXCEPT ![k] = @ \cup {record[c]}]
        /\ Goto(c, "syncRef", record[c])
        /\ UNCHANGED <<memory, objects, damaged, directory, kept, key, history, expects>>

\* Bug: the directory of the references is not synced.
BugSyncRef(c) ==
    /\ pc[c] = "syncRef"
    /\ saved' = saved \cup {KeyOf[record[c]]}
    /\ Goto(c, "idle", None)
    /\ UNCHANGED <<memory, disk, key, swept, expects>>

SyncRef(c) ==
    /\ pc[c] = "syncRef"
    /\ leaves' = [k \in Keys |-> {refs[k]}]
    /\ saved' = saved \cup {KeyOf[record[c]]}
    /\ Goto(c, "idle", None)
    /\ UNCHANGED <<memory, objects, damaged, refs, directory, kept, key, swept, expects>>

\* "History CAS write failed; IDs retained in memory only."
PutFails(c) ==
    /\ pc[c] \in {"putObject", "syncObject", "putRef", "syncRef"}
    /\ Goto(c, "idle", None)
    /\ UNCHANGED <<memory, disk, key, history, expects>>

-----------------------------------------------------------------------------
Restart ==
    /\ memory' = <<>>
    /\ pc' = [c \in Calls |-> "idle"]
    /\ record' = [c \in Calls |-> None]
    /\ expects' = {}

\* The process dies; the files stay as they are.
Crash ==
    /\ Restart
    /\ UNCHANGED <<disk, key, history>>

\* The power fails: renames that no directory sync confirmed may be lost, and
\* so may directories, with the objects that were already safe in them.
PowerFails ==
    /\ Restart
    /\ \E lost \in SUBSET {d \in Directories : directory[d] = "made"} :
          /\ directory' = [d \in Directories |->
                IF d \in lost \/ directory[d] = "missing" THEN "missing" ELSE "durable"]
          /\ IF "objects" \in lost
             THEN objects' = {} /\ swept' = swept \cup kept
             ELSE objects' \in {s \in SUBSET objects : kept \subseteq s} /\ UNCHANGED swept
          /\ refs' \in [Keys -> MaybeRecord]
          /\ \A k \in Keys : refs'[k] \in (IF "refs" \in lost THEN {None} ELSE leaves[k])
          /\ saved' = IF lost = {} THEN saved ELSE {}
    /\ damaged' = damaged \cap objects'
    /\ kept' = objects'
    /\ leaves' = [k \in Keys |-> {refs'[k]}]
    /\ UNCHANGED key

\* An object file is damaged; a get() that runs meanwhile may miss it.
Damage(r) ==
    /\ r \in objects \ damaged
    /\ damaged' = damaged \cup {r}
    /\ expects' = {}
    /\ UNCHANGED <<memory, objects, refs, directory, kept, leaves, calls, history>>

Next ==
    \/ \E c \in Calls :
        \/ \E k \in Keys : Get(c, k)
        \/ ReadRef(c) \/ ReadObject(c) \/ Got(c)
        \/ \E r \in Records : Put(c, r)
        \/ MakeDirectories(c) \/ PutObject(c) \/ SyncObject(c) \/ PutRef(c) \/ SyncRef(c) \/ PutFails(c)
    \/ Crash \/ PowerFails
    \/ \E r \in Records : Damage(r)

Spec == Init /\ [][Next]_vars

-----------------------------------------------------------------------------
(* Properties *)

\* "Publish a complete, synced CAS object before its atomic lookup reference":
\* no power failure leaves a reference to an object that is gone, although
\* several calls rename and sync in the same directories; only losing objects/
\* itself, which nothing syncs, does.
ReferencesResolve ==
    \A k \in Keys : leaves[k] \ {None} \subseteq kept \cup swept

\* What put() stored without a warning is found, reference and object, after a
\* power failure that takes neither directory.
SavedSurvives == \A k \in saved : None \notin leaves[k] /\ leaves[k] \subseteq kept

\* A get() of a saved key finds a record although other calls replace it, the
\* memory evicts it, or an earlier process died half-way.
SavedIsFound ==
    \A c \in expects : pc[c] = "got" => record[c] # None
=============================================================================
