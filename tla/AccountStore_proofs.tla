-------------------------- MODULE AccountStore_proofs --------------------------
(***************************************************************************)
(* Theorems about AccountStore for every set of accounts, callers and      *)
(* processes and every bound on issued tokens: first the lock and the file *)
(* it protects, then the rotation of refresh tokens, which rests on both.  *)
(***************************************************************************)
EXTENDS AccountStore, TLAPS

-----------------------------------------------------------------------------
(* The inductive invariant *)

\* Only token() reads outside the lock.
ReadPhase == \A c \in Callers : pc[c] = "read" => op[c] = "token"

\* A refresh in flight works on exactly what is stored.
RefreshPhase ==
    \A c \in Callers : pc[c] = "refresh" =>
        /\ op[c] = "token"
        /\ draft[c] = file
        /\ file[target[c]] \in Record
        /\ ~file[target[c]].disabled
        /\ file[target[c]].refresh # NoToken

Renewed(old, new) ==
    /\ old \in Record /\ ~old.disabled
    /\ new \in Record /\ ~new.disabled
    /\ new.access > old.access /\ new.refresh >= old.refresh

Disabling(old, new) == old \in Record /\ ~old.disabled /\ new = Frozen(old)

\* What a call about to commit does to its own account, unless it imports.
Change(c, old, new) ==
    \/ op[c] = "token" /\ (new = old \/ Renewed(old, new) \/ Disabling(old, new))
    \/ op[c] = "add" /\ new = tokens[c]
    \/ op[c] = "remove" /\ new = Absent

CommitPhase ==
    \A c \in Callers : pc[c] = "commit" =>
        /\ op[c] # "import" =>
              /\ \A a \in Accounts \ {target[c]} : draft[c][a] = file[a]
              /\ Change(c, file[target[c]], draft[c][target[c]])
        /\ op[c] = "import" => draft[c] = Merged(imported[c], file)

\* A login on its way to the file holds tokens the server did issue.
Pending(c) == op[c] = "add" /\ pc[c] \in {"lock", "load", "commit"}

LoginPhase ==
    \A c \in Callers : Pending(c) =>
        /\ tokens[c] \in Record /\ ~tokens[c].disabled
        /\ tokens[c].access <= issued[target[c]]
        /\ tokens[c].refresh <= issued[target[c]]

Known(a, r) == r # Absent => r.access <= issued[a] /\ r.refresh <= issued[a]

StoredKnown == \A a \in Accounts : Known(a, file[a])

DraftKnown ==
    \A c \in Callers : pc[c] = "commit" => \A a \in Accounts : Known(a, draft[c][a])

\* What an import has read was issued; an account it says is disabled is dead.
ImportSound ==
    \A c \in Callers, a \in Accounts :
        /\ Known(a, imported[c][a])
        /\ imported[c][a] # Absent /\ imported[c][a].disabled =>
              imported[c][a].refresh \notin grants[a]

IInv ==
    /\ TypeOK /\ MutualExclusion
    /\ ReadPhase /\ RefreshPhase /\ CommitPhase /\ LoginPhase
    /\ StoredKnown /\ DraftKnown

-----------------------------------------------------------------------------
(* Lemmas about records and about steps at the OAuth server *)

LEMMA RecordFields ==
  ASSUME NEW r \in Record
  PROVE  r.access \in Nat /\ r.refresh \in Nat /\ r.disabled \in BOOLEAN
  BY DEF Record

\* Replacing one account of a file gives a file that differs only there.
LEMMA FileUpdate ==
  ASSUME NEW f \in Files, NEW a \in Accounts, NEW r \in Record \cup {Absent}
  PROVE  /\ [f EXCEPT ![a] = r] \in Files
         /\ [f EXCEPT ![a] = r][a] = r
         /\ \A b \in Accounts \ {a} : [f EXCEPT ![a] = r][b] = f[b]
  BY DEF Files

\* An import into a file gives a file.
LEMMA MergedFile ==
  ASSUME NEW copy \in Files, NEW old \in Files
  PROVE  /\ Merged(copy, old) \in Files
         /\ \A a \in Accounts :
               Merged(copy, old)[a] = IF copy[a] = Absent THEN old[a] ELSE copy[a]
  BY DEF Merged, Files

LEMMA CopyIsFile ==
  ASSUME IInv, NEW copy \in [Accounts -> UNION {Copies(a) : a \in Accounts}]
  PROVE  copy \in Files
  <1>1. ASSUME NEW a \in Accounts PROVE Copies(a) \subseteq Record \cup {Absent}
    BY DEF Copies, Record, IInv, TypeOK
  <1> QED
    BY <1>1 DEF Files

\* Tokens known to be issued stay so while the server issues more.
LEMMA KnownGrows ==
  ASSUME NEW r \in Record \cup {Absent}, NEW n \in Nat, NEW m \in Nat, n <= m,
         r # Absent => r.access <= n /\ r.refresh <= n
  PROVE  r # Absent => r.access <= m /\ r.refresh <= m
  BY RecordFields

LEMMA MoreIssued ==
  ASSUME IInv, NEW a \in Accounts, issued' = [issued EXCEPT ![a] = @ + 1]
  PROVE  /\ issued' \in [Accounts -> Nat]
         /\ \A b \in Accounts : issued[b] \in Nat /\ issued'[b] \in Nat /\ issued[b] <= issued'[b]
  BY DEF IInv, TypeOK

LEMMA StoredKept ==
  ASSUME IInv, UNCHANGED file,
         \A b \in Accounts : issued[b] \in Nat /\ issued'[b] \in Nat /\ issued[b] <= issued'[b]
  PROVE  StoredKnown'
  <1> SUFFICES ASSUME NEW a \in Accounts PROVE Known(a, file[a])'
    BY DEF StoredKnown
  <1>1. file[a] \in Record \cup {Absent} /\ Known(a, file[a])
    BY DEF IInv, TypeOK, Files, StoredKnown
  <1> QED
    BY <1>1, KnownGrows DEF Known

LEMMA LoginKept ==
  ASSUME IInv,
         \A b \in Accounts : issued[b] \in Nat /\ issued'[b] \in Nat /\ issued[b] <= issued'[b],
         \A d \in Callers : Pending(d)' =>
            Pending(d) /\ tokens'[d] = tokens[d] /\ target'[d] = target[d]
  PROVE  LoginPhase'
  <1> SUFFICES ASSUME NEW d \in Callers, Pending(d)'
               PROVE  /\ tokens'[d] \in Record /\ ~tokens'[d].disabled
                      /\ tokens'[d].access <= issued'[target'[d]]
                      /\ tokens'[d].refresh <= issued'[target'[d]]
    BY DEF LoginPhase
  <1>1. /\ tokens'[d] = tokens[d] /\ target'[d] = target[d] /\ target[d] \in Accounts
        /\ tokens[d] \in Record /\ ~tokens[d].disabled
        /\ tokens[d].access <= issued[target[d]]
        /\ tokens[d].refresh <= issued[target[d]]
    BY DEF IInv, TypeOK, LoginPhase
  <1>2. tokens[d] # Absent
    BY <1>1, SentinelsOutside DEF Record
  <1> QED
    BY <1>1, <1>2, KnownGrows

-----------------------------------------------------------------------------
(* Every step preserves the invariant *)

LEMMA InitIInv == Init => IInv
  BY SentinelsOutside DEF Init, IInv, TypeOK, MutualExclusion, ReadPhase, RefreshPhase, CommitPhase,
     LoginPhase, StoredKnown, DraftKnown, Known, Pending, Files, Empty, Record, Critical, NoToken

LEMMA BeginTokenIInv ==
  ASSUME IInv, NEW c \in Callers, NEW a \in Accounts, BeginToken(c, a) PROVE IInv'
  BY SentinelsOutside
  DEF BeginToken, Begin, server, IInv, TypeOK, MutualExclusion, ReadPhase, RefreshPhase,
     CommitPhase, LoginPhase, StoredKnown, DraftKnown, Known, Pending, Change, Renewed, Disabling, Frozen,
     Critical, Files, Record, NoToken, Usable

LEMMA BeginForceIInv ==
  ASSUME IInv, NEW c \in Callers, NEW a \in Accounts, BeginForce(c, a) PROVE IInv'
  BY SentinelsOutside
  DEF BeginForce, Begin, server, IInv, TypeOK, MutualExclusion, ReadPhase, RefreshPhase,
     CommitPhase, LoginPhase, StoredKnown, DraftKnown, Known, Pending, Change, Renewed, Disabling, Frozen,
     Critical, Files, Record, NoToken, Usable

LEMMA BeginRemoveIInv ==
  ASSUME IInv, NEW c \in Callers, NEW a \in Accounts, BeginRemove(c, a) PROVE IInv'
  BY SentinelsOutside
  DEF BeginRemove, Begin, server, IInv, TypeOK, MutualExclusion, ReadPhase, RefreshPhase,
     CommitPhase, LoginPhase, StoredKnown, DraftKnown, Known, Pending, Change, Renewed, Disabling, Frozen,
     Critical, Files, Record, NoToken, Usable

LEMMA BeginAddIInv ==
  ASSUME IInv, NEW c \in Callers, NEW a \in Accounts, NEW refreshable \in BOOLEAN, BeginAdd(c, a, refreshable) PROVE IInv'
  BY SentinelsOutside DEF BeginAdd, Begin, IInv, TypeOK, MutualExclusion, ReadPhase, RefreshPhase,
     CommitPhase, LoginPhase, StoredKnown, DraftKnown, Known, Pending, Change, Renewed, Disabling, Frozen,
     Critical, Files, Record, NoToken, Usable

LEMMA BeginImportIInv ==
  ASSUME IInv, NEW c \in Callers, NEW copy \in [Accounts -> UNION {Copies(a) : a \in Accounts}],
         BeginImport(c, copy)
  PROVE  IInv'
  <1>1. /\ pc[c] = "idle" /\ pc' = [pc EXCEPT ![c] = "lock"]
        /\ op' = [op EXCEPT ![c] = "import"] /\ imported' = [imported EXCEPT ![c] = copy]
        /\ UNCHANGED <<file, lock, target, rejected, tokens, draft, server>>
    BY DEF BeginImport
  <1>2. copy \in Files
    BY CopyIsFile
  <1>3. TypeOK'
    BY <1>1, <1>2 DEF server, IInv, TypeOK, Critical
  <1>4. MutualExclusion' /\ ReadPhase' /\ RefreshPhase'
    BY <1>1 DEF IInv, TypeOK, MutualExclusion, ReadPhase, RefreshPhase, Critical
  <1>5. CommitPhase' /\ LoginPhase'
    BY <1>1 DEF server, IInv, TypeOK, CommitPhase, Change, LoginPhase, Pending
  <1>6. StoredKnown' /\ DraftKnown'
    BY <1>1 DEF server, IInv, TypeOK, StoredKnown, DraftKnown, Known
  <1> QED
    BY <1>3, <1>4, <1>5, <1>6 DEF IInv

LEMMA ReadIInv ==
  ASSUME IInv, NEW c \in Callers, Read(c) PROVE IInv'

  <1>1. PICK at \in {"done", "lock"}, r \in Record \cup {Absent} :
          /\ pc' = [pc EXCEPT ![c] = at] /\ tokens' = [tokens EXCEPT ![c] = r]
    BY DEF Read, Goto, Return, IInv, TypeOK, Files
  <1>2. pc[c] = "read" /\ op[c] = "token" /\ UNCHANGED <<file, lock, call, draft, server>>
    BY DEF Read, IInv, ReadPhase
  <1>3. TypeOK'
    BY <1>1, <1>2 DEF call, server, IInv, TypeOK, Critical
  <1>4. MutualExclusion' /\ ReadPhase' /\ RefreshPhase'
    BY <1>1, <1>2 DEF call, server, IInv, TypeOK, MutualExclusion, ReadPhase, RefreshPhase, Critical
  <1>5. CommitPhase'
    BY <1>1, <1>2 DEF call, server, IInv, TypeOK, CommitPhase, Change
  <1>6. LoginPhase'
    BY <1>1, <1>2 DEF call, server, IInv, TypeOK, LoginPhase, Pending
  <1>7. StoredKnown' /\ DraftKnown'
    BY <1>1, <1>2 DEF call, server, IInv, TypeOK, StoredKnown, DraftKnown, Known
  <1> QED
    BY <1>3, <1>4, <1>5, <1>6, <1>7 DEF IInv

LEMMA AcquireIInv ==
  ASSUME IInv, NEW c \in Callers, Acquire(c) PROVE IInv'
  BY SentinelsOutside
  DEF Acquire, Goto, Return, call, server, Fresh, IInv, TypeOK, MutualExclusion, ReadPhase,
      RefreshPhase,
     CommitPhase, LoginPhase, StoredKnown, DraftKnown, Known, Pending, Change, Renewed, Disabling, Frozen,
     Critical, Files, Record, NoToken, Usable

LEMMA LockTimeoutIInv ==
  ASSUME IInv, NEW c \in Callers, LockTimeout(c) PROVE IInv'
  BY SentinelsOutside
  DEF LockTimeout, Goto, Return, call, server, Fresh, IInv, TypeOK, MutualExclusion,
      ReadPhase, RefreshPhase,
     CommitPhase, LoginPhase, StoredKnown, DraftKnown, Known, Pending, Change, Renewed, Disabling, Frozen,
     Critical, Files, Record, NoToken, Usable

LEMMA CallThrowsIInv ==
  ASSUME IInv, NEW c \in Callers, CallThrows(c) PROVE IInv'
  BY SentinelsOutside
  DEF CallThrows, Goto, Return, call, server, Fresh, IInv, TypeOK, MutualExclusion,
      ReadPhase, RefreshPhase,
     CommitPhase, LoginPhase, StoredKnown, DraftKnown, Known, Pending, Change, Renewed, Disabling, Frozen,
     Critical, Files, Record, NoToken, Usable

LEMMA LoadIInv ==
  ASSUME IInv, ImportSound, NEW c \in Callers, Load(c) PROVE IInv'
  <1> DEFINE a == target[c]
  <1>1. /\ pc[c] = "load" /\ lock = c /\ a \in Accounts /\ file \in Files
        /\ UNCHANGED <<file, lock, call, server>>
    BY DEF Load, IInv, TypeOK, MutualExclusion, Critical
  <1>2. PICK at \in {"commit", "refresh"}, r \in Record \cup {Absent}, f \in Files :
          /\ pc' = [pc EXCEPT ![c] = at] /\ tokens' = [tokens EXCEPT ![c] = r]
          /\ draft' = [draft EXCEPT ![c] = f]
          /\ op[c] # "import" => \A b \in Accounts \ {a} : f[b] = file[b]
          /\ at = "refresh" => /\ op[c] = "token" /\ f = file /\ Usable(file[a])
                               /\ file[a].refresh # NoToken
          /\ op[c] = "token" => f[a] = file[a]
          /\ op[c] = "add" => f[a] = r /\ r = tokens[c]
          /\ op[c] = "remove" => f[a] = Absent
          /\ op[c] = "import" => f = Merged(imported[c], file)
    <2>1. CASE LoadToken(c)
      BY <1>1, <2>1 DEF LoadToken, Goto, Return, Usable, IInv, TypeOK, Files
    <2>2. CASE LoadChange(c)
      <3>1. /\ op[c] \in {"add", "remove", "import"} /\ tokens[c] \in Record \cup {Absent}
            /\ imported[c] \in Files /\ tokens' = [tokens EXCEPT ![c] = tokens[c]]
        BY <2>2 DEF LoadChange, IInv, TypeOK
      <3>2. PICK f \in Files :
              /\ draft' = [draft EXCEPT ![c] = f]
              /\ op[c] = "add" => f = [file EXCEPT ![a] = tokens[c]]
              /\ op[c] = "remove" => f = [file EXCEPT ![a] = Absent]
              /\ op[c] = "import" => f = Merged(imported[c], file)
        <4>1. CASE op[c] = "add"
          BY <1>1, <2>2, <3>1, <4>1, FileUpdate DEF LoadChange
        <4>2. CASE op[c] = "remove"
          BY <1>1, <2>2, <3>1, <4>2, FileUpdate DEF LoadChange
        <4>3. CASE op[c] = "import"
          BY <1>1, <2>2, <3>1, <4>3, MergedFile DEF LoadChange
        <4> QED
          BY <3>1, <4>1, <4>2, <4>3
      <3>3. pc' = [pc EXCEPT ![c] = "commit"]
        BY <2>2 DEF LoadChange, Goto
      <3>4. /\ op[c] = "add" => f[a] = tokens[c]
            /\ op[c] = "remove" => f[a] = Absent
            /\ op[c] # "import" => \A b \in Accounts \ {a} : f[b] = file[b]
        <4>1. CASE op[c] = "add"
          BY <1>1, <3>2, <4>1 DEF Files
        <4>2. CASE op[c] = "remove"
          BY <1>1, <3>2, <4>2 DEF Files
        <4> QED
          BY <3>1, <4>1, <4>2
      <3> QED
        BY <3>1, <3>2, <3>3, <3>4
    <2> QED
      BY <2>1, <2>2 DEF Load
  <1>3. TypeOK'
    BY <1>1, <1>2 DEF call, server, IInv, TypeOK, Critical
  <1>4. MutualExclusion' /\ ReadPhase' /\ RefreshPhase'
    BY <1>1, <1>2 DEF call, server, IInv, TypeOK, MutualExclusion, ReadPhase, RefreshPhase,
       Critical, Usable, Files
  <1>5. CommitPhase'
    BY <1>1, <1>2 DEF call, server, IInv, TypeOK, CommitPhase, Change
  <1>6. LoginPhase'
    BY <1>1, <1>2 DEF call, server, IInv, TypeOK, LoginPhase, Pending
  <1>7. \A b \in Accounts : Known(b, f[b])
    <2> SUFFICES ASSUME NEW b \in Accounts PROVE Known(b, f[b])
      OBVIOUS
    <2>1. Known(b, file[b]) /\ Known(b, imported[c][b]) /\ op[c] \in {"token", "add", "remove", "import"}
      BY DEF IInv, TypeOK, StoredKnown, ImportSound
    <2>2. CASE op[c] = "import"
      BY <1>1, <1>2, <2>1, <2>2, MergedFile DEF IInv, TypeOK
    <2>3. CASE op[c] = "add"
      BY <1>1, <1>2, <2>1, <2>3 DEF IInv, LoginPhase, Pending, Known
    <2>4. CASE op[c] \in {"token", "remove"}
      BY <1>1, <1>2, <2>1, <2>4 DEF Known
    <2> QED
      BY <2>1, <2>2, <2>3, <2>4
  <1>8. StoredKnown' /\ DraftKnown'
    BY <1>1, <1>2, <1>7 DEF call, server, IInv, TypeOK, StoredKnown, DraftKnown, Known
  <1> QED
    BY <1>3, <1>4, <1>5, <1>6, <1>8 DEF IInv

LEMMA RefreshOkIInv ==
  ASSUME IInv, NEW c \in Callers, RefreshOk(c) PROVE IInv'

  <1> DEFINE a == target[c]
             n == NextToken(a)
  <1>1. /\ pc[c] = "refresh" /\ lock = c /\ a \in Accounts /\ op[c] = "token"
        /\ draft[c] = file /\ file[a] \in Record /\ ~file[a].disabled
        /\ Granted(c) = file[a].refresh
        /\ UNCHANGED <<file, lock, call, late, expired, spoiled>>
    BY DEF RefreshOk, Granted, IInv, TypeOK, MutualExclusion, RefreshPhase, Critical
  <1>2. /\ issued[a] \in Nat /\ n = issued[a] + 1
        /\ file[a].access \in Nat /\ file[a].access <= issued[a]
        /\ file[a].refresh \in Nat /\ file[a].refresh <= issued[a]
    BY <1>1, SentinelsOutside DEF NextToken, IInv, TypeOK, StoredKnown, Known, Record
  <1>3. PICK refresh \in {file[a].refresh, n} :
          /\ Grant(a, file[a].refresh, refresh)
          /\ draft' = [draft EXCEPT ![c][a] = Renewal(a, refresh)]
          /\ Return(c, Renewal(a, refresh))
    BY <1>1 DEF RefreshOk
  <1> DEFINE new == Renewal(a, refresh)
  <1>4. /\ new \in Record /\ new.access = n /\ new.refresh = refresh /\ ~new.disabled
        /\ refresh >= file[a].refresh /\ refresh <= n
    BY <1>1, <1>2, <1>3 DEF Renewal, Record
  <1> HIDE DEF new
  <1>5. /\ pc' = [pc EXCEPT ![c] = "commit"]
        /\ tokens' = [tokens EXCEPT ![c] = new]
        /\ issued' = [issued EXCEPT ![a] = n]
        /\ grants' = [grants EXCEPT ![a] = (@ \ {file[a].refresh}) \cup {refresh}]
    BY <1>3 DEF RefreshOk, Goto, Return, Grant, NextToken, new
  <1>6. PICK f \in Files :
          /\ draft' = [draft EXCEPT ![c] = f] /\ f[a] = new
          /\ \A b \in Accounts \ {a} : f[b] = file[b]
    <2>1. file \in Files /\ draft \in [Callers -> Files]
      BY DEF IInv, TypeOK
    <2>2. draft' = [draft EXCEPT ![c] = [file EXCEPT ![a] = new]]
      BY <1>1, <1>3, <2>1 DEF new
    <2>3. LET f == [file EXCEPT ![a] = new]
          IN  f \in Files /\ f[a] = new /\ \A b \in Accounts \ {a} : f[b] = file[b]
      BY <1>1, <1>4, <2>1, FileUpdate
    <2> QED
      BY <2>2, <2>3
  <1>7. TypeOK'
    <2>1. grants' \in [Accounts -> SUBSET Nat] /\ issued' \in [Accounts -> Nat]
      BY <1>1, <1>2, <1>3, <1>5 DEF IInv, TypeOK
    <2>2. tokens' \in [Callers -> Record \cup {Absent}] /\ draft' \in [Callers -> Files]
      BY <1>4, <1>5, <1>6 DEF IInv, TypeOK
    <2> QED
      BY <1>1, <1>5, <2>1, <2>2 DEF call, IInv, TypeOK, Critical
  <1>8. MutualExclusion' /\ ReadPhase' /\ RefreshPhase'
    BY <1>1, <1>5, <1>6 DEF call, IInv, TypeOK, MutualExclusion, ReadPhase,
       RefreshPhase, Critical
  <1>9. CommitPhase'
    BY <1>1, <1>2, <1>4, <1>5, <1>6 DEF call, IInv, TypeOK, CommitPhase, Change, Renewed,
       MutualExclusion, Critical
  <1>10. \A b \in Accounts : issued[b] \in Nat /\ issued'[b] \in Nat /\ issued[b] <= issued'[b]
    BY <1>3, <1>1, MoreIssued DEF Grant
  <1>11. LoginPhase'
    BY <1>1, <1>5, <1>10, LoginKept DEF Pending, call, IInv, TypeOK
  <1>12. StoredKnown'
    BY <1>1, <1>10, StoredKept
  <1>13. DraftKnown'
    <2>1. ASSUME NEW b \in Accounts PROVE Known(b, f[b])'
      BY <1>1, <1>2, <1>4, <1>5, <1>6, <1>12, <2>1 DEF IInv, TypeOK, StoredKnown, Known
    <2>2. ASSUME NEW d \in Callers, pc'[d] = "commit" PROVE d = c
      BY <1>1, <1>5, <2>2 DEF IInv, TypeOK, MutualExclusion, Critical
    <2> QED
      BY <1>6, <2>1, <2>2 DEF DraftKnown, Known, IInv, TypeOK
  <1> QED
    BY <1>7, <1>8, <1>9, <1>11, <1>12, <1>13 DEF IInv

LEMMA RefreshRejectedIInv ==
  ASSUME IInv, NEW c \in Callers, RefreshRejected(c) PROVE IInv'

  <1> DEFINE a == target[c]
             new == Frozen(file[a])
  <1>1. /\ pc[c] = "refresh" /\ lock = c /\ a \in Accounts /\ op[c] = "token"
        /\ draft[c] = file /\ file[a] \in Record /\ ~file[a].disabled
        /\ UNCHANGED <<file, lock, call, tokens, server>>
    BY DEF RefreshRejected, IInv, TypeOK, MutualExclusion, RefreshPhase, Critical
  <1>2. /\ new \in Record
        /\ new.access = file[a].access /\ new.refresh = file[a].refresh
    BY <1>1 DEF Record, Frozen
  <1> HIDE DEF new
  <1>3. PICK f \in Files :
          /\ draft' = [draft EXCEPT ![c] = f] /\ f[a] = new
          /\ \A b \in Accounts \ {a} : f[b] = file[b]
    <2>1. file \in Files /\ draft \in [Callers -> Files]
      BY DEF IInv, TypeOK
    <2>2. draft' = [draft EXCEPT ![c] = [file EXCEPT ![a] = new]]
      <3>1. draft' = [draft EXCEPT ![c] = [draft[c] EXCEPT ![a] = Frozen(draft[c][a])]]
        BY DEF RefreshRejected
      <3>2. draft[c] = file
        BY <1>1
      <3> QED
        BY <3>1, <3>2, Zenon DEF new
    <2>3. LET f == [file EXCEPT ![a] = new]
          IN  f \in Files /\ f[a] = new /\ \A b \in Accounts \ {a} : f[b] = file[b]
      BY <1>1, <1>2, <2>1, FileUpdate
    <2> QED
      BY <2>2, <2>3
  <1>4. pc' = [pc EXCEPT ![c] = "commit"]
    BY DEF RefreshRejected, Goto
  <1>5. TypeOK'
    BY <1>1, <1>3, <1>4 DEF call, server, IInv, TypeOK, Critical
  <1>6. MutualExclusion' /\ ReadPhase' /\ RefreshPhase'
    BY <1>1, <1>3, <1>4 DEF call, server, IInv, TypeOK, MutualExclusion, ReadPhase,
       RefreshPhase, Critical
  <1>7. CommitPhase'
    BY <1>1, <1>3, <1>4 DEF call, server, IInv, TypeOK, CommitPhase, Change, Disabling, new
  <1>8. LoginPhase'
    BY <1>1, <1>3, <1>4 DEF call, server, IInv, TypeOK, LoginPhase, Pending
  <1>9. StoredKnown' /\ DraftKnown'
    BY <1>1, <1>2, <1>3, <1>4, SentinelsOutside
    DEF call, server, IInv, TypeOK, StoredKnown, DraftKnown, Known, Record
  <1> QED
    BY <1>5, <1>6, <1>7, <1>8, <1>9 DEF IInv

LEMMA RefreshFailsIInv ==
  ASSUME IInv, NEW c \in Callers, RefreshFails(c) PROVE IInv'
  BY SentinelsOutside
  DEF RefreshFails, Granted, Goto, call, IInv, TypeOK, MutualExclusion, ReadPhase,
      RefreshPhase,
     CommitPhase, LoginPhase, StoredKnown, DraftKnown, Known, Pending, Change, Renewed, Disabling, Frozen,
     Critical, Files, Record, NoToken, Usable

LEMMA RefreshDiscardedIInv ==
  ASSUME IInv, NEW c \in Callers, RefreshDiscarded(c) PROVE IInv'
  BY SentinelsOutside, BoundIsNat
  DEF RefreshDiscarded, Grant, NextToken, Renewal, Granted, Goto, call, IInv, TypeOK,
      MutualExclusion, ReadPhase, RefreshPhase,
     CommitPhase, LoginPhase, StoredKnown, DraftKnown, Known, Pending, Change, Renewed, Disabling, Frozen,
     Critical, Files, Record, NoToken, Usable

LEMMA CommitIInv ==
  ASSUME IInv, NEW c \in Callers, Commit(c) PROVE IInv'
  <1>1. TypeOK'
    <2>1. \A a \in Accounts : spoiled'[a] \subseteq Nat
      BY RecordFields DEF Commit, Stale, IInv, TypeOK, Files
    <2>2. /\ UNCHANGED <<lock, call, tokens, draft, issued, grants, late, expired>>
          /\ file' = draft[c] /\ pc' = [pc EXCEPT ![c] = "unlock"]
      BY DEF Commit, Goto
    <2>3. spoiled' \in [Accounts -> SUBSET Nat]
      BY <2>1 DEF Commit
    <2> QED
      BY <2>2, <2>3 DEF call, IInv, TypeOK, Critical
  <1>2. MutualExclusion' /\ ReadPhase'
    BY DEF Commit, Goto, call, server, IInv, TypeOK, MutualExclusion, ReadPhase, Critical
  <1>3. RefreshPhase'
    BY
    DEF Commit, Goto, call, server, IInv, TypeOK, MutualExclusion, RefreshPhase, Critical,
        Files, Usable
  <1>4. CommitPhase'
    BY
    DEF Commit, Goto, call, server, IInv, TypeOK, MutualExclusion, RefreshPhase,
        CommitPhase, LoginPhase, Pending, Change, Renewed, Disabling, Frozen, StoredKnown,
        Known, Critical, Files, Record, Usable
  <1>5. LoginPhase'
    BY
    DEF Commit, Goto, call, server, IInv, TypeOK, ReadPhase, LoginPhase, Pending, Critical,
        Usable
  <1>6. StoredKnown' /\ DraftKnown'
    BY SentinelsOutside
    DEF Commit, Goto, call, server, IInv, TypeOK, MutualExclusion, RefreshPhase,
        CommitPhase, LoginPhase, Pending, Change, StoredKnown, DraftKnown, Known, Critical,
        Files, Record, Usable
  <1> QED
    BY <1>1, <1>2, <1>3, <1>4, <1>5, <1>6 DEF IInv

LEMMA UpdateThrowsIInv ==
  ASSUME IInv, NEW c \in Callers, UpdateThrows(c) PROVE IInv'

  <1>1. /\ pc[c] \in {"load", "commit"} /\ target[c] \in Accounts /\ op[c] \in {"token", "add", "remove", "import"}
        /\ UNCHANGED <<file, lock, call, draft, issued, grants, late, expired>>
        /\ pc' = [pc EXCEPT ![c] = "unlock"] /\ tokens' = [tokens EXCEPT ![c] = Absent]
    BY DEF UpdateThrows, Goto, Return, IInv, TypeOK
  <1>2. Unsaved(c) => file[target[c]].refresh \in Nat
    BY <1>1, RecordFields DEF Unsaved, IInv, CommitPhase, Change, Renewed, Disabling, Frozen
  <1>3. spoiled' \in [Accounts -> SUBSET Nat]
    BY <1>1, <1>2 DEF UpdateThrows, IInv, TypeOK
  <1>4. TypeOK'
    BY <1>1, <1>3 DEF call, IInv, TypeOK, Critical
  <1>5. MutualExclusion' /\ ReadPhase' /\ RefreshPhase'
    BY <1>1 DEF call, IInv, TypeOK, MutualExclusion, ReadPhase, RefreshPhase, Critical
  <1>6. CommitPhase' /\ LoginPhase'
    BY <1>1 DEF call, IInv, TypeOK, CommitPhase, Change, LoginPhase, Pending
  <1>7. StoredKnown' /\ DraftKnown'
    BY <1>1 DEF call, IInv, TypeOK, StoredKnown, DraftKnown, Known
  <1> QED
    BY <1>4, <1>5, <1>6, <1>7 DEF IInv

LEMMA UnlockIInv ==
  ASSUME IInv, NEW c \in Callers, Unlock(c) PROVE IInv'
  BY SentinelsOutside
  DEF Unlock, Goto, call, server, Empty, IInv, TypeOK, MutualExclusion, ReadPhase,
      RefreshPhase,
     CommitPhase, LoginPhase, StoredKnown, DraftKnown, Known, Pending, Change, Renewed, Disabling, Frozen,
     Critical, Files, Record, NoToken, Usable

LEMMA UnlockFailsIInv ==
  ASSUME IInv, NEW c \in Callers, UnlockFails(c) PROVE IInv'
  BY SentinelsOutside
  DEF UnlockFails, Goto, Return, call, server, Empty, IInv, TypeOK, MutualExclusion, ReadPhase,
      RefreshPhase,
     CommitPhase, LoginPhase, StoredKnown, DraftKnown, Known, Pending, Change, Renewed, Disabling, Frozen,
     Critical, Files, Record, NoToken, Usable

LEMMA UnauthorizedIInv ==
  ASSUME IInv, NEW c \in Callers, Unauthorized(c) PROVE IInv'
  BY SentinelsOutside
  DEF Unauthorized, Goto, Return, server, IInv, TypeOK, MutualExclusion, ReadPhase,
      RefreshPhase,
     CommitPhase, LoginPhase, StoredKnown, DraftKnown, Known, Pending, Change, Renewed, Disabling, Frozen,
     Critical, Files, Record, NoToken, Usable

LEMMA FinishIInv ==
  ASSUME IInv, NEW c \in Callers, Finish(c) PROVE IInv'
  <1>1. /\ pc[c] = "done" /\ pc' = [pc EXCEPT ![c] = "idle"]
        /\ tokens' = [tokens EXCEPT ![c] = Absent] /\ op' = [op EXCEPT ![c] = "token"]
        /\ rejected' = [rejected EXCEPT ![c] = 0] /\ imported' = [imported EXCEPT ![c] = Empty]
        /\ UNCHANGED <<file, lock, target, draft, server>>
    BY DEF Finish, Goto, Return, NoToken
  <1>2. Empty \in Files
    BY DEF Empty, Files
  <1>3. TypeOK'
    BY <1>1, <1>2 DEF server, IInv, TypeOK, Critical
  <1>4. MutualExclusion' /\ ReadPhase' /\ RefreshPhase'
    BY <1>1 DEF IInv, TypeOK, MutualExclusion, ReadPhase, RefreshPhase, Critical
  <1>5. CommitPhase' /\ LoginPhase'
    BY <1>1 DEF server, IInv, TypeOK, CommitPhase, Change, LoginPhase, Pending
  <1>6. StoredKnown' /\ DraftKnown'
    BY <1>1 DEF server, IInv, TypeOK, StoredKnown, DraftKnown, Known
  <1> QED
    BY <1>3, <1>4, <1>5, <1>6 DEF IInv

LEMMA CrashIInv ==
  ASSUME IInv, NEW p \in Processes, Crash(p) PROVE IInv'

  <1> DEFINE dead == Calls(p)
  <1>1. /\ UNCHANGED <<file, target, issued, grants, expired>>
        /\ pc' = [d \in Callers |-> IF d \in dead THEN "idle" ELSE pc[d]]
        /\ op' = [d \in Callers |-> IF d \in dead THEN "token" ELSE op[d]]
        /\ tokens' = [d \in Callers |-> IF d \in dead THEN Absent ELSE tokens[d]]
        /\ draft' = [d \in Callers |-> IF d \in dead THEN Empty ELSE draft[d]]
        /\ lock' = IF lock \in dead THEN Orphan ELSE lock
    BY DEF Crash
  <1>2. ASSUME NEW d \in Callers, Unsaved(d) PROVE file[target[d]].refresh \in Nat
    BY <1>2, RecordFields DEF Unsaved, IInv, CommitPhase, Change, Renewed, Disabling, Frozen
  <1>3. ASSUME NEW d \in Callers, pc[d] = "refresh" PROVE Granted(d) \in Nat
    BY <1>3, RecordFields DEF Granted, IInv, RefreshPhase
  <1>4. spoiled' \in [Accounts -> SUBSET Nat] /\ late' \in [Accounts -> SUBSET Nat]
    BY <1>2, <1>3 DEF Crash, Calls, IInv, TypeOK
  <1>5. TypeOK'
    <2>1. rejected' \in [Callers -> Nat]
      BY DEF Crash, IInv, TypeOK, NoToken
    <2>2. draft' \in [Callers -> Files] /\ imported' \in [Callers -> Files]
      BY <1>1 DEF Crash, IInv, TypeOK, Empty, Files
    <2> QED
      BY <1>1, <1>4, <2>1, <2>2 DEF IInv, TypeOK
  <1>6. MutualExclusion' /\ ReadPhase' /\ RefreshPhase'
    BY <1>1 DEF IInv, TypeOK, MutualExclusion, ReadPhase, RefreshPhase, Critical, Calls
  <1>7. CommitPhase' /\ LoginPhase'
    <2>1. \A d \in Callers \ dead : imported'[d] = imported[d]
      BY DEF Crash
    <2> QED
      BY <1>1, <2>1 DEF IInv, TypeOK, CommitPhase, Change, LoginPhase, Pending
  <1>8. StoredKnown' /\ DraftKnown'
    BY <1>1 DEF IInv, TypeOK, StoredKnown, DraftKnown, Known
  <1> QED
    BY <1>5, <1>6, <1>7, <1>8 DEF IInv

LEMMA RemoveOrphanLockIInv ==
  ASSUME IInv, RemoveOrphanLock PROVE IInv'
  BY SentinelsOutside
  DEF RemoveOrphanLock, call, server, IInv, TypeOK, MutualExclusion, ReadPhase,
      RefreshPhase,
     CommitPhase, LoginPhase, StoredKnown, DraftKnown, Known, Pending, Change, Renewed, Disabling, Frozen,
     Critical, Files, Record, NoToken, Usable

LEMMA AuthLateIInv ==
  ASSUME IInv, NEW a \in Accounts, NEW r \in late[a], AuthLate(a, r) PROVE IInv'

  <1>1. /\ UNCHANGED <<file, lock, pc, call, tokens, draft, expired>>
        /\ issued' = [issued EXCEPT ![a] = @ + 1]
        /\ issued[a] \in Nat /\ r \in Nat
    BY DEF AuthLate, Grant, IInv, TypeOK
  <1>2. \A b \in Accounts : issued[b] \in Nat /\ issued'[b] \in Nat /\ issued[b] <= issued'[b]
    BY <1>1, MoreIssued
  <1>3. TypeOK'
    BY <1>1 DEF AuthLate, Grant, NextToken, call, IInv, TypeOK
  <1>4. MutualExclusion' /\ ReadPhase' /\ RefreshPhase' /\ CommitPhase'
    BY <1>1 DEF call, IInv, MutualExclusion, ReadPhase, RefreshPhase, CommitPhase, Change
  <1>5. LoginPhase' /\ StoredKnown'
    BY <1>1, <1>2, LoginKept, StoredKept DEF call, Pending
  <1>6. DraftKnown'
    BY <1>1, <1>2, KnownGrows DEF call, IInv, TypeOK, DraftKnown, Known, Files
  <1> QED
    BY <1>3, <1>4, <1>5, <1>6 DEF IInv

LEMMA LoginElsewhereIInv ==
  ASSUME IInv, NEW a \in Accounts, LoginElsewhere(a) PROVE IInv'
  <1>1. /\ UNCHANGED <<file, lock, pc, call, tokens, draft, late, expired, spoiled>>
        /\ issued' = [issued EXCEPT ![a] = @ + 1] /\ issued[a] \in Nat
    BY DEF LoginElsewhere, NextToken, IInv, TypeOK
  <1>2. \A b \in Accounts : issued[b] \in Nat /\ issued'[b] \in Nat /\ issued[b] <= issued'[b]
    BY <1>1, MoreIssued
  <1>3. TypeOK'
    BY <1>1 DEF LoginElsewhere, NextToken, call, IInv, TypeOK
  <1>4. MutualExclusion' /\ ReadPhase' /\ RefreshPhase' /\ CommitPhase'
    BY <1>1 DEF call, IInv, MutualExclusion, ReadPhase, RefreshPhase, CommitPhase, Change
  <1>5. LoginPhase' /\ StoredKnown'
    BY <1>1, <1>2, LoginKept, StoredKept DEF call, Pending
  <1>6. DraftKnown'
    BY <1>1, <1>2, KnownGrows DEF call, IInv, TypeOK, DraftKnown, Known, Files
  <1> QED
    BY <1>3, <1>4, <1>5, <1>6 DEF IInv

LEMMA AuthRevokeIInv ==
  ASSUME IInv, NEW a \in Accounts, NEW r \in grants[a], AuthRevoke(a, r) PROVE IInv'
  BY SentinelsOutside DEF AuthRevoke, call, IInv, TypeOK, MutualExclusion, ReadPhase, RefreshPhase,
     CommitPhase, LoginPhase, StoredKnown, DraftKnown, Known, Pending, Change, Renewed, Disabling, Frozen,
     Critical, Files, Record, NoToken, Usable

LEMMA ExpireIInv ==
  ASSUME IInv, NEW a \in Accounts, Expire(a) PROVE IInv'
  BY SentinelsOutside DEF Expire, call, IInv, TypeOK, MutualExclusion, ReadPhase, RefreshPhase,
     CommitPhase, LoginPhase, StoredKnown, DraftKnown, Known, Pending, Change, Renewed, Disabling, Frozen,
     Critical, Files, Record, NoToken, Usable

LEMMA StutterIInv ==
  ASSUME IInv, UNCHANGED vars PROVE IInv'
  BY DEF vars, IInv, TypeOK, MutualExclusion, ReadPhase, RefreshPhase, CommitPhase, Change,
     LoginPhase, Pending, StoredKnown, DraftKnown, Known

LEMMA NextIInv ==
  ASSUME IInv, ImportSound, [Next]_vars PROVE IInv'
  <1>1. ASSUME NEW c \in Callers, Start(c) PROVE IInv'
    BY <1>1, BeginTokenIInv, BeginForceIInv, BeginRemoveIInv, BeginAddIInv, BeginImportIInv DEF Start
  <1>2. ASSUME NEW c \in Callers, Step(c) PROVE IInv'
    BY <1>2, ReadIInv, AcquireIInv, LockTimeoutIInv, LoadIInv, RefreshOkIInv,
       RefreshRejectedIInv, RefreshFailsIInv, RefreshDiscardedIInv, CommitIInv,
       UpdateThrowsIInv, UnlockIInv DEF Step
  <1>3. ASSUME NEW c \in Callers, Fails(c) \/ Unauthorized(c) \/ Finish(c) PROVE IInv'
    BY <1>3, CallThrowsIInv, UnlockFailsIInv, UnauthorizedIInv, FinishIInv DEF Fails
  <1>4. ASSUME Environment PROVE IInv'
    BY <1>4, CrashIInv, RemoveOrphanLockIInv, ExpireIInv, LoginElsewhereIInv, AuthRevokeIInv,
       AuthLateIInv DEF Environment
  <1>5. ASSUME UNCHANGED vars PROVE IInv'
    BY <1>5, StutterIInv
  <1> QED
    BY <1>1, <1>2, <1>3, <1>4, <1>5 DEF Next

-----------------------------------------------------------------------------
(* What an import has read stays sound *)

LEMMA InitImport == Init => ImportSound
  BY DEF Init, Empty, ImportSound, Known

\* The server accepts what it accepted, and what it issues now.
LEMMA ServerSteps ==
  ASSUME IInv, [Next]_vars, NEW a \in Accounts
  PROVE  /\ issued[a] \in Nat /\ issued'[a] \in Nat /\ issued[a] <= issued'[a]
         /\ grants'[a] \subseteq grants[a] \cup {issued[a] + 1}
  <1> DEFINE Goal == /\ issued'[a] \in Nat /\ issued[a] <= issued'[a]
                     /\ grants'[a] \subseteq grants[a] \cup {issued[a] + 1}
  <1>0. issued[a] \in Nat
    BY DEF IInv, TypeOK
  <1>1. ASSUME UNCHANGED <<issued, grants>> PROVE Goal
    BY <1>0, <1>1
  <1>2. ASSUME NEW b \in Accounts, NEW r \in grants[b], NEW n \in {r, issued[b] + 1}, Grant(b, r, n) PROVE Goal
    BY <1>0, <1>2 DEF Grant, IInv, TypeOK
  <1>3. ASSUME NEW c \in Callers, Start(c) PROVE Goal
    <2>1. CASE \E b \in Accounts, refreshable \in BOOLEAN : BeginAdd(c, b, refreshable)
      BY <1>0, <2>1 DEF BeginAdd, IInv, TypeOK
    <2>2. CASE UNCHANGED <<issued, grants>>
      BY <1>1, <2>2
    <2> HIDE DEF Goal
    <2> QED
      BY <1>3, <2>1, <2>2 DEF Start, BeginToken, BeginForce, BeginRemove, BeginImport, server
  <1>4. ASSUME NEW c \in Callers, Step(c) PROVE Goal
    <2>1. CASE RefreshOk(c) \/ RefreshDiscarded(c)
      <3>1. PICK n \in {Granted(c), issued[target[c]] + 1} :
              /\ Grant(target[c], Granted(c), n) /\ Granted(c) \in grants[target[c]]
              /\ target[c] \in Accounts
        BY <2>1 DEF RefreshOk, RefreshDiscarded, NextToken, IInv, TypeOK
      <3> HIDE DEF Goal
      <3> QED
        BY <1>2, <3>1
    <2>2. CASE ~(RefreshOk(c) \/ RefreshDiscarded(c))
      BY <1>1, <1>4, <2>2 DEF Step, Read, Acquire, LockTimeout, Load, RefreshRejected,
         RefreshFails, Commit, UpdateThrows, Unlock, server
    <2> QED
      BY <2>1, <2>2
  <1>5. ASSUME NEW c \in Callers, Fails(c) \/ Unauthorized(c) \/ Finish(c) PROVE Goal
    BY <1>1, <1>5 DEF Fails, CallThrows, UnlockFails, Unauthorized, Finish, server
  <1>6. ASSUME Environment PROVE Goal
    <2>1. ASSUME NEW b \in Accounts, NEW r \in late[b], AuthLate(b, r) PROVE Goal
      BY <1>2, <2>1 DEF AuthLate, NextToken
    <2>2. ASSUME NEW b \in Accounts, LoginElsewhere(b) PROVE Goal
      BY <1>0, <2>2 DEF LoginElsewhere, NextToken, IInv, TypeOK
    <2>3. ASSUME NEW b \in Accounts, NEW r \in grants[b], AuthRevoke(b, r) PROVE Goal
      BY <1>0, <2>3 DEF AuthRevoke, IInv, TypeOK
    <2>4. ASSUME \/ \E p \in Processes : Crash(p)
                 \/ RemoveOrphanLock
                 \/ \E b \in Accounts : Expire(b)
          PROVE  Goal
      BY <1>1, <2>4 DEF Crash, RemoveOrphanLock, Expire, server
    <2> HIDE DEF Goal
    <2> QED
      BY <1>6, <2>1, <2>2, <2>3, <2>4 DEF Environment
  <1>7. ASSUME UNCHANGED vars PROVE Goal
    BY <1>1, <1>7 DEF vars
  <1> HIDE DEF Goal
  <1>8. Goal
    BY <1>3, <1>4, <1>5, <1>6, <1>7 DEF Next
  <1> QED
    BY <1>0, <1>8 DEF Goal

\* An import reads its file once.
LEMMA ImportedSteps ==
  ASSUME IInv, [Next]_vars, NEW c \in Callers
  PROVE  \/ imported'[c] = imported[c]
         \/ imported'[c] = Empty
         \/ /\ \E copy \in [Accounts -> UNION {Copies(b) : b \in Accounts}] : BeginImport(c, copy)
            /\ \A a \in Accounts : imported'[c][a] \in Copies(a)
            /\ UNCHANGED <<issued, grants>>
  <1>1. ASSUME NEW d \in Callers, Start(d)
        PROVE  \/ UNCHANGED imported
               \/ \E copy \in [Accounts -> UNION {Copies(b) : b \in Accounts}] :
                     /\ BeginImport(d, copy)
                     /\ imported' = [imported EXCEPT ![d] = copy]
                     /\ \A a \in Accounts : copy[a] \in Copies(a)
                     /\ UNCHANGED <<issued, grants>>
    BY <1>1 DEF Start, BeginToken, BeginForce, BeginRemove, BeginAdd, Begin, BeginImport, server
  <1>2. ASSUME NEW d \in Callers, Step(d) \/ Fails(d) \/ Unauthorized(d) PROVE UNCHANGED imported
    BY <1>2 DEF Step, Fails, Read, Acquire, LockTimeout, CallThrows, Load, RefreshOk,
       RefreshRejected, RefreshFails, RefreshDiscarded, Commit, UpdateThrows, Unlock, UnlockFails,
       Unauthorized, call
  <1>3. ASSUME NEW d \in Callers, Finish(d) PROVE imported' = [imported EXCEPT ![d] = Empty]
    BY <1>3 DEF Finish
  <1>4. ASSUME Environment PROVE imported'[c] = imported[c] \/ imported'[c] = Empty
    BY <1>4 DEF Environment, Crash, RemoveOrphanLock, Expire, LoginElsewhere, AuthRevoke,
       AuthLate, call
  <1>5. imported \in [Callers -> Files]
    BY DEF IInv, TypeOK
  <1>6. CASE UNCHANGED vars
    BY <1>6 DEF vars
  <1>7. ASSUME NEW d \in Callers, Start(d) \/ Step(d) \/ Fails(d) \/ Unauthorized(d) \/ Finish(d)
        PROVE  \/ imported'[c] = imported[c]
               \/ imported'[c] = Empty
               \/ /\ \E copy \in [Accounts -> UNION {Copies(b) : b \in Accounts}] : BeginImport(c, copy)
                  /\ \A a \in Accounts : imported'[c][a] \in Copies(a)
                  /\ UNCHANGED <<issued, grants>>
    <2>1. CASE d = c
      BY <1>1, <1>2, <1>3, <1>5, <1>7, <2>1
    <2>2. CASE d # c
      BY <1>1, <1>2, <1>3, <1>5, <1>7, <2>2
    <2> QED
      BY <2>1, <2>2
  <1> QED
    BY <1>4, <1>6, <1>7 DEF Next

\* What the file that an import reads says of an account.
LEMMA CopySound ==
  ASSUME IInv, NEW a \in Accounts, NEW r \in Copies(a)
  PROVE  /\ Known(a, r)
         /\ r # Absent /\ r.disabled => r.refresh \notin grants[a]
  BY DEF Copies, Known, IInv, TypeOK

LEMMA NextImport ==
  ASSUME IInv, ImportSound, [Next]_vars PROVE ImportSound'
  <1> SUFFICES ASSUME NEW c \in Callers, NEW a \in Accounts
               PROVE  /\ Known(a, imported[c][a])'
                      /\ imported'[c][a] # Absent /\ imported'[c][a].disabled =>
                            imported'[c][a].refresh \notin grants'[a]
    BY DEF ImportSound
  <1>1. CASE imported'[c] = imported[c]
    <2>1. /\ imported[c][a] \in Record \cup {Absent} /\ Known(a, imported[c][a])
          /\ imported[c][a] # Absent /\ imported[c][a].disabled =>
                imported[c][a].refresh \notin grants[a]
      BY DEF ImportSound, IInv, TypeOK, Files
    <2> QED
      BY <1>1, <2>1, ServerSteps, RecordFields DEF Known
  <1>2. CASE imported'[c] = Empty
    BY <1>2 DEF Empty, Known
  <1>3. CASE imported'[c][a] \in Copies(a) /\ UNCHANGED <<issued, grants>>
    BY <1>3, CopySound DEF Known
  <1> QED
    BY <1>1, <1>2, <1>3, ImportedSteps

\* The inductive invariant holds in every reachable state, for any number of
\* accounts, callers and processes.
THEOREM Invariance == Spec => [](IInv /\ ImportSound)
  <1>1. (IInv /\ ImportSound) /\ [Next]_vars => (IInv /\ ImportSound)'
    BY NextIInv, NextImport
  <1> QED
    BY InitIInv, InitImport, <1>1, PTL DEF Spec

\* Every variable keeps its type.
THEOREM TypeCorrect == Spec => []TypeOK
  <1>1. IInv => TypeOK
    BY DEF IInv
  <1> QED
    BY Invariance, <1>1, PTL

\* The critical section of update() belongs to the owner of the lock
\* directory, across crashes and the removal of orphan locks.
THEOREM Exclusion == Spec => []MutualExclusion
  <1>1. IInv => MutualExclusion
    BY DEF IInv
  <1> QED
    BY Invariance, <1>1, PTL

\* Rewriting the whole file never undoes a change to another account.
THEOREM NothingLost == Spec => []NoLostUpdate
  <1>1. IInv => NoLostUpdate
    <2> SUFFICES ASSUME IInv, NEW c \in Callers, pc[c] \in {"refresh", "commit"},
                        NEW a \in Accounts \ Own(c)
                 PROVE  draft[c][a] = file[a]
      BY DEF NoLostUpdate
    <2>1. CASE pc[c] = "refresh"
      BY <2>1 DEF IInv, RefreshPhase
    <2>2. CASE pc[c] = "commit" /\ op[c] = "import"
      BY <2>2, MergedFile DEF Own, IInv, TypeOK, CommitPhase
    <2>3. CASE pc[c] = "commit" /\ op[c] # "import"
      BY <2>3 DEF Own, IInv, CommitPhase
    <2> QED
      BY <2>1, <2>2, <2>3
  <1> QED
    BY Invariance, <1>1, PTL

-----------------------------------------------------------------------------
(* AccountStore implements Vault *)

\* The import of a file that is on its way into the accounts file.
Importing(c) == op[c] = "import" /\ pc[c] \in {"lock", "load", "commit"}

LEMMA InitVault == Init => Abstract!Init
  BY DEF Init, Empty, Offered, Announced, Abstract!Init

\* A call that a step does not start keeps what it is about to store.
Kept(d) ==
    /\ Pending(d)' => Pending(d) /\ tokens'[d] = tokens[d] /\ target'[d] = target[d]
    /\ Importing(d)' => Importing(d) /\ imported'[d] = imported[d]

LEMMA KeptWithdrawn ==
  ASSUME \A d \in Callers : Kept(d)
  PROVE  Abstract!Withdrawn
  <1>1. \A a \in Accounts : Offered'[a] \subseteq Offered[a]
    BY DEF Kept, Offered, Pending
  <1>2. Announced' \subseteq Announced
    BY DEF Kept, Announced, Importing
  <1> QED
    BY <1>1, <1>2 DEF Abstract!Withdrawn

\* A step that starts no login or import and stores nothing only withdraws them.
LEMMA WithdrawVault ==
  ASSUME UNCHANGED file, \A d \in Callers : Kept(d)
  PROVE  Abstract!Next
  BY KeptWithdrawn DEF Abstract!Next, Abstract!Withdraw

LEMMA BeginImportVault ==
  ASSUME IInv, NEW c \in Callers, NEW copy \in [Accounts -> UNION {Copies(a) : a \in Accounts}],
         BeginImport(c, copy)
  PROVE  Abstract!Next
  <1>1. /\ pc[c] = "idle" /\ pc' = [pc EXCEPT ![c] = "lock"]
        /\ op' = [op EXCEPT ![c] = "import"] /\ imported' = [imported EXCEPT ![c] = copy]
        /\ UNCHANGED <<file, target, tokens>>
    BY DEF BeginImport
  <1>2. copy \in [Accounts -> Abstract!Record \cup {Absent}]
    BY CopyIsFile DEF Files, Record, Abstract!Record
  <1>3. /\ Importing(c)' /\ imported'[c] = copy /\ ~Importing(c) /\ ~Pending(c) /\ ~Pending(c)'
        /\ \A d \in Callers \ {c} :
             /\ Importing(d)' <=> Importing(d)
             /\ Pending(d)' <=> Pending(d)
             /\ imported'[d] = imported[d]
    BY <1>1 DEF Importing, Pending, IInv, TypeOK
  <1>4. Announced' = Announced \cup {copy}
    <2>1. ASSUME NEW f \in Announced' PROVE f \in Announced \cup {copy}
      BY <1>3, <2>1 DEF Announced, Importing
    <2>2. ASSUME NEW f \in Announced PROVE f \in Announced'
      BY <1>3, <2>2 DEF Announced, Importing
    <2>3. copy \in Announced'
      BY <1>3 DEF Announced, Importing
    <2> QED
      BY <2>1, <2>2, <2>3
  <1>5. UNCHANGED Offered
    BY <1>1, <1>3 DEF Offered, Pending
  <1>6. copy \in Announced'
    BY <1>4
  <1> QED
    BY <1>1, <1>2, <1>4, <1>5, <1>6 DEF Abstract!Next, Abstract!Announce

LEMMA BeginAddVault ==
  ASSUME IInv, NEW c \in Callers, NEW a \in Accounts, NEW refreshable \in BOOLEAN,
         BeginAdd(c, a, refreshable)
  PROVE  Abstract!Next
  <1> DEFINE new == [access |-> issued[a] + 1, disabled |-> FALSE,
                     refresh |-> IF refreshable THEN issued[a] + 1 ELSE NoToken]
  <1>1. new \in Record /\ ~new.disabled
    BY DEF IInv, TypeOK, Record, NoToken
  <1> HIDE DEF new
  <1>2. /\ pc[c] = "idle"
        /\ pc' = [pc EXCEPT ![c] = "lock"] /\ op' = [op EXCEPT ![c] = "add"]
        /\ target' = [target EXCEPT ![c] = a] /\ tokens' = [tokens EXCEPT ![c] = new]
        /\ UNCHANGED file
    BY DEF BeginAdd, Begin, new
  <1>3. Offered' = [Offered EXCEPT ![a] = @ \cup {new}]
    <2>1. /\ Pending(c)' /\ tokens'[c] = new /\ target'[c] = a /\ ~Pending(c)
          /\ \A d \in Callers \ {c} :
               /\ Pending(d)' <=> Pending(d)
               /\ tokens'[d] = tokens[d] /\ target'[d] = target[d]
      BY <1>2 DEF Pending, IInv, TypeOK
    <2>2. Offered'[a] = Offered[a] \cup {new}
      <3>1. ASSUME NEW r \in Offered'[a] PROVE r \in Offered[a] \cup {new}
        BY <2>1, <3>1 DEF Offered, Pending
      <3>2. new \in Offered'[a]
        BY <2>1 DEF Offered, Pending
      <3>3. ASSUME NEW r \in Offered[a] PROVE r \in Offered'[a]
        BY <2>1, <3>3 DEF Offered, Pending
      <3> QED
        BY <3>1, <3>2, <3>3
    <2>3. ASSUME NEW b \in Accounts \ {a} PROVE Offered'[b] = Offered[b]
      <3>1. ASSUME NEW r \in Offered'[b] PROVE r \in Offered[b]
        BY <2>1, <3>1 DEF Offered, Pending
      <3>2. ASSUME NEW r \in Offered[b] PROVE r \in Offered'[b]
        BY <2>1, <3>2 DEF Offered, Pending
      <3> QED
        BY <3>1, <3>2
    <2>4. Offered' = [b \in Accounts |-> Offered'[b]] /\ Offered = [b \in Accounts |-> Offered[b]]
      BY DEF Offered
    <2> HIDE DEF Offered
    <2> QED
      BY <2>2, <2>3, <2>4
  <1>4. new \in Offered'[a]
    BY <1>2 DEF Offered, IInv, TypeOK
  <1>5. UNCHANGED Announced
    BY <1>2 DEF BeginAdd, Begin, Announced, IInv, TypeOK
  <1> QED
    BY <1>1, <1>2, <1>3, <1>4, <1>5 DEF Abstract!Next, Abstract!Offer, Abstract!Record, Record

LEMMA CommitVault ==
  ASSUME IInv, NEW c \in Callers, Commit(c)
  PROVE  [Abstract!Next]_<<file, Offered, Announced>>
  <1> DEFINE a == target[c]
             old == file[a]
             new == draft[c][a]
  <1>1. /\ pc[c] = "commit" /\ a \in Accounts /\ file' = draft[c]
        /\ pc' = [pc EXCEPT ![c] = "unlock"] /\ UNCHANGED <<op, target, tokens, imported>>
        /\ op[c] # "import" => Change(c, old, new)
    BY DEF Commit, Goto, call, IInv, TypeOK, CommitPhase
  <1>2. op[c] # "import" => file' = [file EXCEPT ![a] = new]
    BY <1>1 DEF IInv, TypeOK, Files, CommitPhase
  <1>3. Abstract!Withdrawn
    <2>1. ASSUME NEW d \in Callers PROVE Kept(d)
      BY <1>1 DEF Kept, Pending, Importing, IInv, TypeOK
    <2> QED
      BY <2>1, KeptWithdrawn
  <1>4. /\ op[c] # "add" => UNCHANGED Offered
        /\ op[c] # "import" => UNCHANGED Announced
    BY <1>1 DEF Offered, Announced, IInv, TypeOK
  <1>5. CASE op[c] = "token" /\ new = old
    BY <1>2, <1>4, <1>5 DEF IInv, TypeOK, Files
  <1>6. CASE op[c] = "token" /\ Renewed(old, new)
    BY <1>1, <1>2, <1>4, <1>6, SentinelsOutside
    DEF Renewed, Record, Abstract!Next, Abstract!Refresh, Abstract!Record, IInv, TypeOK, Files
  <1>7. CASE op[c] = "token" /\ Disabling(old, new)
    BY <1>1, <1>2, <1>4, <1>7, SentinelsOutside
    DEF Disabling, Frozen, Record, Abstract!Next, Abstract!Disable, IInv, TypeOK, Files
  <1>8. CASE op[c] = "add" /\ new = tokens[c]
    <2>1. new \in Offered[a]
      BY <1>1, <1>8 DEF Offered
    <2> QED
      BY <1>1, <1>2, <1>3, <1>8, <2>1 DEF Abstract!Next, Abstract!Login
  <1>9. CASE op[c] = "remove" /\ new = Absent
    BY <1>1, <1>2, <1>4, <1>9 DEF Abstract!Next, Abstract!Remove
  <1>10. CASE op[c] = "import"
    <2>1. imported[c] \in Announced
      BY <1>1, <1>10 DEF Announced
    <2>2. file' = Merged(imported[c], file)
      BY <1>1, <1>10 DEF IInv, CommitPhase
    <2> QED
      BY <1>3, <2>1, <2>2 DEF Merged, Abstract!Next, Abstract!Import
  <1> QED
    BY <1>1, <1>5, <1>6, <1>7, <1>8, <1>9, <1>10 DEF Change

\* Every other step leaves the pending logins and imports of other calls alone.
LEMMA OtherKept ==
  ASSUME IInv, NEW c \in Callers, NEW d \in Callers,
         \/ Read(c) \/ Acquire(c) \/ LockTimeout(c) \/ Load(c) \/ RefreshOk(c)
         \/ RefreshRejected(c) \/ RefreshFails(c) \/ RefreshDiscarded(c)
         \/ UpdateThrows(c) \/ Unlock(c) \/ Fails(c) \/ Unauthorized(c) \/ Finish(c)
         \/ \E a \in Accounts : BeginToken(c, a) \/ BeginForce(c, a) \/ BeginRemove(c, a)
  PROVE  Kept(d)
  <1>1. CASE Read(c)
    BY <1>1 DEF Read, Goto, Return, call, Kept, Importing, Pending, IInv, TypeOK, ReadPhase
  <1>2. CASE Acquire(c)
    BY <1>2 DEF Acquire, Goto, call, Kept, Importing, Pending, IInv, TypeOK
  <1>3. CASE LockTimeout(c)
    BY <1>3 DEF LockTimeout, Goto, Return, call, Kept, Importing, Pending, IInv, TypeOK
  <1>4. CASE Load(c)
    BY <1>4 DEF Load, LoadToken, LoadChange, Goto, Return, call, Kept, Importing, Pending, IInv, TypeOK
  <1>5. CASE RefreshOk(c)
    BY <1>5 DEF RefreshOk, Goto, Return, call, Kept, Importing, Pending, IInv, TypeOK, RefreshPhase
  <1>6. CASE RefreshRejected(c) \/ RefreshFails(c) \/ RefreshDiscarded(c)
    BY <1>6 DEF RefreshRejected, RefreshFails, RefreshDiscarded, Goto, call, Kept, Importing, Pending, IInv,
       TypeOK, RefreshPhase
  <1>7. CASE UpdateThrows(c) \/ Unlock(c)
    BY <1>7 DEF UpdateThrows, Unlock, Goto, Return, call, Kept, Importing, Pending, IInv, TypeOK
  <1>8. CASE Unauthorized(c) \/ Finish(c)
    BY <1>8 DEF Unauthorized, Finish, Goto, Return, call, Kept, Importing, Pending, IInv, TypeOK
  <1>9. CASE \E a \in Accounts : BeginToken(c, a) \/ BeginForce(c, a) \/ BeginRemove(c, a)
    BY <1>9 DEF BeginToken, BeginForce, BeginRemove, Begin, Kept, Importing, Pending, IInv, TypeOK
  <1>10. CASE Fails(c)
    BY <1>10 DEF Fails, CallThrows, UnlockFails, Goto, Return, call, Kept, Importing, Pending,
       IInv, TypeOK
  <1> QED
    BY <1>1, <1>2, <1>3, <1>4, <1>5, <1>6, <1>7, <1>8, <1>9, <1>10

LEMMA OtherVault ==
  ASSUME IInv, NEW c \in Callers,
         \/ Read(c) \/ Acquire(c) \/ LockTimeout(c) \/ Load(c) \/ RefreshOk(c)
         \/ RefreshRejected(c) \/ RefreshFails(c) \/ RefreshDiscarded(c)
         \/ UpdateThrows(c) \/ Unlock(c) \/ Fails(c) \/ Unauthorized(c) \/ Finish(c)
         \/ \E a \in Accounts : BeginToken(c, a) \/ BeginForce(c, a) \/ BeginRemove(c, a)
  PROVE  Abstract!Next
  <1>1. UNCHANGED file
    BY DEF Read, Acquire, LockTimeout, Load, RefreshOk, RefreshRejected, RefreshFails,
       RefreshDiscarded, UpdateThrows, Unlock, Fails, CallThrows, UnlockFails, Unauthorized,
       Finish, BeginToken, BeginForce, BeginRemove, Begin
  <1> QED
    BY <1>1, OtherKept, WithdrawVault

LEMMA EnvironmentKept ==
  ASSUME IInv, Environment, NEW d \in Callers PROVE Kept(d)
  BY DEF Environment, Crash, RemoveOrphanLock, Expire, LoginElsewhere, AuthRevoke, AuthLate, call,
     Kept, Importing, Pending

LEMMA EnvironmentVault ==
  ASSUME IInv, Environment PROVE Abstract!Next
  <1>1. UNCHANGED file
    BY DEF Environment, Crash, RemoveOrphanLock, Expire, LoginElsewhere, AuthRevoke, AuthLate
  <1> QED
    BY <1>1, EnvironmentKept, WithdrawVault

\* The accounts file implements the abstract vault: whatever calls overlap,
\* time out, fail or die, its readers see logins, removals, refreshes of enabled
\* accounts and disablings of one account, and whole imports.
THEOREM Refinement == Spec => ImplementsVault
  <1>1. ASSUME IInv, [Next]_vars PROVE [Abstract!Next]_<<file, Offered, Announced>>
    <2>1. CASE UNCHANGED vars
      BY <2>1 DEF vars, Offered, Announced
    <2>2. CASE Environment
      BY <1>1, <2>2, EnvironmentVault
    <2>3. ASSUME NEW c \in Callers, Start(c) PROVE Abstract!Next
      BY <1>1, <2>3, OtherVault, BeginAddVault, BeginImportVault DEF Start
    <2>4. ASSUME NEW c \in Callers, Step(c) PROVE [Abstract!Next]_<<file, Offered, Announced>>
      BY <1>1, <2>4, OtherVault, CommitVault DEF Step
    <2>5. ASSUME NEW c \in Callers, Fails(c) \/ Unauthorized(c) \/ Finish(c) PROVE Abstract!Next
      BY <1>1, <2>5, OtherVault
    <2> QED
      BY <1>1, <2>1, <2>2, <2>3, <2>4, <2>5 DEF Next
  <1> QED
    BY InitVault, Invariance, <1>1, PTL DEF Spec, ImplementsVault, Abstract!Spec

-----------------------------------------------------------------------------
(* The rotation of refresh tokens: stored grants stay live, accounts are   *)
(* disabled only for a dead grant, refreshes are never redundant and a     *)
(* retry gets a new access token.                                          *)

\* The grant is accepted by the OAuth server or its death is accounted for.
Alive(a, refresh) == refresh = NoToken \/ refresh \in grants[a] \cup spoiled[a]

Sound(a, r) ==
    r # Absent => IF r.disabled THEN r.refresh \in spoiled[a] ELSE Alive(a, r.refresh)

\* The same of a record, after the step.
SoundNext(a, r) ==
    r # Absent =>
        IF r.disabled THEN r.refresh \in spoiled'[a]
        ELSE r.refresh = NoToken \/ r.refresh \in grants'[a] \cup spoiled'[a]

\* A rotation of account a is committed by nobody.
Settled(a) == \A c \in Callers : target[c] = a => ~Unsaved(c)

StoredSound == \A a \in Accounts : Settled(a) => Sound(a, file[a])

DraftSound ==
    \A c \in Callers :
        pc[c] = "commit" /\ op[c] # "import" => Sound(target[c], draft[c][target[c]])

LoginSound == \A c \in Callers : Pending(c) => Alive(target[c], tokens[c].refresh)

Differs(refresh, r) == r # Absent => r.refresh # refresh

\* A login that is not stored yet shares its grant with no stored record, no
\* draft and no other login: rotating one never kills the other.
LoginDistinct ==
    \A c \in Callers : (Pending(c) /\ tokens[c].refresh # NoToken) =>
        /\ Differs(tokens[c].refresh, file[target[c]])
        /\ \A d \in Callers \ {c} :
              /\ Pending(d) /\ target[d] = target[c] => Differs(tokens[c].refresh, tokens[d])
              /\ pc[d] = "commit" => Differs(tokens[c].refresh, draft[d][target[c]])

\* Nor is its grant in a file that an import has read.
ImportDistinct ==
    \A c, d \in Callers : (Pending(c) /\ tokens[c].refresh # NoToken) =>
        Differs(tokens[c].refresh, imported[d][target[c]])

GInv == StoredSound /\ DraftSound /\ LoginSound /\ LoginDistinct

-----------------------------------------------------------------------------
\* A login becomes pending when it begins and keeps its tokens.
LEMMA PendingSteps ==
  ASSUME IInv, [Next]_vars, NEW c \in Callers, Pending(c)'
  PROVE  \/ Pending(c) /\ tokens'[c] = tokens[c] /\ target'[c] = target[c]
         \/ \E a \in Accounts, refreshable \in BOOLEAN : BeginAdd(c, a, refreshable)
  <1>1. CASE UNCHANGED vars
    BY <1>1 DEF vars, Pending
  <1>2. CASE Environment
    BY <1>2, EnvironmentKept DEF Kept
  <1>3. ASSUME NEW d \in Callers, NEW a \in Accounts, NEW refreshable \in BOOLEAN,
               BeginAdd(d, a, refreshable), d # c
        PROVE  Pending(c) /\ tokens'[c] = tokens[c] /\ target'[c] = target[c]
    BY <1>3 DEF BeginAdd, Begin, Pending, IInv, TypeOK
  <1>4. ASSUME NEW d \in Callers, NEW copy \in [Accounts -> UNION {Copies(a) : a \in Accounts}],
               BeginImport(d, copy)
        PROVE  Pending(c) /\ tokens'[c] = tokens[c] /\ target'[c] = target[c]
    BY <1>4 DEF BeginImport, Pending, IInv, TypeOK
  <1>5. ASSUME NEW d \in Callers, Commit(d)
        PROVE  Pending(c) /\ tokens'[c] = tokens[c] /\ target'[c] = target[c]
    BY <1>5 DEF Commit, Goto, call, Pending, IInv, TypeOK
  <1>6. ASSUME NEW d \in Callers, Start(d) PROVE
              \/ Pending(c) /\ tokens'[c] = tokens[c] /\ target'[c] = target[c]
              \/ \E a \in Accounts, refreshable \in BOOLEAN : BeginAdd(c, a, refreshable)
    <2>1. CASE \E a \in Accounts, refreshable \in BOOLEAN : BeginAdd(d, a, refreshable)
      BY <1>3, <2>1
    <2>2. CASE \E copy \in [Accounts -> UNION {Copies(a) : a \in Accounts}] : BeginImport(d, copy)
      BY <1>4, <2>2
    <2>3. CASE \E a \in Accounts : BeginToken(d, a) \/ BeginForce(d, a) \/ BeginRemove(d, a)
      BY <2>3, OtherKept DEF Kept
    <2> QED
      BY <1>6, <2>1, <2>2, <2>3 DEF Start
  <1>7. ASSUME NEW d \in Callers, Step(d) \/ Fails(d) \/ Unauthorized(d) \/ Finish(d)
        PROVE  Pending(c) /\ tokens'[c] = tokens[c] /\ target'[c] = target[c]
    BY <1>5, <1>7, OtherKept DEF Kept, Step
  <1> QED
    BY <1>1, <1>2, <1>6, <1>7 DEF Next

LEMMA InitDistinct == Init => ImportDistinct
  BY DEF Init, ImportDistinct, Pending

LEMMA NextDistinct ==
  ASSUME IInv, ImportSound, ImportDistinct, [Next]_vars PROVE ImportDistinct'
  <1> SUFFICES ASSUME NEW c \in Callers, NEW d \in Callers, Pending(c)', tokens'[c].refresh # NoToken,
                      imported'[d][target'[c]] # Absent
               PROVE  imported'[d][target'[c]].refresh # tokens'[c].refresh
    BY DEF ImportDistinct, Differs
  <1> DEFINE a == target'[c]
  <1>1. CASE Pending(c) /\ tokens'[c] = tokens[c] /\ target'[c] = target[c]
    <2>1. /\ a \in Accounts /\ tokens[c] \in Record /\ tokens[c] # Absent
          /\ Differs(tokens[c].refresh, imported[d][a])
      BY <1>1, SentinelsOutside DEF ImportDistinct, IInv, TypeOK, LoginPhase, Record
    <2>2. CASE imported'[d] = imported[d]
      BY <1>1, <2>1, <2>2 DEF Differs
    <2>3. CASE imported'[d] = Empty
      BY <2>1, <2>3 DEF Empty
    <2>4. CASE imported'[d][a] \in Copies(a)
      <3>1. tokens[c].refresh \in Held(a)
        BY <1>1, <2>1 DEF Held, Pending
      <3> QED
        BY <1>1, <2>4, <3>1 DEF Copies
    <2> QED
      BY <2>1, <2>2, <2>3, <2>4, ImportedSteps
  <1>2. CASE \E b \in Accounts, refreshable \in BOOLEAN : BeginAdd(c, b, refreshable)
    <2>1. PICK b \in Accounts, refreshable \in BOOLEAN : BeginAdd(c, b, refreshable)
      BY <1>2
    <2>2. target'[c] = b /\ UNCHANGED imported /\ tokens'[c].refresh \in {NoToken, issued[b] + 1}
      BY <2>1 DEF BeginAdd, Begin, IInv, TypeOK
    <2>3. /\ imported[d][b] \in Record \cup {Absent} /\ Known(b, imported[d][b]) /\ issued[b] \in Nat
      BY DEF ImportSound, IInv, TypeOK, Files
    <2> QED
      BY <2>2, <2>3, RecordFields DEF Known
  <1> QED
    BY <1>1, <1>2, PendingSteps

LEMMA InitGInv == Init => GInv
  BY DEF Init, Empty, GInv, StoredSound, Sound, DraftSound, LoginSound, LoginDistinct, Pending

\* Only the lock holder can hold an uncommitted rotation.
LEMMA HolderSettles ==
  ASSUME IInv, NEW c \in Callers, pc[c] \in {"load", "refresh", "unlock"}
  PROVE  \A a \in Accounts : Settled(a)
  BY DEF IInv, MutualExclusion, Critical, Settled, Unsaved

LEMMA AloneInCommit ==
  ASSUME IInv, NEW c \in Callers, pc[c] \in Critical, NEW d \in Callers \ {c}
  PROVE  pc[d] # "commit" /\ ~Unsaved(d)
  BY DEF IInv, MutualExclusion, Critical, Unsaved

\* A grant stays sound when the server only drops grants it accounts for.
LEMMA SoundKept ==
  ASSUME \A b \in Accounts : /\ grants[b] \cup spoiled[b] \subseteq grants'[b] \cup spoiled'[b]
                             /\ spoiled[b] \subseteq spoiled'[b],
         NEW a \in Accounts, NEW r
  PROVE  /\ Sound(a, r) => Sound(a, r)'
         /\ Alive(a, r) => Alive(a, r)'
  BY DEF Sound, Alive

-----------------------------------------------------------------------------
(* Steps that neither store nor prepare anything *)

Grows ==
    \A b \in Accounts :
        /\ grants[b] \cup spoiled[b] \subseteq grants'[b] \cup spoiled'[b]
        /\ spoiled[b] \subseteq spoiled'[b]

Quiet ==
    /\ UNCHANGED file
    /\ \A d \in Callers :
          /\ Pending(d)' =>
                Pending(d) /\ tokens'[d] = tokens[d] /\ target'[d] = target[d]
          /\ pc'[d] = "commit" =>
                /\ pc[d] = "commit" /\ draft'[d] = draft[d]
                /\ target'[d] = target[d] /\ op'[d] = op[d]
          /\ Unsaved(d) =>
                /\ target'[d] = target[d]
                /\ Unsaved(d)' \/ Sound(target[d], file[target[d]])'

LEMMA QuietGInv ==
  ASSUME IInv, GInv, Grows, Quiet PROVE GInv'
  <1>1. StoredSound'
    <2> SUFFICES ASSUME NEW a \in Accounts, Settled(a)' PROVE Sound(a, file[a])'
      BY DEF StoredSound
    <2>1. CASE Settled(a)
      BY <2>1, SoundKept DEF GInv, StoredSound, Grows, Quiet, Sound, Alive
    <2>2. CASE ~Settled(a)
      <3>1. PICK d \in Callers : target[d] = a /\ Unsaved(d)
        BY <2>2 DEF Settled
      <3>2. target'[d] = a /\ ~Unsaved(d)'
        BY <3>1 DEF Settled, Quiet
      <3> QED
        BY <3>1, <3>2 DEF Quiet
    <2> QED
      BY <2>1, <2>2
  <1>2. DraftSound'
    BY SoundKept DEF GInv, DraftSound, Grows, Quiet, IInv, TypeOK, Sound, Alive
  <1>3. LoginSound'
    BY SoundKept DEF GInv, LoginSound, Grows, Quiet, IInv, TypeOK, Alive
  <1>4. LoginDistinct'
    <2> SUFFICES ASSUME NEW c \in Callers, Pending(c)', tokens'[c].refresh # NoToken
                 PROVE  /\ Differs(tokens'[c].refresh, file'[target'[c]])
                        /\ \A d \in Callers \ {c} :
                             /\ Pending(d)' /\ target'[d] = target'[c] =>
                                  Differs(tokens'[c].refresh, tokens'[d])
                             /\ pc'[d] = "commit" =>
                                  Differs(tokens'[c].refresh, draft'[d][target'[c]])
      BY DEF LoginDistinct, Differs
    <2> QED
      BY DEF GInv, LoginDistinct, Quiet, Differs
  <1> QED
    BY <1>1, <1>2, <1>3, <1>4 DEF GInv

LEMMA CallQuiet ==
  ASSUME IInv, NEW c \in Callers,
         \/ Read(c) \/ Acquire(c) \/ LockTimeout(c) \/ Unlock(c) \/ Fails(c)
         \/ Unauthorized(c) \/ Finish(c)
         \/ \E a \in Accounts : BeginToken(c, a) \/ BeginForce(c, a) \/ BeginRemove(c, a)
         \/ \E copy \in [Accounts -> UNION {Copies(a) : a \in Accounts}] : BeginImport(c, copy)
  PROVE  Grows /\ Quiet
  <1>1. UNCHANGED <<file, server>>
    BY DEF Read, Acquire, LockTimeout, Unlock, Fails, CallThrows, UnlockFails, Unauthorized,
       Finish, BeginToken, BeginForce, BeginRemove, Begin, BeginImport
  <1>2. Grows
    BY <1>1 DEF Grows, server
  <1>3. CASE Read(c)
    BY <1>1, <1>2, <1>3
    DEF Read, Goto, Return, call, Quiet, Pending, Unsaved, IInv, TypeOK, ReadPhase
  <1>4. CASE Acquire(c) \/ LockTimeout(c) \/ Unlock(c)
    BY <1>1, <1>2, <1>4 DEF Acquire, LockTimeout, Unlock, Goto, Return, call, Quiet, Pending,
       Unsaved, IInv, TypeOK
  <1>5. CASE Fails(c)
    BY <1>1, <1>2, <1>5 DEF Fails, CallThrows, UnlockFails, Goto, Return, call, Quiet, Pending,
       Unsaved, IInv, TypeOK
  <1>6. CASE Unauthorized(c) \/ Finish(c)
    BY <1>1, <1>2, <1>6 DEF Unauthorized, Finish, Goto, Return, call, Quiet, Pending,
       Unsaved, IInv, TypeOK
  <1>7. CASE \E a \in Accounts : BeginToken(c, a) \/ BeginForce(c, a) \/ BeginRemove(c, a)
    BY <1>1, <1>2, <1>7 DEF BeginToken, BeginForce, BeginRemove, Begin, Quiet, Pending,
       Unsaved, IInv, TypeOK
  <1>8. CASE \E copy \in [Accounts -> UNION {Copies(a) : a \in Accounts}] : BeginImport(c, copy)
    BY <1>1, <1>2, <1>8 DEF BeginImport, Quiet, Pending, Unsaved, IInv, TypeOK
  <1> QED
    BY <1>3, <1>4, <1>5, <1>6, <1>7, <1>8

\* A rotation lost by a throw or a crash replaced an enabled record's grant.
LEMMA UnsavedIsRenewal ==
  ASSUME IInv, NEW c \in Callers, Unsaved(c)
  PROVE  /\ target[c] \in Accounts
         /\ file[target[c]] \in Record /\ ~file[target[c]].disabled
  BY DEF Unsaved, IInv, TypeOK, CommitPhase, Change, Renewed, Disabling, Frozen

LEMMA ThrowQuiet ==
  ASSUME IInv, NEW c \in Callers, UpdateThrows(c) PROVE Grows /\ Quiet
  <1>1. /\ UNCHANGED <<file, op, target, draft, grants>> /\ target[c] \in Accounts
        /\ pc' = [pc EXCEPT ![c] = "unlock"] /\ tokens' = [tokens EXCEPT ![c] = Absent]
        /\ spoiled' = [spoiled EXCEPT ![target[c]] =
                          @ \cup (IF Unsaved(c) THEN {file[target[c]].refresh} ELSE {})]
    BY DEF UpdateThrows, Goto, Return, call, IInv, TypeOK
  <1>2. Grows
    BY <1>1 DEF Grows, IInv, TypeOK
  <1>3. Unsaved(c) => Sound(target[c], file[target[c]])'
    BY <1>1, UnsavedIsRenewal DEF Sound, Alive, IInv, TypeOK
  <1>4. \A d \in Callers \ {c} : Unsaved(d) => Unsaved(d)'
    BY <1>1 DEF Unsaved, IInv, TypeOK
  <1>5. \A d \in Callers : /\ Pending(d)' => Pending(d) /\ tokens'[d] = tokens[d]
                           /\ pc'[d] = "commit" => pc[d] = "commit"
    BY <1>1 DEF Pending, IInv, TypeOK
  <1> QED
    BY <1>1, <1>2, <1>3, <1>4, <1>5 DEF Quiet

LEMMA CrashQuiet ==
  ASSUME IInv, NEW p \in Processes, Crash(p) PROVE Grows /\ Quiet
  <1> DEFINE dead == Calls(p)
  <1>1. /\ UNCHANGED <<file, target, grants>>
        /\ pc' = [d \in Callers |-> IF d \in dead THEN "idle" ELSE pc[d]]
        /\ op' = [d \in Callers |-> IF d \in dead THEN "token" ELSE op[d]]
        /\ tokens' = [d \in Callers |-> IF d \in dead THEN Absent ELSE tokens[d]]
        /\ draft' = [d \in Callers |-> IF d \in dead THEN Empty ELSE draft[d]]
        /\ spoiled' = [a \in Accounts |-> spoiled[a] \cup
              {file[a].refresh : c \in {d \in dead : target[d] = a /\ Unsaved(d)}}]
    BY DEF Crash
  <1>2. Grows
    BY <1>1 DEF Grows, IInv, TypeOK
  <1>3. ASSUME NEW d \in Callers, d \in dead, Unsaved(d)
        PROVE  Sound(target[d], file[target[d]])'
    <2>1. file[target[d]].refresh \in spoiled'[target[d]]
      BY <1>1, <1>3, UnsavedIsRenewal
    <2> QED
      BY <1>1, <1>3, <2>1, UnsavedIsRenewal DEF Sound, Alive
  <1>4. \A d \in Callers \ dead : Unsaved(d) => Unsaved(d)'
    BY <1>1 DEF Unsaved
  <1> QED
    BY <1>1, <1>2, <1>3, <1>4 DEF Quiet, Pending

LEMMA ServerQuiet ==
  ASSUME IInv,
         \/ RemoveOrphanLock
         \/ \E a \in Accounts : \/ Expire(a) \/ LoginElsewhere(a)
                                \/ \E r \in grants[a] : AuthRevoke(a, r)
                                \/ \E r \in late[a] : AuthLate(a, r)
  PROVE  Grows /\ Quiet
  <1>1. UNCHANGED <<file, pc, op, target, tokens, draft>>
    BY DEF RemoveOrphanLock, Expire, LoginElsewhere, AuthRevoke, AuthLate, call
  <1>2. Quiet
    BY <1>1 DEF Quiet, Pending, Unsaved
  <1>3. Grows
    BY DEF Grows, RemoveOrphanLock, Expire, LoginElsewhere, AuthRevoke, AuthLate, Grant, server, IInv, TypeOK
  <1> QED
    BY <1>2, <1>3

-----------------------------------------------------------------------------
(* Steps that prepare or store a change *)

\* A call becomes ready to commit a draft: enough that the draft is sound for
\* its account, that pending logins keep their grants and that the draft
\* shares none of them.
LEMMA ReadyGInv ==
  ASSUME IInv, GInv, NEW c \in Callers, pc[c] \in {"load", "refresh"},
         UNCHANGED <<file, op, target>>,
         pc' = [pc EXCEPT ![c] = "commit"],
         \A d \in Callers \ {c} : tokens'[d] = tokens[d],
         Pending(c)' => Pending(c) /\ tokens'[c] = tokens[c],
         \A d \in Callers : Pending(d) =>
            /\ tokens[d].refresh = NoToken
               \/ tokens[d].refresh \in grants'[target[d]] \cup spoiled'[target[d]]
            /\ d # c /\ tokens[d].refresh # NoToken =>
                  Differs(tokens[d].refresh, draft'[c][target[d]]),
         \A a \in Accounts : Settled(a)' => SoundNext(a, file[a]),
         op[c] # "import" => SoundNext(target[c], draft'[c][target[c]])
  PROVE  GInv'
  <1>1. \A d \in Callers \ {c} : pc'[d] = pc[d] /\ pc[d] # "commit"
    BY AloneInCommit DEF Critical, IInv, TypeOK
  <1>2. pc'[c] = "commit"
    BY DEF IInv, TypeOK
  <1>3. \A d \in Callers : Pending(d)' => Pending(d) /\ tokens'[d] = tokens[d]
    BY <1>1 DEF Pending
  <1>4. StoredSound'
    BY DEF StoredSound, Sound, SoundNext, Alive
  <1>5. DraftSound'
    BY <1>1 DEF DraftSound, Sound, SoundNext, Alive
  <1>6. LoginSound'
    BY <1>3 DEF LoginSound, Alive
  <1>7. LoginDistinct'
    <2> SUFFICES ASSUME NEW e \in Callers, Pending(e)', tokens'[e].refresh # NoToken
                 PROVE  /\ Differs(tokens[e].refresh, file[target[e]])
                        /\ \A d \in Callers \ {e} :
                             /\ Pending(d)' /\ target[d] = target[e] =>
                                  Differs(tokens[e].refresh, tokens[d])
                             /\ pc'[d] = "commit" =>
                                  Differs(tokens[e].refresh, draft'[d][target[e]])
      BY <1>3 DEF LoginDistinct, Differs
    <2>1. Pending(e) /\ tokens[e].refresh # NoToken
      BY <1>3
    <2> QED
      BY <1>1, <1>3, <2>1 DEF GInv, LoginDistinct
  <1> QED
    BY <1>4, <1>5, <1>6, <1>7 DEF GInv

LEMMA BeginAddGInv ==
  ASSUME IInv, GInv, NEW c \in Callers, NEW a \in Accounts, NEW refreshable \in BOOLEAN,
         BeginAdd(c, a, refreshable)
  PROVE  GInv'
  <1> DEFINE n == issued[a] + 1
             new == [access |-> n, disabled |-> FALSE,
                     refresh |-> IF refreshable THEN n ELSE NoToken]
  <1>1. /\ new \in Record /\ new.refresh \in {NoToken, n} /\ n \in Nat /\ n > issued[a]
        /\ refreshable <=> new.refresh = n
    BY DEF IInv, TypeOK, Record, NoToken
  <1> HIDE DEF new
  <1>2. /\ pc[c] = "idle" /\ UNCHANGED <<file, draft, spoiled>>
        /\ pc' = [pc EXCEPT ![c] = "lock"] /\ op' = [op EXCEPT ![c] = "add"]
        /\ target' = [target EXCEPT ![c] = a] /\ tokens' = [tokens EXCEPT ![c] = new]
        /\ grants' = [grants EXCEPT ![a] = @ \cup (IF refreshable THEN {n} ELSE {})]
    BY DEF BeginAdd, Begin, new
  <1>3. /\ Pending(c)' /\ tokens'[c] = new /\ target'[c] = a /\ pc'[c] = "lock"
        /\ \A d \in Callers \ {c} :
             /\ Pending(d)' <=> Pending(d)
             /\ tokens'[d] = tokens[d] /\ target'[d] = target[d] /\ op'[d] = op[d] /\ pc'[d] = pc[d]
    BY <1>2 DEF Pending, IInv, TypeOK
  <1>4. Grows
    BY <1>2 DEF Grows, IInv, TypeOK
  <1>5. \A d \in Callers : Unsaved(d) => d # c /\ Unsaved(d)' /\ target'[d] = target[d]
    BY <1>2, <1>3 DEF Unsaved
  <1>6. StoredSound'
    <2> SUFFICES ASSUME NEW b \in Accounts, Settled(b)' PROVE Sound(b, file[b])'
      BY DEF StoredSound
    <2>1. Settled(b)
      BY <1>5 DEF Settled
    <2> QED
      BY <1>2, <1>4, <2>1, SoundKept DEF GInv, StoredSound, Grows, Sound, Alive
  <1>7. DraftSound'
    BY <1>2, <1>3, <1>4, SoundKept DEF GInv, DraftSound, Grows, IInv, TypeOK, Sound, Alive
  <1>8. LoginSound'
    <2>1. new.refresh = NoToken \/ new.refresh \in grants'[a] \cup spoiled'[a]
      BY <1>1, <1>2 DEF Alive, IInv, TypeOK
    <2>2. ASSUME NEW d \in Callers \ {c}, Pending(d) PROVE Alive(target[d], tokens[d].refresh)'
      BY <1>3, <1>4, <2>2, SoundKept DEF GInv, LoginSound, Grows, IInv, TypeOK, Alive
    <2> QED
      BY <1>3, <2>1, <2>2 DEF LoginSound, Alive
  <1>9. ASSUME new.refresh # NoToken
        PROVE  /\ Differs(n, file[a])
               /\ \A d \in Callers \ {c} :
                    /\ Pending(d) /\ target[d] = a => Differs(n, tokens[d])
                    /\ pc[d] = "commit" => Differs(n, draft[d][a])
    <2>1. Differs(n, file[a])
      BY <1>1, RecordFields DEF IInv, TypeOK, Files, StoredKnown, Known, Differs
    <2>2. ASSUME NEW d \in Callers \ {c}, target[d] = a, Pending(d) PROVE Differs(n, tokens[d])
      BY <1>1, <2>2, RecordFields DEF IInv, TypeOK, LoginPhase, Differs
    <2>3. ASSUME NEW d \in Callers \ {c}, pc[d] = "commit"
          PROVE  Differs(n, draft[d][a])
      BY <1>1, <2>3, RecordFields DEF IInv, TypeOK, Files, DraftKnown, Known, Differs
    <2> QED
      BY <2>1, <2>2, <2>3
  <1>10. LoginDistinct'
    <2>1. ASSUME new.refresh # NoToken, NEW d \in Callers \ {c}, target[d] = a, Pending(d)
          PROVE  tokens[d].refresh # n
      BY <1>9, <2>1, SentinelsOutside DEF Differs, IInv, LoginPhase, Record
    <2>2. ASSUME NEW e \in Callers, Pending(e)', tokens'[e].refresh # NoToken
          PROVE  /\ Differs(tokens'[e].refresh, file[target'[e]])
                 /\ \A d \in Callers \ {e} :
                      /\ Pending(d)' /\ target'[d] = target'[e] =>
                           Differs(tokens'[e].refresh, tokens'[d])
                      /\ pc'[d] = "commit" =>
                           Differs(tokens'[e].refresh, draft[d][target'[e]])
      <3>1. CASE e = c
        BY <1>1, <1>3, <1>9, <2>2, <3>1 DEF Differs
      <3>2. CASE e # c
        <4>1. ASSUME target'[c] = target'[e] PROVE Differs(tokens'[e].refresh, tokens'[c])
          BY <1>1, <1>3, <2>1, <2>2, <3>2, <4>1 DEF Differs
        <4> QED
          BY <1>3, <2>2, <3>2, <4>1 DEF GInv, LoginDistinct
      <3> QED
        BY <3>1, <3>2
    <2> QED
      BY <1>2, <2>2 DEF LoginDistinct, Differs
  <1> QED
    BY <1>6, <1>7, <1>8, <1>10 DEF GInv

LEMMA LoadGInv ==
  ASSUME IInv, ImportDistinct, GInv, NEW c \in Callers, Load(c) PROVE GInv'
  <1> DEFINE a == target[c]
  <1>1. /\ pc[c] = "load" /\ a \in Accounts /\ op[c] \in {"token", "add", "remove", "import"}
        /\ UNCHANGED <<file, op, target, grants, spoiled>>
    BY DEF Load, call, server, IInv, TypeOK
  <1>2. \A b \in Accounts : Sound(b, file[b])
    BY <1>1, HolderSettles DEF GInv, StoredSound
  <1>3. \A b \in Accounts : SoundNext(b, file[b])
    BY <1>1, <1>2 DEF Sound, SoundNext, Alive
  <1>4. ASSUME NEW d \in Callers, Pending(d)
        PROVE  tokens[d].refresh = NoToken
               \/ tokens[d].refresh \in grants'[target[d]] \cup spoiled'[target[d]]
    BY <1>1, <1>4 DEF GInv, LoginSound, Alive
  <1>5. CASE LoadToken(c)
    <2>1. /\ op[c] = "token" /\ draft'[c] = file
          /\ \A d \in Callers \ {c} : tokens'[d] = tokens[d]
          /\ pc' = [pc EXCEPT ![c] = "commit"] \/ pc' = [pc EXCEPT ![c] = "refresh"]
      BY <1>5 DEF LoadToken, Goto, Return, IInv, TypeOK
    <2>2. CASE pc' = [pc EXCEPT ![c] = "commit"]
      <3>1. ~Pending(c)'
        BY <1>1, <2>1 DEF Pending
      <3>2. ASSUME NEW d \in Callers, Pending(d), tokens[d].refresh # NoToken
            PROVE  Differs(tokens[d].refresh, draft'[c][target[d]])
        BY <2>1, <3>2 DEF GInv, LoginDistinct
      <3> QED
        BY <1>1, <1>3, <1>4, <2>1, <2>2, <3>1, <3>2, ReadyGInv
    <2>3. CASE pc' = [pc EXCEPT ![c] = "refresh"]
      <3>1. \A d \in Callers : Pending(d)' => Pending(d) /\ d # c
        BY <1>1, <2>1, <2>3 DEF Pending, IInv, TypeOK
      <3>2. \A d \in Callers : pc'[d] # "commit"
        BY <1>1, <2>3, AloneInCommit DEF Critical, IInv, TypeOK
      <3>3. StoredSound' /\ DraftSound'
        BY <1>1, <1>3, <3>2 DEF StoredSound, DraftSound, Sound, SoundNext, Alive
      <3>4. LoginSound'
        BY <1>1, <1>4, <2>1, <3>1 DEF LoginSound, Alive
      <3>5. LoginDistinct'
        BY <1>1, <2>1, <3>1, <3>2 DEF LoginDistinct, GInv, Differs
      <3> QED
        BY <3>3, <3>4, <3>5 DEF GInv
    <2> QED
      BY <2>1, <2>2, <2>3
  <1>6. CASE LoadChange(c)
    <2> DEFINE new == draft'[c]
    <2>1. /\ op[c] \in {"add", "remove", "import"} /\ UNCHANGED tokens
          /\ pc' = [pc EXCEPT ![c] = "commit"]
          /\ imported[c] \in Files /\ file \in Files
          /\ op[c] = "add" => new = [file EXCEPT ![a] = tokens[c]]
          /\ op[c] = "remove" => new = [file EXCEPT ![a] = Absent]
          /\ op[c] = "import" => new = Merged(imported[c], file)
      BY <1>1, <1>6 DEF LoadChange, Goto, IInv, TypeOK
    <2>2. Pending(c)' => Pending(c)
      BY <1>1 DEF Pending
    <2>3. op[c] = "add" => /\ Pending(c) /\ ~tokens[c].disabled
                           /\ tokens[c] \in Record
      BY <1>1 DEF Pending, IInv, LoginPhase
    <2>4. op[c] = "add" => new[a] = tokens[c] /\ \A b \in Accounts \ {a} : new[b] = file[b]
      BY <1>1, <2>1, <2>3 DEF Files
    <2>5. op[c] = "remove" => new[a] = Absent /\ \A b \in Accounts \ {a} : new[b] = file[b]
      BY <1>1, <2>1 DEF Files
    <2>6. op[c] = "import" =>
            \A b \in Accounts : new[b] = IF imported[c][b] = Absent THEN file[b] ELSE imported[c][b]
      BY <2>1, MergedFile
    <2> HIDE DEF new
    <2>7. op[c] # "import" => SoundNext(a, new[a])
      BY <1>1, <1>4, <2>1, <2>3, <2>4, <2>5 DEF SoundNext
    <2>8. ASSUME NEW d \in Callers \ {c}, Pending(d), tokens[d].refresh # NoToken
          PROVE  Differs(tokens[d].refresh, new[target[d]])
      <3>1. /\ target[d] \in Accounts /\ Differs(tokens[d].refresh, file[target[d]])
            /\ Differs(tokens[d].refresh, imported[c][target[d]])
            /\ Pending(c) /\ target[c] = target[d] => Differs(tokens[d].refresh, tokens[c])
        BY <2>8 DEF GInv, LoginDistinct, ImportDistinct, IInv, TypeOK
      <3>2. CASE op[c] = "add"
        BY <2>3, <2>4, <3>1, <3>2
      <3>3. CASE op[c] = "remove"
        BY <2>5, <3>1, <3>3 DEF Differs
      <3>4. CASE op[c] = "import"
        BY <2>6, <3>1, <3>4
      <3> QED
        BY <2>1, <3>2, <3>3, <3>4
    <2> QED
      BY <1>1, <1>3, <1>4, <2>1, <2>2, <2>7, <2>8, ReadyGInv DEF new
  <1> QED
    BY <1>5, <1>6 DEF Load

LEMMA RefreshOkGInv ==
  ASSUME IInv, GInv, NEW c \in Callers, RefreshOk(c) PROVE GInv'
  <1> DEFINE a == target[c]
             old == file[a].refresh
             n == issued[a] + 1
  <1>1. /\ pc[c] = "refresh" /\ a \in Accounts /\ op[c] = "token"
        /\ draft[c] = file /\ file[a] \in Record /\ ~file[a].disabled /\ file[a] # Absent
        /\ Granted(c) = old /\ old \in grants[a] /\ old # NoToken
        /\ UNCHANGED <<file, op, target, spoiled>>
        /\ pc' = [pc EXCEPT ![c] = "commit"]
    BY SentinelsOutside DEF RefreshOk, Granted, Goto, call, IInv, TypeOK, RefreshPhase, Record
  <1>2. PICK refresh \in {old, n} :
          /\ Grant(a, old, refresh)
          /\ draft' = [draft EXCEPT ![c][a] = Renewal(a, refresh)]
          /\ Return(c, Renewal(a, refresh))
    BY <1>1 DEF RefreshOk, NextToken
  <1> DEFINE new == Renewal(a, refresh)
  <1>3. new.refresh = refresh /\ ~new.disabled
    BY DEF Renewal
  <1>4. draft'[c] = [file EXCEPT ![a] = new] /\ [file EXCEPT ![a] = new][a] = new
    BY <1>1, <1>2 DEF IInv, TypeOK, Files
  <1>5. /\ grants' = [grants EXCEPT ![a] = (@ \ {old}) \cup {refresh}]
        /\ \A d \in Callers \ {c} : tokens'[d] = tokens[d]
    BY <1>2 DEF Grant, Return, IInv, TypeOK
  <1> HIDE DEF new
  <1>6. ~Pending(c) /\ ~Pending(c)'
    BY <1>1 DEF Pending
  <1>7. refresh \in grants'[a] /\ \A b \in Accounts \ {a} : grants'[b] = grants[b]
    BY <1>1, <1>5 DEF IInv, TypeOK
  <1>8. ASSUME NEW d \in Callers, Pending(d)
        PROVE  /\ tokens[d].refresh = NoToken
                  \/ tokens[d].refresh \in grants'[target[d]] \cup spoiled'[target[d]]
               /\ d # c /\ tokens[d].refresh # NoToken =>
                     Differs(tokens[d].refresh, draft'[c][target[d]])
    <2>1. /\ d # c /\ target[d] \in Accounts /\ Alive(target[d], tokens[d].refresh)
          /\ tokens[d].refresh \in Nat /\ tokens[d].refresh <= issued[target[d]]
      BY <1>6, <1>8, RecordFields DEF GInv, LoginSound, IInv, TypeOK, LoginPhase
    <2>2. target[d] = a /\ tokens[d].refresh # NoToken => tokens[d].refresh # old
      BY <1>1, <1>8 DEF GInv, LoginDistinct, Differs
    <2>3. target[d] = a => tokens[d].refresh # n
      BY <1>1, <2>1 DEF IInv, TypeOK
    <2>4. tokens[d].refresh = NoToken
          \/ tokens[d].refresh \in grants'[target[d]] \cup spoiled'[target[d]]
      BY <1>1, <1>5, <1>7, <2>1, <2>2 DEF Alive, IInv, TypeOK
    <2>5. target[d] # a /\ tokens[d].refresh # NoToken =>
            Differs(tokens[d].refresh, draft'[c][target[d]])
      <3>1. target[d] # a => draft'[c][target[d]] = file[target[d]]
        BY <1>1, <1>4, <2>1 DEF IInv, TypeOK, Files
      <3> QED
        BY <1>8, <3>1 DEF GInv, LoginDistinct
    <2> QED
      BY <1>2, <1>3, <1>4, <2>2, <2>3, <2>4, <2>5 DEF Differs
  <1>9. ASSUME NEW b \in Accounts, Settled(b)' PROVE SoundNext(b, file[b])
    <2>1. Sound(b, file[b])
      BY <1>1, HolderSettles DEF GInv, StoredSound
    <2>2. CASE b # a
      BY <1>1, <1>7, <2>1, <2>2 DEF Sound, SoundNext, Alive
    <2>3. CASE b = a /\ refresh = old
      BY <1>1, <1>7, <2>3 DEF SoundNext
    <2>4. CASE b = a /\ refresh # old
      <3>1. Unsaved(c)'
        BY <1>1, <1>3, <1>4, <2>4 DEF Unsaved, IInv, TypeOK
      <3> QED
        BY <1>1, <1>9, <2>4, <3>1 DEF Settled
    <2> QED
      BY <2>2, <2>3, <2>4
  <1>10. SoundNext(a, draft'[c][a])
    BY <1>1, <1>3, <1>4, <1>7 DEF SoundNext
  <1> QED
    BY <1>1, <1>5, <1>6, <1>8, <1>9, <1>10, ReadyGInv

\* A rejected, failed or discarded refresh leaves the stored record in the
\* draft, at most disabled.
LEMMA RefreshEndsGInv ==
  ASSUME IInv, GInv, NEW c \in Callers,
         RefreshRejected(c) \/ RefreshFails(c) \/ RefreshDiscarded(c)
  PROVE  GInv'
  <1> DEFINE a == target[c]
             old == file[a]
  <1>1. /\ pc[c] = "refresh" /\ a \in Accounts /\ op[c] = "token"
        /\ draft[c] = file /\ old \in Record /\ ~old.disabled /\ old # Absent
        /\ Granted(c) = old.refresh /\ old.refresh # NoToken
        /\ UNCHANGED <<file, op, target, tokens>>
        /\ pc' = [pc EXCEPT ![c] = "commit"]
    BY SentinelsOutside DEF RefreshRejected, RefreshFails, RefreshDiscarded, Granted, Goto,
       call, IInv, TypeOK, RefreshPhase, Record
  <1>2. Grows
    BY <1>1 DEF RefreshRejected, RefreshFails, RefreshDiscarded, Grant, server, Grows, IInv, TypeOK
  <1>3. \A b \in Accounts : Sound(b, file[b]) /\ SoundNext(b, file[b])
    <2>1. \A b \in Accounts : Sound(b, file[b])
      BY <1>1, HolderSettles DEF GInv, StoredSound
    <2> QED
      BY <1>2, <2>1 DEF Grows, Sound, SoundNext, Alive
  <1>4. ASSUME NEW d \in Callers, Pending(d)
        PROVE  tokens[d].refresh = NoToken
               \/ tokens[d].refresh \in grants'[target[d]] \cup spoiled'[target[d]]
    BY <1>2, <1>4 DEF Grows, GInv, LoginSound, Alive, IInv, TypeOK
  <1>5. /\ draft'[c][a].refresh = old.refresh
        /\ SoundNext(a, draft'[c][a])
    <2>1. CASE RefreshRejected(c)
      <3>1. draft'[c][a] = Frozen(old)
        BY <1>1, <2>1 DEF RefreshRejected, IInv, TypeOK, Files
      <3>2. Frozen(old).refresh = old.refresh /\ Frozen(old).disabled
        BY <1>1 DEF Frozen, Record
      <3>3. old.refresh \in spoiled[a] /\ UNCHANGED spoiled
        BY <1>1, <1>3, <2>1 DEF RefreshRejected, server, Sound, Alive
      <3> QED
        BY <3>1, <3>2, <3>3 DEF SoundNext
    <2>2. CASE RefreshFails(c) \/ RefreshDiscarded(c)
      BY <1>1, <1>3, <2>2 DEF RefreshFails, RefreshDiscarded
    <2> QED
      BY <2>1, <2>2
  <1>6. ~Pending(c)'
    BY <1>1 DEF Pending
  <1>7. ASSUME NEW d \in Callers, Pending(d), tokens[d].refresh # NoToken
        PROVE  Differs(tokens[d].refresh, draft'[c][target[d]])
    <2>1. target[d] \in Accounts /\ Differs(tokens[d].refresh, file[target[d]])
      BY <1>7 DEF GInv, LoginDistinct, IInv, TypeOK
    <2>2. target[d] # a => draft'[c][target[d]] = file[target[d]]
      BY <1>1, <2>1 DEF RefreshRejected, RefreshFails, RefreshDiscarded, IInv, TypeOK, Files
    <2> QED
      BY <1>1, <1>5, <2>1, <2>2 DEF Differs
  <1> QED
    BY <1>1, <1>3, <1>4, <1>5, <1>6, <1>7, ReadyGInv

LEMMA CommitGInv ==
  ASSUME IInv, ImportSound, GInv, NEW c \in Callers, Commit(c) PROVE GInv'
  <1> DEFINE a == target[c]
  <1>1. /\ pc[c] = "commit" /\ a \in Accounts /\ file' = draft[c]
        /\ pc' = [pc EXCEPT ![c] = "unlock"]
        /\ UNCHANGED <<op, target, tokens, draft, grants>>
        /\ \A b \in Accounts : spoiled'[b] = spoiled[b] \cup Stale(c, b)
        /\ op[c] # "import" => \A b \in Accounts \ {a} : draft[c][b] = file[b]
    BY DEF Commit, Goto, call, IInv, TypeOK, CommitPhase
  <1>2. \A d \in Callers \ {c} : pc'[d] = pc[d] /\ pc[d] # "commit" /\ ~Unsaved(d)
    BY <1>1, AloneInCommit DEF Critical, IInv, TypeOK
  <1>3. pc'[c] = "unlock" /\ ~Pending(c)'
    BY <1>1 DEF Pending, IInv, TypeOK
  <1>4. \A d \in Callers \ {c} : Pending(d)' <=> Pending(d)
    BY <1>1, <1>2 DEF Pending
  <1>5. StoredSound'
    <2>1. ASSUME NEW b \in Accounts, b # a \/ op[c] = "import" PROVE Sound(b, file[b])
      <3>1. ~Unsaved(c) \/ target[c] # b
        BY <2>1 DEF Unsaved
      <3> QED
        BY <1>1, <1>2, <3>1 DEF GInv, StoredSound, Settled
    <2>2. ASSUME NEW b \in Accounts PROVE SoundNext(b, file'[b])
      <3>1. CASE op[c] # "import" /\ b = a
        BY <1>1, <3>1 DEF GInv, DraftSound, Sound, SoundNext, Alive
      <3>2. CASE op[c] # "import" /\ b # a
        BY <1>1, <2>1, <3>2 DEF Sound, SoundNext, Alive
      <3>3. CASE op[c] = "import"
        <4>1. file'[b] = IF imported[c][b] = Absent THEN file[b] ELSE imported[c][b]
          BY <1>1, <3>3, MergedFile DEF IInv, TypeOK, CommitPhase
        <4>2. CASE imported[c][b] = Absent
          BY <1>1, <2>1, <3>3, <4>1, <4>2 DEF Sound, SoundNext, Alive
        <4>3. CASE imported[c][b] # Absent
          <5>1. imported[c][b].refresh \in grants[b] \cup spoiled'[b]
            BY <1>1, <3>3, <4>3 DEF Stale
          <5>2. imported[c][b].disabled => imported[c][b].refresh \in spoiled'[b]
            BY <4>3, <5>1 DEF ImportSound
          <5> QED
            BY <1>1, <4>1, <4>3, <5>1, <5>2 DEF SoundNext
        <4> QED
          BY <4>2, <4>3
      <3> QED
        BY <3>1, <3>2, <3>3
    <2> QED
      BY <2>2 DEF StoredSound, Sound, SoundNext, Alive
  <1>6. DraftSound'
    BY <1>2, <1>3 DEF DraftSound
  <1>7. LoginSound'
    BY <1>1, <1>3, <1>4 DEF GInv, LoginSound, Alive, IInv, TypeOK
  <1>8. LoginDistinct'
    <2> SUFFICES ASSUME NEW e \in Callers, Pending(e)', tokens'[e].refresh # NoToken
                 PROVE  /\ Differs(tokens'[e].refresh, file'[target'[e]])
                        /\ \A d \in Callers \ {e} :
                             /\ Pending(d)' /\ target'[d] = target'[e] =>
                                  Differs(tokens'[e].refresh, tokens'[d])
                             /\ pc'[d] = "commit" =>
                                  Differs(tokens'[e].refresh, draft'[d][target'[e]])
      BY DEF LoginDistinct, Differs
    <2>1. e # c /\ Pending(e) /\ tokens[e].refresh # NoToken /\ target[e] \in Accounts
      BY <1>1, <1>3, <1>4 DEF IInv, TypeOK
    <2>2. Differs(tokens[e].refresh, draft[c][target[e]])
      BY <1>1, <2>1 DEF GInv, LoginDistinct
    <2> QED
      BY <1>1, <1>2, <1>3, <1>4, <2>1, <2>2 DEF GInv, LoginDistinct
  <1> QED
    BY <1>5, <1>6, <1>7, <1>8 DEF GInv

LEMMA NextGInv ==
  ASSUME IInv, ImportSound, ImportDistinct, GInv, [Next]_vars PROVE GInv'
  <1>1. ASSUME NEW c \in Callers, Start(c) PROVE GInv'
    BY <1>1, CallQuiet, QuietGInv, BeginAddGInv DEF Start
  <1>2. ASSUME NEW c \in Callers, Step(c) PROVE GInv'
    BY <1>2, CallQuiet, ThrowQuiet, QuietGInv, LoadGInv, RefreshOkGInv, RefreshEndsGInv,
       CommitGInv DEF Step
  <1>3. ASSUME NEW c \in Callers, Fails(c) \/ Unauthorized(c) \/ Finish(c) PROVE GInv'
    BY <1>3, CallQuiet, QuietGInv
  <1>4. ASSUME Environment PROVE GInv'
    BY <1>4, CrashQuiet, ServerQuiet, QuietGInv DEF Environment
  <1>5. ASSUME UNCHANGED vars PROVE GInv'
    BY <1>5 DEF vars, GInv, StoredSound, Settled, Unsaved, Sound, Alive, DraftSound,
       LoginSound, LoginDistinct, Pending, Differs
  <1> QED
    BY <1>1, <1>2, <1>3, <1>4, <1>5 DEF Next

\* What the stored, drafted and pending grants satisfy in every reachable
\* state, together with the invariant of the lock.
THEOREM GrantInvariance == Spec => [](IInv /\ GInv)
  <1> DEFINE Inv == IInv /\ ImportSound /\ ImportDistinct /\ GInv
  <1>1. Init => Inv
    BY InitIInv, InitImport, InitDistinct, InitGInv
  <1>2. Inv /\ [Next]_vars => Inv'
    BY NextIInv, NextImport, NextDistinct, NextGInv
  <1>3. Inv => IInv /\ GInv
    OBVIOUS
  <1> QED
    BY <1>1, <1>2, <1>3, PTL DEF Spec

\* Whatever refreshes, logins, failures and crashes interleave, a stored grant
\* of an enabled account is accepted by the OAuth server, is being replaced by
\* the lock holder, or was spoiled by a failure or a revocation.
THEOREM GrantsStayLive == Spec => []StoredGrantLive
  <1>1. IInv /\ GInv => StoredGrantLive
    BY DEF IInv, TypeOK, GInv, StoredSound, Settled, Sound, Alive, StoredGrantLive, Usable
  <1> QED
    BY GrantInvariance, <1>1, PTL

\* No account is disabled while its grant is alive.
THEOREM DisabledForCause == Spec => []DisabledOnlyIfSpoiled
  <1>1. ASSUME IInv, GInv, NEW a \in Accounts, file[a] # Absent, file[a].disabled
        PROVE  file[a].refresh \in spoiled[a]
    <2>1. Settled(a)
      BY <1>1, UnsavedIsRenewal DEF Settled
    <2> QED
      BY <1>1, <2>1 DEF GInv, StoredSound, Sound
  <1>2. IInv /\ GInv => DisabledOnlyIfSpoiled
    BY <1>1 DEF DisabledOnlyIfSpoiled
  <1> QED
    BY GrantInvariance, <1>2, PTL

-----------------------------------------------------------------------------
(* Refreshes are justified and retries get a new token *)

\* What a token() call was told to avoid and what it is about to return.
AnswerOk ==
    \A c \in Callers :
        /\ rejected[c] <= issued[target[c]]
        /\ (op[c] = "token" /\ tokens[c] # Absent) =>
              /\ tokens[c].access # rejected[c]
              /\ tokens[c].access <= issued[target[c]]

RInv == NoRedundantRefresh /\ AnswerOk

LEMMA InitRInv == Init => RInv
  BY DEF Init, RInv, NoRedundantRefresh, AnswerOk, NoToken

\* Nobody rewrites the file while a refresh is in flight.
LEMMA RefreshKept ==
  ASSUME IInv, [Next]_vars, NEW c \in Callers, pc[c] = "refresh", pc'[c] = "refresh"
  PROVE  /\ UNCHANGED file /\ target'[c] = target[c] /\ rejected'[c] = rejected[c]
         /\ expired[target[c]] \subseteq expired'[target[c]]
  <1>1. CASE UNCHANGED vars
    BY <1>1 DEF vars
  <1>2. CASE Environment
    BY <1>2 DEF Environment, Crash, RemoveOrphanLock, Expire, LoginElsewhere, AuthRevoke,
       AuthLate, call, server, IInv, TypeOK
  <1>3. ASSUME NEW d \in Callers, Start(d) \/ Fails(d) \/ Unauthorized(d) \/ Finish(d)
        PROVE  /\ UNCHANGED <<file, expired>>
               /\ target'[c] = target[c] /\ rejected'[c] = rejected[c]
    BY <1>3 DEF Start, BeginToken, BeginForce, BeginRemove, BeginAdd, Begin, BeginImport, Fails,
       CallThrows, UnlockFails, call, Unauthorized, Finish, Return, Goto, server, IInv, TypeOK
  <1>4. ASSUME NEW d \in Callers, Step(d) PROVE UNCHANGED <<file, call, expired>>
    BY <1>4 DEF Step, Read, Acquire, LockTimeout, Load, RefreshOk, RefreshRejected,
       RefreshFails, RefreshDiscarded, Commit, UpdateThrows, Unlock, call, server, IInv,
       MutualExclusion, Critical
  <1> QED
    BY <1>1, <1>2, <1>3, <1>4 DEF Next, call

LEMMA NextRedundant ==
  ASSUME IInv, NoRedundantRefresh, [Next]_vars PROVE NoRedundantRefresh'
  <1> SUFFICES ASSUME NEW c \in Callers, pc'[c] = "refresh"
               PROVE  (Usable(file[target[c]]) /\ ~Fresh(c, target[c], file[target[c]]))'
    BY DEF NoRedundantRefresh
  <1>1. CASE pc[c] = "refresh"
    BY <1>1, RefreshKept DEF NoRedundantRefresh, Usable, Fresh
  <1>2. CASE pc[c] # "refresh"
    <2>1. Load(c)
      BY <1>2 DEF Next, Environment, Start, Step, BeginToken, BeginForce, BeginRemove, BeginAdd,
         Begin, BeginImport, Fails, CallThrows, UnlockFails, LoginElsewhere, Unauthorized, Finish, Read, Acquire, LockTimeout, RefreshOk, RefreshRejected,
         RefreshFails, RefreshDiscarded, Commit, UpdateThrows, Unlock, Crash, RemoveOrphanLock,
         Expire, AuthRevoke, AuthLate, Goto, vars, IInv, TypeOK, Load, LoadToken, LoadChange
    <2> QED
      BY <2>1 DEF Load, LoadToken, LoadChange, Goto, call, server, Usable, Fresh, IInv, TypeOK
  <1> QED
    BY <1>1, <1>2

\* AnswerOk for one call.
Answered(c) ==
    /\ rejected[c] <= issued[target[c]]
    /\ (op[c] = "token" /\ tokens[c] # Absent) =>
          /\ tokens[c].access # rejected[c]
          /\ tokens[c].access <= issued[target[c]]

\* A call that a step leaves alone keeps its answer while more is issued.
LEMMA AnswerKept ==
  ASSUME IInv, AnswerOk, NEW c \in Callers,
         \A b \in Accounts : issued'[b] \in Nat /\ issued[b] <= issued'[b],
         target'[c] = target[c],
         rejected'[c] = rejected[c] \/ rejected'[c] = NoToken,
         tokens'[c] = Absent \/ /\ tokens'[c] = tokens[c] /\ op'[c] = op[c]
                                /\ rejected'[c] = rejected[c]
  PROVE  Answered(c)'
  <1>1. /\ target[c] \in Accounts /\ issued[target[c]] \in Nat /\ rejected[c] \in Nat
        /\ tokens[c] # Absent => tokens[c].access \in Nat
    BY RecordFields DEF IInv, TypeOK
  <1> QED
    BY <1>1 DEF AnswerOk, Answered, NoToken

LEMMA NextAnswer ==
  ASSUME IInv, AnswerOk, [Next]_vars, NEW c \in Callers PROVE Answered(c)'
  <1> DEFINE More == \A b \in Accounts : issued'[b] \in Nat /\ issued[b] <= issued'[b]
  <1>1. ASSUME UNCHANGED issued PROVE More
    BY <1>1 DEF IInv, TypeOK
  <1>2. ASSUME NEW a \in Accounts, issued' = [issued EXCEPT ![a] = @ + 1] PROVE More
    BY <1>2, MoreIssued
  <1>3. \A a \in Accounts : /\ issued[a] \in Nat
                            /\ file[a] # Absent => file[a].access \in Nat /\ file[a].access <= issued[a]
    BY RecordFields DEF IInv, TypeOK, Files, StoredKnown, Known
  <1> HIDE DEF More
  <1>4. CASE UNCHANGED vars
    BY <1>1, <1>4, AnswerKept DEF vars, More
  <1>5. CASE Environment
    <2>1. More
      BY <1>1, <1>2, <1>5 DEF Environment, Crash, RemoveOrphanLock, Expire, LoginElsewhere,
         AuthRevoke, AuthLate, Grant, NextToken, server
    <2>2. /\ target' = target
          /\ rejected'[c] = rejected[c] \/ rejected'[c] = NoToken
          /\ \/ tokens'[c] = Absent
             \/ tokens'[c] = tokens[c] /\ op'[c] = op[c] /\ rejected'[c] = rejected[c]
      BY <1>5 DEF Environment, Crash, RemoveOrphanLock, Expire, LoginElsewhere, AuthRevoke,
         AuthLate, call
    <2> QED
      BY <2>1, <2>2, AnswerKept DEF More
  <1>6. ASSUME NEW d \in Callers, NEW a \in Accounts,
               \/ BeginToken(d, a) \/ BeginForce(d, a) \/ BeginRemove(d, a)
               \/ \E refreshable \in BOOLEAN : BeginAdd(d, a, refreshable)
        PROVE  Answered(c)'
    <2>1. PICK kind \in {"token", "add", "remove"}, held \in Record \cup {Absent},
               refused \in Nat :
            /\ op' = [op EXCEPT ![d] = kind] /\ target' = [target EXCEPT ![d] = a]
            /\ rejected' = [rejected EXCEPT ![d] = refused]
            /\ tokens' = [tokens EXCEPT ![d] = held]
            /\ refused <= issued[a]
            /\ kind = "token" => held = Absent
            /\ UNCHANGED issued \/ issued' = [issued EXCEPT ![a] = @ + 1]
      <3>1. ASSUME BeginToken(d, a) \/ BeginForce(d, a) \/ BeginRemove(d, a)
            PROVE  \E kind \in {"token", "remove"}, refused \in Nat :
                     /\ op' = [op EXCEPT ![d] = kind] /\ target' = [target EXCEPT ![d] = a]
                     /\ rejected' = [rejected EXCEPT ![d] = refused]
                     /\ tokens' = [tokens EXCEPT ![d] = Absent]
                     /\ refused <= issued[a] /\ UNCHANGED issued
        BY <1>3, <3>1 DEF BeginToken, BeginForce, BeginRemove, Begin, server, NoToken
      <3>2. ASSUME NEW refreshable \in BOOLEAN, BeginAdd(d, a, refreshable)
            PROVE  \E held \in Record :
                     /\ op' = [op EXCEPT ![d] = "add"] /\ target' = [target EXCEPT ![d] = a]
                     /\ rejected' = [rejected EXCEPT ![d] = 0]
                     /\ tokens' = [tokens EXCEPT ![d] = held]
                     /\ issued' = [issued EXCEPT ![a] = @ + 1]
        <4> DEFINE new == [access |-> issued[a] + 1, disabled |-> FALSE,
                           refresh |-> IF refreshable THEN issued[a] + 1 ELSE NoToken]
        <4>1. new \in Record
          BY <1>3 DEF Record, NoToken
        <4> QED
          BY <3>2, <4>1 DEF BeginAdd, Begin, NoToken
      <3> QED
        BY <1>3, <1>6, <3>1, <3>2
    <2>2. More
      BY <1>1, <1>2, <2>1
    <2>3. CASE c = d
      BY <1>3, <2>1, <2>2, <2>3 DEF Answered, More, IInv, TypeOK
    <2>4. CASE c # d
      BY <2>1, <2>2, <2>4, AnswerKept DEF More, IInv, TypeOK
    <2> QED
      BY <2>3, <2>4
  <1>10. ASSUME NEW d \in Callers, \E copy \in [Accounts -> UNION {Copies(a) : a \in Accounts}] :
                                    BeginImport(d, copy)
         PROVE  Answered(c)'
    <2>1. op' = [op EXCEPT ![d] = "import"] /\ UNCHANGED <<target, rejected, tokens, issued>>
      BY <1>10 DEF BeginImport, server
    <2>2. CASE c = d
      BY <2>1, <2>2 DEF AnswerOk, Answered, IInv, TypeOK
    <2>3. CASE c # d
      BY <1>1, <2>1, <2>3, AnswerKept DEF More, IInv, TypeOK
    <2> QED
      BY <2>2, <2>3
  <1>11. ASSUME NEW d \in Callers, Fails(d) PROVE Answered(c)'
    BY <1>1, <1>11, AnswerKept
    DEF Fails, CallThrows, UnlockFails, Return, call, server, More, IInv, TypeOK
  <1>7. ASSUME NEW d \in Callers, Unauthorized(d) PROVE Answered(c)'
    <2>1. CASE c = d
      BY <1>7, <2>1 DEF Unauthorized, Return, server, AnswerOk, Answered, IInv, TypeOK
    <2>2. CASE c # d
      BY <1>1, <1>7, <2>2, AnswerKept DEF Unauthorized, Return, server, More, IInv, TypeOK
    <2> QED
      BY <2>1, <2>2
  <1>8. ASSUME NEW d \in Callers, Finish(d) PROVE Answered(c)'
    BY <1>1, <1>8, AnswerKept DEF Finish, Return, server, More, IInv, TypeOK
  <1>9. ASSUME NEW d \in Callers, Step(d) PROVE Answered(c)'
    <2>1. UNCHANGED call
      BY <1>9 DEF Step, Read, Acquire, LockTimeout, Load, RefreshOk, RefreshRejected,
         RefreshFails, RefreshDiscarded, Commit, UpdateThrows, Unlock
    <2>2. More
      <3>1. CASE RefreshOk(d) \/ RefreshDiscarded(d)
        <4>1. PICK a \in Accounts : issued' = [issued EXCEPT ![a] = @ + 1]
          BY <3>1 DEF RefreshOk, RefreshDiscarded, Grant, IInv, TypeOK
        <4> QED
          BY <1>2, <4>1
      <3>2. CASE ~(RefreshOk(d) \/ RefreshDiscarded(d))
        BY <1>1, <1>9, <3>2 DEF Step, Read, Acquire, LockTimeout, Load, RefreshRejected,
           RefreshFails, Commit, UpdateThrows, Unlock, server
      <3> QED
        BY <3>1, <3>2
    <2>3. \/ tokens'[c] = tokens[c] \/ tokens'[c] = Absent
          \/ /\ c = d /\ op[c] = "token"
             /\ \/ /\ tokens'[c] = file[target[c]] /\ Fresh(c, target[c], file[target[c]])
                   /\ UNCHANGED issued
                \/ /\ tokens'[c].access = issued[target[c]] + 1
                   /\ issued' = [issued EXCEPT ![target[c]] = @ + 1]
      BY <1>9 DEF Step, Read, Acquire, LockTimeout, Load, LoadToken, LoadChange, RefreshOk,
         Renewal, NextToken, Grant, RefreshRejected, RefreshFails, RefreshDiscarded, Commit,
         UpdateThrows, Unlock, Return, server, IInv, TypeOK, ReadPhase, RefreshPhase
    <2>4. CASE tokens'[c] = tokens[c] \/ tokens'[c] = Absent
      BY <2>1, <2>2, <2>4, AnswerKept DEF More, call
    <2>5. CASE ~(tokens'[c] = tokens[c] \/ tokens'[c] = Absent)
      BY <1>3, <2>1, <2>3, <2>5 DEF Answered, AnswerOk, Fresh, call, IInv, TypeOK
    <2> QED
      BY <2>4, <2>5
  <1> QED
    BY <1>4, <1>5, <1>6, <1>7, <1>8, <1>9, <1>10, <1>11 DEF Next, Start

\* What a call that refreshes or returns a token has established in every
\* reachable state, together with the invariant of the lock.
THEOREM RefreshInvariance == Spec => [](IInv /\ RInv)
  <1>1. ASSUME AnswerOk, IInv, [Next]_vars PROVE AnswerOk'
    BY <1>1, NextAnswer DEF AnswerOk, Answered
  <1> DEFINE Inv == IInv /\ ImportSound /\ RInv
  <1>2. Inv /\ [Next]_vars => Inv'
    BY <1>1, NextIInv, NextImport, NextRedundant DEF RInv
  <1>3. Init => Inv
    BY InitIInv, InitImport, InitRInv
  <1>4. Inv => IInv /\ RInv
    OBVIOUS
  <1> QED
    BY <1>2, <1>3, <1>4, PTL DEF Spec

\* A refresh is in flight only for a stored token that expires or that the
\* caller saw refused: calls that queued for the lock reuse its result.
THEOREM RefreshJustified == Spec => []NoRedundantRefresh
  <1>1. RInv => NoRedundantRefresh
    BY DEF RInv
  <1> QED
    BY RefreshInvariance, <1>1, PTL

\* token() never returns the token its caller reported as refused.
THEOREM RetryProgresses == Spec => []RetryGetsNewToken
  <1>1. IInv /\ RInv => RetryGetsNewToken
    BY DEF RInv, AnswerOk, RetryGetsNewToken
  <1> QED
    BY RefreshInvariance, <1>1, PTL

=============================================================================
