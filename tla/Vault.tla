-------------------------------- MODULE Vault --------------------------------
(***************************************************************************)
(* What the accounts file promises to its readers: one account changes at  *)
(* a time, by a login, a removal, a token refresh of an enabled account,   *)
(* or by being disabled; and an import replaces or adds all the accounts   *)
(* of the file it has read at once.  AccountStore implements it.           *)
(***************************************************************************)
EXTENDS Integers

CONSTANTS Accounts, Absent

VARIABLES
    vault,      \* the stored record of each account
    offered,    \* records that a login obtained and has not stored yet
    announced   \* files that an import has read and not stored yet

Record == [access : Nat, refresh : Nat, disabled : BOOLEAN]

Init ==
    /\ vault = [a \in Accounts |-> Absent]
    /\ offered = [a \in Accounts |-> {}]
    /\ announced = {}

\* Logins and imports end without being stored when their call fails or its
\* process dies.
Withdrawn ==
    /\ \A a \in Accounts : offered'[a] \subseteq offered[a]
    /\ announced' \subseteq announced

Offer(a) ==
    /\ \E r \in offered'[a] :
          /\ r \in Record /\ ~r.disabled
          /\ offered' = [offered EXCEPT ![a] = @ \cup {r}]
    /\ UNCHANGED <<vault, announced>>

Announce ==
    /\ \E copy \in announced' :
          /\ copy \in [Accounts -> Record \cup {Absent}]
          /\ announced' = announced \cup {copy}
    /\ UNCHANGED <<vault, offered>>

Withdraw == Withdrawn /\ UNCHANGED vault

\* Only a login or an import creates a record or enables a disabled one.
Login(a) ==
    /\ \E r \in offered[a] : vault' = [vault EXCEPT ![a] = r]
    /\ Withdrawn

Import ==
    /\ \E copy \in announced :
          vault' = [a \in Accounts |-> IF copy[a] = Absent THEN vault[a] ELSE copy[a]]
    /\ Withdrawn

Remove(a) ==
    /\ vault' = [vault EXCEPT ![a] = Absent]
    /\ UNCHANGED <<offered, announced>>

\* A refresh never goes back to an older token and never revives an account
\* that was removed or disabled while it was running.
Refresh(a) ==
    /\ vault[a] # Absent /\ ~vault[a].disabled
    /\ LET r == vault'[a]
       IN  /\ r \in Record /\ ~r.disabled
           /\ r.access > vault[a].access
           /\ r.refresh >= vault[a].refresh
           /\ vault' = [vault EXCEPT ![a] = r]
    /\ UNCHANGED <<offered, announced>>

Disable(a) ==
    /\ vault[a] # Absent /\ ~vault[a].disabled
    /\ vault' = [vault EXCEPT ![a] = [@ EXCEPT !.disabled = TRUE]]
    /\ UNCHANGED <<offered, announced>>

Next ==
    \/ Withdraw \/ Announce \/ Import
    \/ \E a \in Accounts :
          Offer(a) \/ Login(a) \/ Remove(a) \/ Refresh(a) \/ Disable(a)

Spec == Init /\ [][Next]_<<vault, offered, announced>>
=============================================================================
