------------------------------ MODULE Registry ------------------------------
(***************************************************************************)
(* The in-memory watch registry of internal/listener/registry.go: which    *)
(* user watches which mint.  Its three maps are kept together under one    *)
(* mutex, so every method is one atomic step.  An absent key of the Go     *)
(* maps mintCounts and mintUsers is the value 0 and {} here: the code      *)
(* deletes an entry as soon as it reaches zero, and its readers treat an   *)
(* absent entry as zero or empty.  The string key userID + ":" + mint is   *)
(* the pair <<u, m>>: a user id is the decimal text of a Telegram id and   *)
(* holds no colon, so the concatenation is injective.                      *)
(***************************************************************************)
EXTENDS Integers, FiniteSets, Tokens, Accounts

ASSUME UsersFinite == IsFiniteSet(Users)

VARIABLES watchByUserKey,   \* the set of <<user, mint>> keys
          mintCounts,       \* number of watchers of a mint, 0 when absent
          mintUsers         \* the watchers of a mint, {} when absent

registryVars == <<watchByUserKey, mintCounts, mintUsers>>

Keys == Users \X Mints

RegistryTypeOK ==
  /\ watchByUserKey \in SUBSET Keys
  /\ mintCounts \in [Mints -> Nat]
  /\ mintUsers \in [Mints -> SUBSET Users]

NewRegistry ==
  /\ watchByUserKey = {}
  /\ mintCounts = [m \in Mints |-> 0]
  /\ mintUsers = [m \in Mints |-> {}]

(* A faulty AddWatch that counts a second watch by the same user. *)
AddWatchCountsTwice(u, m) ==
  /\ watchByUserKey' = watchByUserKey \cup {<<u, m>>}
  /\ mintCounts' = [mintCounts EXCEPT ![m] = @ + 1]
  /\ mintUsers' = [mintUsers EXCEPT ![m] = @ \cup {u}]

(* Registry.AddWatch: a second watch by the same user is a no-op. *)
AddWatch(u, m) ==
  \/ /\ <<u, m>> \in watchByUserKey
     /\ UNCHANGED registryVars
  \/ /\ <<u, m>> \notin watchByUserKey
     /\ watchByUserKey' = watchByUserKey \cup {<<u, m>>}
     /\ mintCounts' = [mintCounts EXCEPT ![m] = @ + 1]
     /\ mintUsers' = [mintUsers EXCEPT ![m] = @ \cup {u}]

(* A count that falls to zero or below loses its entry. *)
DropCount(n) == IF n - 1 <= 0 THEN 0 ELSE n - 1

(* Registry.RemoveWatch: removing a watch that is not there is a no-op. *)
RemoveWatch(u, m) ==
  \/ /\ <<u, m>> \notin watchByUserKey
     /\ UNCHANGED registryVars
  \/ /\ <<u, m>> \in watchByUserKey
     /\ watchByUserKey' = watchByUserKey \ {<<u, m>>}
     /\ mintCounts' = [mintCounts EXCEPT ![m] = DropCount(@)]
     /\ mintUsers' = [mintUsers EXCEPT ![m] = @ \ {u}]

HasWatchers(m) == mintCounts[m] > 0

UsersForMint(m) == mintUsers[m]

(***************************************************************************)
(* The three maps tell one story: the users listed for a mint are exactly  *)
(* those with a key, and the count is their number.  HasWatchers reads the *)
(* count, UsersForMint the user sets and AddWatch the keys, so routing     *)
(* (registry.go:58, 74) is right only while they agree.                    *)
(***************************************************************************)
RegistryConsistent ==
  \A m \in Mints :
    /\ mintUsers[m] = {u \in Users : <<u, m>> \in watchByUserKey}
    /\ mintCounts[m] = Cardinality(mintUsers[m])

=============================================================================
