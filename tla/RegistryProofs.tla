--------------------------- MODULE RegistryProofs ---------------------------
(***************************************************************************)
(* That the methods of the watch registry keep its types and its three     *)
(* maps in step, for any users and mints: the lemmas that the proofs about *)
(* the watch API and about the routing of spikes share.                    *)
(***************************************************************************)
EXTENDS Registry, TLAPS, FiniteSetTheorems

LEMMA WatchersFinite ==
  ASSUME RegistryTypeOK, NEW m \in Mints
  PROVE  IsFiniteSet(mintUsers[m]) /\ Cardinality(mintUsers[m]) \in Nat
BY UsersFinite, FS_Subset, FS_CardinalityType DEF RegistryTypeOK

LEMMA NewRegistryConsistent ==
  ASSUME NewRegistry
  PROVE  RegistryTypeOK /\ RegistryConsistent
BY FS_EmptySet DEF NewRegistry, RegistryTypeOK, RegistryConsistent

LEMMA AddWatchConsistent ==
  ASSUME RegistryTypeOK, RegistryConsistent, NEW u \in Users, NEW m \in Mints,
         AddWatch(u, m)
  PROVE  RegistryTypeOK' /\ RegistryConsistent'
<1> USE DEF RegistryTypeOK, Keys
<1>1. CASE UNCHANGED registryVars
  BY <1>1 DEF registryVars, RegistryConsistent
<1>2. CASE /\ <<u, m>> \notin watchByUserKey
           /\ watchByUserKey' = watchByUserKey \cup {<<u, m>>}
           /\ mintCounts' = [mintCounts EXCEPT ![m] = @ + 1]
           /\ mintUsers' = [mintUsers EXCEPT ![m] = @ \cup {u}]
  <2>1. RegistryTypeOK'
    BY <1>2
  <2>2. u \notin mintUsers[m] /\ mintCounts[m] = Cardinality(mintUsers[m])
    BY <1>2 DEF RegistryConsistent
  <2>3. Cardinality(mintUsers[m] \cup {u}) = mintCounts[m] + 1
    BY <2>2, WatchersFinite, FS_AddElement
  <2>4. mintUsers'[m] = {v \in Users : <<v, m>> \in watchByUserKey'}
    BY <1>2 DEF RegistryConsistent
  <2>5. \A x \in Mints \ {m} :
          /\ mintUsers'[x] = mintUsers[x] /\ mintCounts'[x] = mintCounts[x]
          /\ \A v \in Users : <<v, x>> \in watchByUserKey' <=> <<v, x>> \in watchByUserKey
    BY <1>2
  <2>6. mintCounts'[m] = Cardinality(mintUsers'[m])
    BY <1>2, <2>3
  <2>7. QED BY <2>1, <2>4, <2>5, <2>6 DEF RegistryConsistent
<1>3. QED BY <1>1, <1>2 DEF AddWatch

LEMMA RemoveWatchConsistent ==
  ASSUME RegistryTypeOK, RegistryConsistent, NEW u \in Users, NEW m \in Mints,
         RemoveWatch(u, m)
  PROVE  /\ RegistryTypeOK' /\ RegistryConsistent'
         /\ \A x \in Mints \ {m} : mintCounts'[x] = mintCounts[x]
         /\ <<u, m>> \in watchByUserKey => mintCounts'[m] = mintCounts[m] - 1
         /\ <<u, m>> \notin watchByUserKey => mintCounts'[m] = mintCounts[m]
<1> USE DEF RegistryTypeOK, Keys
<1>1. CASE <<u, m>> \notin watchByUserKey /\ UNCHANGED registryVars
  BY <1>1 DEF registryVars, RegistryConsistent
<1>2. CASE /\ <<u, m>> \in watchByUserKey
           /\ watchByUserKey' = watchByUserKey \ {<<u, m>>}
           /\ mintCounts' = [mintCounts EXCEPT ![m] = DropCount(@)]
           /\ mintUsers' = [mintUsers EXCEPT ![m] = @ \ {u}]
  <2>1. u \in mintUsers[m] /\ mintCounts[m] = Cardinality(mintUsers[m])
    BY <1>2 DEF RegistryConsistent
  <2>2. /\ Cardinality(mintUsers[m] \ {u}) = mintCounts[m] - 1
        /\ Cardinality(mintUsers[m] \ {u}) \in Nat
    BY <2>1, WatchersFinite, FS_RemoveElement, FS_CardinalityType
  <2>3. DropCount(mintCounts[m]) = mintCounts[m] - 1
    BY <2>2 DEF DropCount
  <2>4. RegistryTypeOK' /\ mintCounts'[m] = mintCounts[m] - 1
    BY <1>2, <2>2, <2>3
  <2>5. mintUsers'[m] = {v \in Users : <<v, m>> \in watchByUserKey'}
    BY <1>2 DEF RegistryConsistent
  <2>6. \A x \in Mints \ {m} :
          /\ mintUsers'[x] = mintUsers[x] /\ mintCounts'[x] = mintCounts[x]
          /\ \A v \in Users : <<v, x>> \in watchByUserKey' <=> <<v, x>> \in watchByUserKey
    BY <1>2
  <2>7. mintCounts'[m] = Cardinality(mintUsers'[m])
    BY <1>2, <2>2, <2>4
  <2>8. QED BY <1>2, <2>4, <2>5, <2>6, <2>7 DEF RegistryConsistent
<1>3. QED BY <1>1, <1>2 DEF RemoveWatch

(* What onSpike reads first agrees with what it reads later. *)
LEMMA WatchersAreListed ==
  ASSUME RegistryTypeOK, RegistryConsistent, NEW m \in Mints
  PROVE  HasWatchers(m) <=> mintUsers[m] # {}
<1>1. mintCounts[m] = Cardinality(mintUsers[m])
  BY DEF RegistryConsistent
<1>2. Cardinality(mintUsers[m]) = 0 <=> mintUsers[m] = {}
  BY WatchersFinite, FS_EmptySet
<1>3. QED BY <1>1, <1>2, WatchersFinite DEF HasWatchers

(* A method of the registry leaves the users of other mints alone. *)
LEMMA OtherMintsAlone ==
  ASSUME RegistryTypeOK, NEW u \in Users, NEW m \in Mints,
         AddWatch(u, m) \/ RemoveWatch(u, m)
  PROVE  \A x \in Mints \ {m} : mintUsers'[x] = mintUsers[x]
BY DEF AddWatch, RemoveWatch, RegistryTypeOK, registryVars

=============================================================================
