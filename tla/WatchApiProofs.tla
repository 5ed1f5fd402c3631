--------------------------- MODULE WatchApiProofs ---------------------------
(***************************************************************************)
(* Proofs about the composed watch service, for any users, tabs and mints: *)
(* its type invariant, the consistency of the registry's three maps, that  *)
(* the tracker's counts cover the registry's watchers, that the listeners  *)
(* table agrees with the registry wherever no two requests for one watch   *)
(* have overlapped, and that a restart makes registry and tracker from it. *)
(***************************************************************************)
EXTENDS WatchApi, TradeTrackerProofs, RegistryProofs

-----------------------------------------------------------------------------
(* Type correctness and registry consistency of the service.               *)

WatchInv == TypeOK /\ RegistryConsistent

(* A step that leaves registry and tracker alone. *)
LEMMA OnlyApi ==
  ASSUME WatchInv, UNCHANGED <<registryVars, vars>>, ApiTypeOK'
  PROVE  WatchInv'
BY DEF WatchInv, TypeOK, RegistryConsistent, registryVars, RegistryTypeOK, vars,
       trackerVars, countVars, connVars, TrackerTypeOK

LEMMA WatchInit ==
  ASSUME Init
  PROVE  WatchInv
<1>1. RegistryTypeOK /\ RegistryConsistent
  BY NewRegistryConsistent DEF Init
<1>2. TrackerTypeOK
  BY TrackerTypeInit DEF Init
<1>3. ApiTypeOK
  <2>1. /\ phase \in {"down", "loading", "serving"}
        /\ pc \in [Clients -> {"idle", "finish"} \cup PostSteps \cup DeleteSteps]
        /\ view \in [Clients -> SUBSET Mints] /\ target \in [Clients -> Mints]
    BY DEF Init
  <2>2. crashes \in 0..MaxCrashes
    BY MaxCrashesNat DEF Init
  <2>3. /\ store \in SUBSET Keys /\ toLoad \in SUBSET Keys
        /\ blind \in SUBSET Mints /\ overlapped \in SUBSET Keys
    BY DEF Init
  <2>4. preloaded \in BOOLEAN
    BY DEF Init
  <2>5. QED BY <2>1, <2>2, <2>3, <2>4 DEF ApiTypeOK
<1>4. QED BY <1>1, <1>2, <1>3 DEF WatchInv, TypeOK

LEMMA WatchStartup ==
  ASSUME WatchInv, ListActiveListeners \/ PreloadListener \/ StartServing \/ Crash
  PROVE  WatchInv'
<1> USE DEF WatchInv, TypeOK
<1>1. CASE ListActiveListeners
  <2>1. ApiTypeOK'
    BY <1>1 DEF ListActiveListeners, ApiTypeOK
  <2>2. QED BY <1>1, <2>1, OnlyApi DEF ListActiveListeners
<1>2. CASE PreloadListener
  <2>1. PICK u \in Users, m \in Mints :
          toLoad' = toLoad \ {<<u, m>>} /\ AddWatch(u, m) /\ CountUp(Main, m)
    BY <1>2 DEF PreloadListener
  <2>2. RegistryTypeOK' /\ RegistryConsistent'
    BY <2>1, AddWatchConsistent
  <2>3. TrackerTypeOK'
    <3>1. UNCHANGED connVars /\ calls' \in 0..MaxCalls
      BY <1>2 DEF PreloadListener, TrackerTypeOK
    <3>2. QED BY <2>1, <3>1, CountUpType, MainCaller
  <2>4. ApiTypeOK'
    BY <1>2, <2>1 DEF PreloadListener, ApiTypeOK
  <2>5. QED BY <2>2, <2>3, <2>4
<1>3. CASE StartServing
  <2>1. ApiTypeOK'
    BY <1>3 DEF StartServing, ApiTypeOK
  <2>2. QED BY <1>3, <2>1, OnlyApi DEF StartServing
<1>4. CASE Crash
  <2>1. NewRegistry'
    BY <1>4 DEF Crash, RegistryLost, NewRegistry
  <2>2. RegistryTypeOK' /\ RegistryConsistent'
    <3>1. \A m \in Mints : mintUsers'[m] = {} /\ mintCounts'[m] = 0
      BY <2>1 DEF NewRegistry
    <3>2. watchByUserKey' = {}
      BY <2>1 DEF NewRegistry
    <3>3. QED
      BY <2>1, <3>1, <3>2, FS_EmptySet
         DEF NewRegistry, RegistryTypeOK, RegistryConsistent
  <2>3. TrackerTypeOK'
    <3>1. changeReq' \in Seq(Change) /\ Len(changeReq') = 0
      BY <1>4, EmptySequence DEF Crash, TrackerLost
    <3>2. Len(changeReq') <= QueueCap
      BY <3>1, QueueCapNat
    <3>3. watcherCounts' \in [Mints -> Nat] /\ pending' \in [Callers -> SUBSET Change]
      BY <1>4 DEF Crash, TrackerLost
    <3>4. /\ conn' \in {"down", "up", "broken"}
          /\ writer' \in {"none", "start", "listing", "loop", "ended"}
          /\ metrics' \in SUBSET Mints /\ toList' \in SUBSET Mints
          /\ upstream' \in SUBSET Mints /\ dropped' \in SUBSET Mints
          /\ calls' = calls /\ breaks' = breaks
      BY <1>4 DEF Crash, TrackerLost
    <3>5. stale' \in BOOLEAN
      BY <1>4 DEF Crash, TrackerLost
    <3>6. QED
      BY <3>1, <3>2, <3>3, <3>4, <3>5 DEF TrackerTypeOK
  <2>4. ApiTypeOK'
    <3>1. crashes' \in 0..MaxCrashes
      BY <1>4, MaxCrashesNat DEF Crash, ApiTypeOK
    <3>2. QED
      BY <1>4, <3>1 DEF Crash, ApiTypeOK, PostSteps, DeleteSteps
  <2>5. QED BY <2>2, <2>3, <2>4
<1>5. QED BY <1>1, <1>2, <1>3, <1>4
LEMMA SameTracker ==
  ASSUME TrackerTypeOK, UNCHANGED vars
  PROVE  TrackerTypeOK'
BY DEF vars, trackerVars, countVars, connVars, TrackerTypeOK

LEMMA SameRegistry ==
  ASSUME RegistryTypeOK, RegistryConsistent, UNCHANGED registryVars
  PROVE  RegistryTypeOK' /\ RegistryConsistent'
BY DEF registryVars, RegistryTypeOK, RegistryConsistent

(* Going to another step keeps the type of pc. *)
LEMMA GotoType ==
  ASSUME ApiTypeOK, NEW c \in Clients, NEW step, Goto(c, step),
         step \in {"idle", "finish"} \cup PostSteps \cup DeleteSteps
  PROVE  pc' \in [Clients -> {"idle", "finish"} \cup PostSteps \cup DeleteSteps]
BY DEF Goto, ApiTypeOK

LEMMA RequestTypes ==
  ASSUME ApiTypeOK, NEW c \in Clients
  PROVE  /\ UserOf[c] \in Users /\ target[c] \in Mints /\ KeyOf(c) \in Keys
         /\ c \in Callers
BY UserOfClients DEF ApiTypeOK, KeyOf, Keys, Clients

LEMMA WatchAccept ==
  ASSUME WatchInv, NEW c \in Clients, NEW m \in Mints, NEW step,
         Requests(c, m, step), step \in {"upsert", "delete"}
  PROVE  WatchInv'
<1> USE DEF WatchInv, TypeOK
<1>1. ApiTypeOK'
  <2>1. pc' \in [Clients -> {"idle", "finish"} \cup PostSteps \cup DeleteSteps]
    BY DEF Requests, ApiTypeOK, PostSteps, DeleteSteps
  <2>2. target' \in [Clients -> Mints] /\ overlapped' \in SUBSET Keys
    BY RequestTypes DEF Requests, ApiTypeOK, Keys
  <2>3. QED BY <2>1, <2>2 DEF Requests, ApiTypeOK
<1>2. TrackerTypeOK'
  <2>1. calls' \in 0..MaxCalls
    BY BoundsNat DEF Requests, TrackerTypeOK
  <2>2. QED
    BY <2>1 DEF Requests, trackerVars, countVars, connVars, TrackerTypeOK
<1>3. RegistryTypeOK' /\ RegistryConsistent'
  BY SameRegistry DEF Requests
<1>4. QED BY <1>1, <1>2, <1>3

LEMMA WatchStoreCall ==
  ASSUME WatchInv, NEW c \in Clients, UpsertListener(c) \/ DeleteListener(c)
  PROVE  WatchInv'
<1> USE DEF WatchInv, TypeOK
<1>1. KeyOf(c) \in Keys
  BY RequestTypes
<1>2. /\ store' \in SUBSET Keys
      /\ \E step \in {"idle", "register", "unregister"} : Goto(c, step)
      /\ UNCHANGED <<registryVars, vars, phase, toLoad, preloaded, target,
                     view, blind, overlapped, crashes>>
  BY <1>1 DEF UpsertListener, DeleteListener, StoreCall, ApiTypeOK
<1>3. ApiTypeOK'
  BY <1>2, GotoType DEF ApiTypeOK, PostSteps, DeleteSteps
<1>4. QED BY <1>2, <1>3, OnlyApi

LEMMA WatchRequest ==
  ASSUME WatchInv, NEW c \in Clients, RequestStep(c)
  PROVE  WatchInv'
<1> USE DEF WatchInv, TypeOK
<1>1. /\ UserOf[c] \in Users /\ target[c] \in Mints /\ KeyOf(c) \in Keys
      /\ c \in Callers
  BY RequestTypes
<1>2. CASE OpenPage(c)
  <2>1. ApiTypeOK'
    BY <1>1, <1>2 DEF OpenPage, ApiTypeOK, Listing
  <2>2. QED BY <1>2, <2>1, OnlyApi DEF OpenPage
<1>3. CASE RegisterWatch(c)
  <2>1. RegistryTypeOK' /\ RegistryConsistent'
    BY <1>1, <1>3, AddWatchConsistent DEF RegisterWatch
  <2>2. ApiTypeOK'
    BY <1>3, GotoType DEF RegisterWatch, ApiTypeOK, PostSteps
  <2>3. TrackerTypeOK'
    BY <1>3, SameTracker DEF RegisterWatch
  <2>4. QED BY <2>1, <2>2, <2>3
<1>4. CASE UnregisterWatch(c)
  <2>1. RegistryTypeOK' /\ RegistryConsistent'
    BY <1>1, <1>4, RemoveWatchConsistent DEF UnregisterWatch
  <2>2. ApiTypeOK'
    BY <1>1, <1>4, GotoType DEF UnregisterWatch, ApiTypeOK, DeleteSteps
  <2>3. TrackerTypeOK'
    BY <1>4, SameTracker DEF UnregisterWatch
  <2>4. QED BY <2>1, <2>2, <2>3
<1>5. CASE TrackMint(c) \/ UntrackMint(c)
  <2>1. /\ CountUp(c, target[c]) \/ CountDown(c, target[c])
        /\ Goto(c, "finish") /\ UNCHANGED <<registryVars, connVars, calls>>
        /\ UNCHANGED <<phase, store, toLoad, preloaded, target, view, blind,
                       overlapped, crashes>>
    BY <1>5 DEF TrackMint, UntrackMint
  <2>2. ApiTypeOK'
    BY <2>1, GotoType DEF ApiTypeOK
  <2>3. calls' \in 0..MaxCalls
    BY <2>1 DEF TrackerTypeOK
  <2>4. TrackerTypeOK'
    BY <1>1, <2>1, <2>3, CountUpType, CountDownType
  <2>5. QED BY <2>1, <2>2, <2>4, SameRegistry
<1>6. CASE CheckWatchers(c)
  <2>1. ApiTypeOK'
    BY <1>6, GotoType DEF CheckWatchers, ApiTypeOK, DeleteSteps
  <2>2. QED BY <1>6, <2>1, OnlyApi DEF CheckWatchers
<1>7. CASE Respond(c)
  <2>1. view' \in [Clients -> SUBSET Mints]
    BY <1>7 DEF Respond, ApiTypeOK, Listing
  <2>2. ApiTypeOK'
    BY <1>7, <2>1, GotoType DEF Respond, ApiTypeOK
  <2>3. QED BY <1>7, <2>2, OnlyApi DEF Respond
<1>8. QED
  BY <1>2, <1>3, <1>4, <1>5, <1>6, <1>7, WatchStoreCall DEF RequestStep

LEMMA WatchStep ==
  ASSUME WatchInv, [Next]_watchVars
  PROVE  WatchInv'
<1> USE DEF WatchInv, TypeOK
<1>1. CASE SendsChange \/ TrackerStep
  <2>1. TrackerTypeOK'
    BY <1>1, SendChangeType, ConnectionStepType DEF SendsChange, TrackerStep
  <2>2. RegistryTypeOK' /\ RegistryConsistent'
    BY <1>1, SameRegistry DEF SendsChange, TrackerStep
  <2>3. ApiTypeOK'
    BY <1>1 DEF SendsChange, TrackerStep, apiVars, ApiTypeOK
  <2>4. QED BY <2>1, <2>2, <2>3
<1>2. ASSUME NEW c \in Clients, NEW m \in Mints, PostWatch(c, m) \/ DeleteWatch(c, m)
      PROVE  WatchInv'
  BY <1>2, WatchAccept DEF PostWatch, DeleteWatch
<1>3. ASSUME NEW c \in Clients, RequestStep(c)
      PROVE  WatchInv'
  BY <1>3, WatchRequest
<1>4. CASE UNCHANGED watchVars
  <2>1. ApiTypeOK'
    BY <1>4 DEF watchVars, apiVars, ApiTypeOK
  <2>2. QED BY <1>4, <2>1, OnlyApi DEF watchVars
<1>5. QED
  BY <1>1, <1>2, <1>3, <1>4, WatchStartup DEF Next

(* Every variable of the service keeps its type. *)
THEOREM TypeCorrect == Spec => []TypeOK
<1>1. Init => WatchInv
  BY WatchInit
<1>2. WatchInv /\ [Next]_watchVars => WatchInv'
  BY WatchStep
<1>3. WatchInv => TypeOK
  BY DEF WatchInv
<1>4. QED BY <1>1, <1>2, <1>3, PTL DEF Spec

(* The registry's keys, counts and user sets always agree, under any       *)
(* interleaving of handlers and across restarts.                           *)
THEOREM RegistryCorrect == Spec => []RegistryConsistent
<1>1. Init => WatchInv
  BY WatchInit
<1>2. WatchInv /\ [Next]_watchVars => WatchInv'
  BY WatchStep
<1>3. WatchInv => RegistryConsistent
  BY DEF WatchInv
<1>4. QED BY <1>1, <1>2, <1>3, PTL DEF Spec
-----------------------------------------------------------------------------
(* The tracker's counts cover the watchers.                                *)

LEMMA AtFinite ==
  ASSUME NEW S, NEW m
  PROVE  IsFiniteSet(At(S, m)) /\ Cardinality(At(S, m)) \in Nat
<1>1. At(S, m) \in SUBSET Callers
  BY DEF At, Clients
<1>2. QED BY <1>1, ClientsFinite, FS_Subset, FS_CardinalityType

(* What going to a step does to the number of requests at a set of steps.  *)
LEMMA AtAfterGoto ==
  ASSUME ApiTypeOK, NEW c \in Clients, NEW step, Goto(c, step),
         UNCHANGED target, NEW S, NEW m
  PROVE  Cardinality(At(S, m))' =
           Cardinality(At(S, m))
             + (IF step \in S /\ pc[c] \notin S /\ target[c] = m THEN 1 ELSE 0)
             - (IF step \notin S /\ pc[c] \in S /\ target[c] = m THEN 1 ELSE 0)
<1>1. pc' = [pc EXCEPT ![c] = step] /\ pc \in [Clients -> {"idle", "finish"} \cup PostSteps \cup DeleteSteps]
  BY DEF Goto, ApiTypeOK
<1>2. pc'[c] = step /\ \A d \in Clients \ {c} : pc'[d] = pc[d]
  BY <1>1
<1>3. CASE step \in S /\ pc[c] \notin S /\ target[c] = m
  <2>1. At(S, m)' = At(S, m) \cup {c} /\ c \notin At(S, m)
    BY <1>2, <1>3 DEF At
  <2>2. Cardinality(At(S, m) \cup {c}) = Cardinality(At(S, m)) + 1
    BY <2>1, AtFinite, FS_AddElement
  <2>3. Cardinality(At(S, m))' = Cardinality(At(S, m)) + 1
    BY <2>1, <2>2
  <2>4. Cardinality(At(S, m)) \in Nat
    BY AtFinite
  <2>5. QED BY <1>3, <2>3, <2>4
<1>4. CASE step \notin S /\ pc[c] \in S /\ target[c] = m
  <2>1. At(S, m)' = At(S, m) \ {c} /\ c \in At(S, m)
    BY <1>2, <1>4 DEF At
  <2>2. Cardinality(At(S, m) \ {c}) = Cardinality(At(S, m)) - 1
    BY <2>1, AtFinite, FS_RemoveElement
  <2>3. Cardinality(At(S, m))' = Cardinality(At(S, m)) - 1
    BY <2>1, <2>2
  <2>4. Cardinality(At(S, m)) \in Nat
    BY AtFinite
  <2>5. QED BY <1>4, <2>3, <2>4
<1>5. CASE ~(step \in S <=> pc[c] \notin S) \/ target[c] # m
  <2>1. At(S, m)' = At(S, m)
    BY <1>2, <1>5 DEF At
  <2>2. QED BY <1>5, <2>1, AtFinite
<1>6. QED BY <1>3, <1>4, <1>5

(* A step that leaves the counts and the requests' places alone. *)
LEMMA CoverSame ==
  ASSUME WatchInv, CountCoversWatchers,
         UNCHANGED <<watcherCounts, mintCounts, pc, target>>, blind \subseteq blind'
  PROVE  CountCoversWatchers'
<1>1. \A S, m : At(S, m)' = At(S, m)
  BY DEF At
<1>2. QED BY <1>1 DEF CountCoversWatchers

(* One request moves on; the counts of its mint change in step with it. *)
LEMMA CoverGoto ==
  ASSUME WatchInv, CountCoversWatchers, NEW c \in Clients, NEW step,
         Goto(c, step), UNCHANGED target, blind \subseteq blind',
         watcherCounts' \in [Mints -> Nat], mintCounts' \in [Mints -> Nat],
         \A m \in Mints \ {target[c]} :
            watcherCounts'[m] = watcherCounts[m] /\ mintCounts'[m] = mintCounts[m],
         target[c] \in blind' \/
           watcherCounts'[target[c]] - watcherCounts[target[c]]
             + (IF step = "track" THEN 1 ELSE 0) - (IF pc[c] = "track" THEN 1 ELSE 0)
           >= mintCounts'[target[c]] - mintCounts[target[c]]
             + (IF step \in {"check", "untrack"} THEN 1 ELSE 0)
             - (IF pc[c] \in {"check", "untrack"} THEN 1 ELSE 0)
  PROVE  CountCoversWatchers'
<1> USE DEF WatchInv, TypeOK
<1> SUFFICES ASSUME NEW m \in Mints \ blind'
             PROVE  (watcherCounts[m] + Cardinality(At({"track"}, m))
                       >= mintCounts[m] + Cardinality(At({"check", "untrack"}, m)))'
  BY DEF CountCoversWatchers
<1>1. watcherCounts[m] + Cardinality(At({"track"}, m))
        >= mintCounts[m] + Cardinality(At({"check", "untrack"}, m))
  BY DEF CountCoversWatchers
<1>2. /\ watcherCounts[m] \in Nat /\ mintCounts[m] \in Nat
      /\ watcherCounts'[m] \in Nat /\ mintCounts'[m] \in Nat
      /\ Cardinality(At({"track"}, m)) \in Nat
      /\ Cardinality(At({"check", "untrack"}, m)) \in Nat
  BY AtFinite DEF RegistryTypeOK, TrackerTypeOK
<1>3. Cardinality(At({"track"}, m))' = Cardinality(At({"track"}, m))
        + (IF step \in {"track"} /\ pc[c] \notin {"track"} /\ target[c] = m THEN 1 ELSE 0)
        - (IF step \notin {"track"} /\ pc[c] \in {"track"} /\ target[c] = m THEN 1 ELSE 0)
  BY AtAfterGoto
<1>4. Cardinality(At({"check", "untrack"}, m))' = Cardinality(At({"check", "untrack"}, m))
        + (IF step \in {"check", "untrack"} /\ pc[c] \notin {"check", "untrack"} /\ target[c] = m THEN 1 ELSE 0)
        - (IF step \notin {"check", "untrack"} /\ pc[c] \in {"check", "untrack"} /\ target[c] = m THEN 1 ELSE 0)
  BY AtAfterGoto
<1>5. CASE target[c] # m
  BY <1>1, <1>2, <1>3, <1>4, <1>5
<1>6. CASE target[c] = m
  BY <1>1, <1>2, <1>3, <1>4, <1>6
<1>7. QED BY <1>5, <1>6

LEMMA CoverInit ==
  ASSUME Init
  PROVE  CountCoversWatchers
<1>1. \A S \in SUBSET (PostSteps \cup DeleteSteps) : \A m : At(S, m) = {}
  BY DEF Init, At, PostSteps, DeleteSteps
<1>2. \A m \in Mints : watcherCounts[m] = 0 /\ mintCounts[m] = 0
  BY DEF Init, NewRegistry, NewTradeTracker
<1>3. Cardinality({}) = 0
  BY FS_EmptySet
<1>4. \A m \in Mints : At({"track"}, m) = {} /\ At({"check", "untrack"}, m) = {}
  BY <1>1 DEF PostSteps, DeleteSteps
<1>5. QED BY <1>2, <1>3, <1>4 DEF CountCoversWatchers

LEMMA CoverStartup ==
  ASSUME WatchInv, CountCoversWatchers,
         ListActiveListeners \/ PreloadListener \/ StartServing \/ Crash
  PROVE  CountCoversWatchers'
<1> USE DEF WatchInv, TypeOK
<1>1. CASE ListActiveListeners \/ StartServing
  BY <1>1, CoverSame DEF ListActiveListeners, StartServing, vars, trackerVars,
       countVars, registryVars
<1>2. CASE PreloadListener
  <2>1. PICK u \in Users, m \in Mints : AddWatch(u, m) /\ CountUp(Main, m)
    BY <1>2 DEF PreloadListener
  <2>2. \A S, x : At(S, x)' = At(S, x)
    BY <1>2 DEF PreloadListener, At
  <2>3. blind' = blind
    BY <1>2 DEF PreloadListener
  <2>4. ASSUME NEW x \in Mints
        PROVE  /\ watcherCounts[x] \in Nat /\ mintCounts[x] \in Nat
               /\ Cardinality(At({"track"}, x)) \in Nat
               /\ Cardinality(At({"check", "untrack"}, x)) \in Nat
               /\ \/ watcherCounts'[x] = watcherCounts[x] + 1
                     /\ mintCounts'[x] \in {mintCounts[x], mintCounts[x] + 1}
                  \/ watcherCounts'[x] = watcherCounts[x]
                     /\ mintCounts'[x] = mintCounts[x]
    <3>1. /\ watcherCounts[x] \in Nat /\ mintCounts[x] \in Nat
          /\ Cardinality(At({"track"}, x)) \in Nat
          /\ Cardinality(At({"check", "untrack"}, x)) \in Nat
      BY AtFinite DEF RegistryTypeOK, TrackerTypeOK
    <3>2. watcherCounts'[x] = IF x = m THEN watcherCounts[x] + 1 ELSE watcherCounts[x]
      BY <2>1 DEF CountUp, TrackerTypeOK
    <3>3. /\ x # m => mintCounts'[x] = mintCounts[x]
          /\ mintCounts'[x] \in {mintCounts[x], mintCounts[x] + 1}
      BY <2>1 DEF AddWatch, RegistryTypeOK, registryVars
    <3>4. QED BY <3>1, <3>2, <3>3
  <2>5. QED BY <2>2, <2>3, <2>4 DEF CountCoversWatchers
<1>3. CASE Crash
  <2>1. \A m \in Mints : watcherCounts'[m] = 0 /\ mintCounts'[m] = 0
    BY <1>3 DEF Crash, RegistryLost, TrackerLost
  <2>2. \A m \in Mints :
          At({"track"}, m)' = {} /\ At({"check", "untrack"}, m)' = {}
    BY <1>3 DEF Crash, At
  <2>3. Cardinality({}) = 0
    BY FS_EmptySet
  <2>4. QED BY <2>1, <2>2, <2>3 DEF CountCoversWatchers
<1>4. QED BY <1>1, <1>2, <1>3

(* Accepting a request moves no request between the counted steps. *)
LEMMA CoverAccept ==
  ASSUME WatchInv, CountCoversWatchers, NEW c \in Clients, NEW m \in Mints,
         NEW step \in {"upsert", "delete"}, Requests(c, m, step)
  PROVE  CountCoversWatchers'
<1> USE DEF WatchInv, TypeOK
<1>1. /\ pc[c] = "idle" /\ pc'[c] \in {"upsert", "delete"}
      /\ \A d \in Clients \ {c} : pc'[d] = pc[d] /\ target'[d] = target[d]
  BY DEF Requests, ApiTypeOK
<1>2. \A x : /\ At({"track"}, x)' = At({"track"}, x)
             /\ At({"check", "untrack"}, x)' = At({"check", "untrack"}, x)
  BY <1>1 DEF At
<1>3. UNCHANGED <<watcherCounts, mintCounts, blind>>
  BY DEF Requests, trackerVars, countVars, registryVars
<1>4. QED BY <1>2, <1>3 DEF CountCoversWatchers

LEMMA CoverRequest ==
  ASSUME WatchInv, CountCoversWatchers, NEW c \in Clients, RequestStep(c)
  PROVE  CountCoversWatchers'
<1> USE DEF WatchInv, TypeOK
<1>1. /\ UserOf[c] \in Users /\ target[c] \in Mints /\ KeyOf(c) \in Keys
      /\ c \in Callers
  BY RequestTypes
<1>2. /\ watcherCounts \in [Mints -> Nat] /\ mintCounts \in [Mints -> Nat]
      /\ watcherCounts[target[c]] \in Nat /\ mintCounts[target[c]] \in Nat
  BY <1>1 DEF RegistryTypeOK, TrackerTypeOK
<1>3. CASE OpenPage(c)
  BY <1>3, CoverSame DEF OpenPage, vars, trackerVars, countVars, registryVars
<1>4. CASE UpsertListener(c) \/ DeleteListener(c)
  <2>1. /\ UNCHANGED <<watcherCounts, mintCounts, target, blind>>
        /\ pc[c] \in {"upsert", "delete"}
    BY <1>4 DEF UpsertListener, DeleteListener, StoreCall, vars, trackerVars,
         countVars, registryVars
  <2>2. PICK step \in {"idle", "register", "unregister"} : Goto(c, step)
    BY <1>4 DEF UpsertListener, DeleteListener, StoreCall
  <2>3. QED BY <1>2, <2>1, <2>2, CoverGoto
<1>5. CASE RegisterWatch(c)
  <2>1. /\ UNCHANGED <<watcherCounts, target, blind>>
        /\ pc[c] = "register" /\ Goto(c, "track")
    BY <1>5 DEF RegisterWatch, vars, trackerVars, countVars
  <2>2. /\ \A x \in Mints \ {target[c]} : mintCounts'[x] = mintCounts[x]
        /\ mintCounts'[target[c]] \in {mintCounts[target[c]], mintCounts[target[c]] + 1}
        /\ mintCounts' \in [Mints -> Nat]
    BY <1>1, <1>2, <1>5 DEF RegisterWatch, AddWatch, registryVars
  <2>3. QED BY <1>2, <2>1, <2>2, CoverGoto
<1>6. CASE TrackMint(c)
  <2>1. /\ UNCHANGED <<mintCounts, target, blind>>
        /\ pc[c] = "track" /\ Goto(c, "finish")
        /\ watcherCounts' = [watcherCounts EXCEPT ![target[c]] = @ + 1]
    BY <1>6 DEF TrackMint, CountUp, registryVars
  <2>2. /\ watcherCounts' \in [Mints -> Nat]
        /\ watcherCounts'[target[c]] = watcherCounts[target[c]] + 1
        /\ \A x \in Mints \ {target[c]} : watcherCounts'[x] = watcherCounts[x]
    BY <1>1, <1>2, <2>1
  <2>3. QED BY <1>2, <2>1, <2>2, CoverGoto
<1>7. CASE UnregisterWatch(c)
  <2>1. /\ UNCHANGED <<watcherCounts, target>>
        /\ pc[c] = "unregister" /\ Goto(c, "check")
        /\ RemoveWatch(UserOf[c], target[c])
        /\ blind \subseteq blind'
        /\ KeyOf(c) \notin watchByUserKey => target[c] \in blind'
    BY <1>7 DEF UnregisterWatch, vars, trackerVars, countVars
  <2>2. /\ mintCounts' \in [Mints -> Nat]
        /\ \A x \in Mints \ {target[c]} : mintCounts'[x] = mintCounts[x]
        /\ KeyOf(c) \in watchByUserKey =>
             mintCounts'[target[c]] = mintCounts[target[c]] - 1
    BY <1>1, <2>1, RemoveWatchConsistent DEF RegistryTypeOK, KeyOf
  <2>3. QED BY <1>2, <2>1, <2>2, CoverGoto
<1>8. CASE CheckWatchers(c)
  <2>1. /\ UNCHANGED <<watcherCounts, mintCounts, target, blind>>
        /\ pc[c] = "check"
    BY <1>8 DEF CheckWatchers, vars, trackerVars, countVars, registryVars
  <2>2. PICK step \in {"finish", "untrack"} : Goto(c, step)
    BY <1>8 DEF CheckWatchers
  <2>3. QED BY <1>2, <2>1, <2>2, CoverGoto
<1>9. CASE UntrackMint(c)
  <2>1. /\ UNCHANGED <<mintCounts, target, blind>>
        /\ pc[c] = "untrack" /\ Goto(c, "finish")
        /\ CountDown(c, target[c])
    BY <1>9 DEF UntrackMint, registryVars
  <2>2. /\ watcherCounts' \in [Mints -> Nat]
        /\ watcherCounts'[target[c]] >= watcherCounts[target[c]] - 1
        /\ \A x \in Mints \ {target[c]} : watcherCounts'[x] = watcherCounts[x]
    BY <1>1, <1>2, <2>1 DEF CountDown
  <2>3. QED BY <1>2, <2>1, <2>2, CoverGoto
<1>10. CASE Respond(c)
  <2>1. /\ UNCHANGED <<watcherCounts, mintCounts, target, blind>>
        /\ pc[c] = "finish" /\ Goto(c, "idle")
    BY <1>10 DEF Respond, vars, trackerVars, countVars, registryVars
  <2>2. QED BY <1>2, <2>1, CoverGoto
<1>11. QED
  BY <1>3, <1>4, <1>5, <1>6, <1>7, <1>8, <1>9, <1>10 DEF RequestStep

(* No step of the tracker's connection, nor a send, changes a count. *)
LEMMA ConnectionKeepsCounts ==
  ASSUME ConnectionStep \/ \E c \in Callers : SendChange(c)
  PROVE  UNCHANGED watcherCounts
BY DEF ConnectionStep, Dial, WriterLists, WriterSubscribesNext, WriterTakesChange,
       WriterFails, ConnectionBreaks, ConsumeReturns, StaleWriterTakesChange,
       StaleWriterEnds, TradeArrives, SendChange, countVars

LEMMA CoverStep ==
  ASSUME WatchInv, CountCoversWatchers, [Next]_watchVars
  PROVE  CountCoversWatchers'
<1>1. CASE SendsChange \/ TrackerStep
  <2>1. UNCHANGED watcherCounts
    BY <1>1, ConnectionKeepsCounts DEF SendsChange, TrackerStep
  <2>2. QED
    BY <1>1, <2>1, CoverSame DEF SendsChange, TrackerStep, registryVars, apiVars
<1>2. ASSUME NEW c \in Clients, NEW m \in Mints, PostWatch(c, m) \/ DeleteWatch(c, m)
      PROVE  CountCoversWatchers'
  BY <1>2, CoverAccept DEF PostWatch, DeleteWatch
<1>3. ASSUME NEW c \in Clients, RequestStep(c)
      PROVE  CountCoversWatchers'
  BY <1>3, CoverRequest
<1>4. CASE UNCHANGED watchVars
  BY <1>4, CoverSame
     DEF watchVars, registryVars, vars, trackerVars, countVars, apiVars
<1>5. QED
  BY <1>1, <1>2, <1>3, <1>4, CoverStartup DEF Next

(* However the handlers interleave, the tracker counts at least the        *)
(* watchers of a mint, until a DELETE comes for a watch that is not there. *)
THEOREM CountsCorrect == Spec => []CountCoversWatchers
<1>1. Init => WatchInv /\ CountCoversWatchers
  BY WatchInit, CoverInit
<1>2. WatchInv /\ CountCoversWatchers /\ [Next]_watchVars
        => (WatchInv /\ CountCoversWatchers)'
  BY WatchStep, CoverStep
<1>3. QED BY <1>1, <1>2, PTL DEF Spec

-----------------------------------------------------------------------------
(* The table: its inductive invariant.                                     *)

AllIdle == \A c \in Clients : pc[c] = "idle"

(* Before the service serves: what is in the registry is what has been     *)
(* loaded of the table.                                                    *)
BeforeServing ==
  /\ phase # "serving" => AllIdle
  /\ phase = "down" => watchByUserKey = {} /\ ~preloaded
  /\ phase = "loading" => toLoad \subseteq store /\ watchByUserKey = store \ toLoad

AgreesOn(k) ==
  /\ k \in watchByUserKey => k \in store
  /\ preloaded /\ k \in store => k \in watchByUserKey

WorksFor(c, k) == pc[c] # "idle" /\ KeyOf(c) = k

Between == {"register", "unregister"}

(* The row and the watch of k differ only while the request for k is       *)
(* between its statement and its call of the registry.                     *)
KeyRight(k) ==
  /\ \A c, d \in Clients : WorksFor(c, k) /\ WorksFor(d, k) => c = d
  /\ \A c \in Clients : KeyOf(c) = k =>
       /\ pc[c] = "register" => k \in store
       /\ pc[c] = "unregister" => k \notin store
  /\ (\A c \in Clients : KeyOf(c) = k => pc[c] \notin Between) => AgreesOn(k)

WhileServing == phase = "serving" => \A k \in Keys \ overlapped : KeyRight(k)

TableInv == BeforeServing /\ WhileServing

(* The tracker during the preload. *)
Announced(m) ==
  \/ m \in dropped
  \/ \E i \in DOMAIN changeReq : changeReq[i] = Subscribe(m)
  \/ Subscribe(m) \in pending[Main]

PreloadInv ==
  phase # "serving" =>
    /\ \A c \in Clients : pending[c] = {}
    /\ \A x, y \in pending[Main] : x = y
    /\ \A m \in Mints : watcherCounts[m] = mintCounts[m]
    /\ \A m \in Mints : watcherCounts[m] > 0 => Announced(m)

-----------------------------------------------------------------------------
(* One request moves on.                                                   *)

(* A request for another key changes nothing for k. *)
LEMMA OtherKeyMoves ==
  ASSUME ApiTypeOK, NEW k, KeyRight(k), NEW c \in Clients, NEW step, Goto(c, step),
         KeyOf(c) # k, UNCHANGED <<target, preloaded>>,
         k \in store' <=> k \in store,
         k \in watchByUserKey' <=> k \in watchByUserKey
  PROVE  KeyRight(k)'
<1>1. \A d \in Clients : KeyOf(d)' = KeyOf(d)
  BY DEF KeyOf
<1>2. \A d \in Clients : KeyOf(d) = k => pc'[d] = pc[d]
  BY DEF Goto, ApiTypeOK
<1>3. \A d \in Clients : WorksFor(d, k)' <=> WorksFor(d, k)
  BY <1>1, <1>2 DEF WorksFor
<1>4. AgreesOn(k)' <=> AgreesOn(k)
  BY DEF AgreesOn
<1>5. QED BY <1>1, <1>2, <1>3, <1>4 DEF KeyRight

(* The only request for k moves on. *)
LEMMA OwnKeyMoves ==
  ASSUME ApiTypeOK, NEW k, KeyRight(k), NEW c \in Clients, NEW step, Goto(c, step),
         KeyOf(c) = k, pc[c] # "idle", UNCHANGED target,
         step = "register" => k \in store',
         step = "unregister" => k \notin store',
         step \notin Between => AgreesOn(k)'
  PROVE  KeyRight(k)'
<1>1. \A d \in Clients : KeyOf(d)' = KeyOf(d)
  BY DEF KeyOf
<1>2. pc'[c] = step /\ \A d \in Clients \ {c} : pc'[d] = pc[d]
  BY DEF Goto, ApiTypeOK
<1>3. \A d \in Clients \ {c} : KeyOf(d) = k => pc[d] = "idle"
  BY DEF KeyRight, WorksFor
<1>4. \A d \in Clients : WorksFor(d, k)' => d = c
  BY <1>1, <1>2, <1>3 DEF WorksFor
<1>5. \A d \in Clients : KeyOf(d)' = k =>
        /\ pc'[d] = "register" => k \in store'
        /\ pc'[d] = "unregister" => k \notin store'
  BY <1>1, <1>2, <1>3
<1>6. (\A d \in Clients : KeyOf(d)' = k => pc'[d] \notin Between) => AgreesOn(k)'
  BY <1>1, <1>2
<1>7. QED BY <1>4, <1>5, <1>6 DEF KeyRight

(* What the request for k finds before its step. *)
LEMMA OwnKeyBefore ==
  ASSUME NEW k, KeyRight(k), NEW c \in Clients, KeyOf(c) = k, pc[c] # "idle"
  PROVE  /\ pc[c] \notin Between => AgreesOn(k)
         /\ pc[c] = "register" => k \in store
         /\ pc[c] = "unregister" => k \notin store
<1>1. \A d \in Clients \ {c} : KeyOf(d) = k => pc[d] = "idle"
  BY DEF KeyRight, WorksFor
<1>2. "idle" \notin Between
  BY DEF Between
<1>3. QED BY <1>1, <1>2 DEF KeyRight

-----------------------------------------------------------------------------
(* The table and the registry.                                             *)

LEMMA TableBegin ==
  ASSUME Init
  PROVE  TableInv
BY DEF Init, NewRegistry, TableInv, BeforeServing, AllIdle, WhileServing

(* With every client idle, a key is right when its row and watch agree. *)
LEMMA IdleKeys ==
  ASSUME AllIdle', NEW k, AgreesOn(k)'
  PROVE  KeyRight(k)'
BY DEF AllIdle, KeyRight, WorksFor

LEMMA TableStartup ==
  ASSUME WatchInv, TableInv,
         ListActiveListeners \/ PreloadListener \/ StartServing \/ Crash
  PROVE  TableInv'
<1> USE DEF TableInv, BeforeServing
<1>1. CASE ListActiveListeners
  <2>1. watchByUserKey' = {} /\ AllIdle' /\ store' = store
    BY <1>1 DEF ListActiveListeners, AllIdle, registryVars
  <2>2. CASE phase' = "loading" /\ toLoad' = store
    BY <2>1, <2>2 DEF WhileServing
  <2>3. CASE phase' = "serving" /\ preloaded' = FALSE
    BY <2>1, <2>3, IdleKeys DEF WhileServing, AgreesOn
  <2>4. QED BY <1>1, <2>2, <2>3 DEF ListActiveListeners
<1>2. CASE PreloadListener
  <2>1. PICK u \in Users, m \in Mints :
          <<u, m>> \in toLoad /\ toLoad' = toLoad \ {<<u, m>>} /\ AddWatch(u, m)
    BY <1>2 DEF PreloadListener
  <2>2. phase = "loading" /\ UNCHANGED <<phase, store, pc>>
    BY <1>2 DEF PreloadListener
  <2>3. watchByUserKey' = watchByUserKey \cup {<<u, m>>}
    BY <2>1 DEF AddWatch, registryVars
  <2>4. toLoad' \subseteq store' /\ watchByUserKey' = store' \ toLoad'
    BY <2>1, <2>2, <2>3
  <2>5. QED BY <2>2, <2>4 DEF AllIdle, WhileServing
<1>3. CASE StartServing
  <2>1. /\ phase' = "serving" /\ AllIdle' /\ watchByUserKey' = store'
    BY <1>3 DEF StartServing, AllIdle, registryVars
  <2>2. QED BY <2>1, IdleKeys DEF WhileServing, AgreesOn
<1>4. CASE Crash
  BY <1>4 DEF Crash, RegistryLost, AllIdle, WhileServing
<1>5. QED BY <1>1, <1>2, <1>3, <1>4

LEMMA TableAccept ==
  ASSUME WatchInv, TableInv, NEW c \in Clients, NEW m \in Mints, NEW step,
         Requests(c, m, step), step \in {"upsert", "delete"}
  PROVE  TableInv'
<1> USE DEF TableInv, WatchInv, TypeOK
<1>1. /\ phase = "serving" /\ pc[c] = "idle"
      /\ pc' = [pc EXCEPT ![c] = step] /\ target' = [target EXCEPT ![c] = m]
      /\ UNCHANGED <<phase, store, preloaded, watchByUserKey>>
      /\ overlapped \subseteq overlapped'
  BY DEF Requests, registryVars
<1>2. ASSUME NEW k \in Keys \ overlapped' PROVE KeyRight(k)'
  <2>1. KeyRight(k)
    BY <1>1, <1>2 DEF WhileServing
  <2>2. \A d \in Clients \ {c} : pc'[d] = pc[d] /\ KeyOf(d)' = KeyOf(d)
    BY <1>1 DEF ApiTypeOK, KeyOf
  <2>3. pc'[c] = step /\ KeyOf(c)' = <<UserOf[c], m>>
    BY <1>1 DEF ApiTypeOK, KeyOf
  <2>4. KeyOf(c)' = k => \A d \in Clients : ~WorksFor(d, k)
    <3>1. <<UserOf[c], m>> = k => ~WorksOn(UserOf[c], m)
      BY <1>2 DEF Requests
    <3>2. QED BY <2>3, <3>1 DEF WorksOn, WorksFor, KeyOf
  <2>5. AgreesOn(k)' <=> AgreesOn(k)
    BY <1>1 DEF AgreesOn
  <2>6. step \notin Between \cup {"idle"} /\ "idle" \notin Between
    BY DEF Between
  <2>7. CASE KeyOf(c)' = k
    <3>1. \A d \in Clients : KeyOf(d) = k => pc[d] \notin Between
      BY <2>4, <2>6, <2>7 DEF WorksFor
    <3>2. AgreesOn(k)'
      BY <2>1, <2>5, <3>1 DEF KeyRight
    <3>3. \A d \in Clients : WorksFor(d, k)' => d = c
      BY <2>2, <2>4, <2>7 DEF WorksFor
    <3>4. \A d \in Clients : KeyOf(d)' = k => pc'[d] \notin Between
      BY <2>2, <2>3, <2>6, <3>1
    <3>5. QED BY <3>2, <3>3, <3>4 DEF KeyRight, Between
  <2>8. CASE KeyOf(c)' # k
    <3>1. \A d \in Clients : WorksFor(d, k)' => WorksFor(d, k)
      BY <2>2, <2>8 DEF WorksFor
    <3>2. \A d \in Clients : KeyOf(d)' = k => KeyOf(d) = k /\ pc'[d] = pc[d]
      BY <2>2, <2>8
    <3>3. (\A d \in Clients : KeyOf(d)' = k => pc'[d] \notin Between)
            => \A d \in Clients : KeyOf(d) = k => pc[d] \notin Between
      BY <1>1, <2>2, <2>6
    <3>4. QED BY <1>1, <2>1, <2>5, <3>1, <3>2, <3>3 DEF KeyRight
  <2>9. QED BY <2>7, <2>8
<1>3. QED BY <1>1, <1>2 DEF BeforeServing, WhileServing

(* One request moves on, and only its own row and watch may change. *)
LEMMA TableGoto ==
  ASSUME WatchInv, TableInv, NEW c \in Clients, NEW step, Goto(c, step),
         pc[c] # "idle", UNCHANGED <<target, preloaded, phase, overlapped>>,
         \A k \in Keys \ {KeyOf(c)} :
           /\ k \in store' <=> k \in store
           /\ k \in watchByUserKey' <=> k \in watchByUserKey,
         KeyRight(KeyOf(c)) =>
           /\ step = "register" => KeyOf(c) \in store'
           /\ step = "unregister" => KeyOf(c) \notin store'
           /\ step \notin Between =>
                /\ KeyOf(c) \in watchByUserKey' => KeyOf(c) \in store'
                /\ preloaded /\ KeyOf(c) \in store' => KeyOf(c) \in watchByUserKey'
  PROVE  TableInv'
<1> USE DEF TableInv, WatchInv, TypeOK
<1>1. phase = "serving"
  BY DEF BeforeServing, AllIdle
<1>2. ASSUME NEW k \in Keys \ overlapped' PROVE KeyRight(k)'
  <2>1. KeyRight(k)
    BY <1>1, <1>2 DEF WhileServing
  <2>2. CASE KeyOf(c) = k
    <3>1. step \notin Between => AgreesOn(k)'
      BY <2>1, <2>2 DEF AgreesOn
    <3>2. QED BY <2>1, <2>2, <3>1, OwnKeyMoves
  <2>3. CASE KeyOf(c) # k
    BY <1>2, <2>1, <2>3, OtherKeyMoves
  <2>4. QED BY <2>2, <2>3
<1>3. QED BY <1>1, <1>2 DEF BeforeServing, WhileServing

LEMMA TableRequest ==
  ASSUME WatchInv, TableInv, NEW c \in Clients, RequestStep(c)
  PROVE  TableInv'
<1> DEFINE k == KeyOf(c)
<1>1. UserOf[c] \in Users /\ target[c] \in Mints /\ k = <<UserOf[c], target[c]>>
  BY RequestTypes DEF WatchInv, TypeOK, KeyOf
<1>2. pc[c] # "idle" => (KeyRight(k) =>
        /\ pc[c] \notin Between => AgreesOn(k)
        /\ pc[c] = "register" => k \in store
        /\ pc[c] = "unregister" => k \notin store)
  BY OwnKeyBefore
<1>3. CASE OpenPage(c)
  BY <1>3 DEF OpenPage, registryVars, TableInv, BeforeServing, AllIdle, WhileServing, KeyRight,
              WorksFor, KeyOf, AgreesOn
<1>4. CASE UpsertListener(c)
  <2>1. PICK step \in {"register", "idle"} :
          /\ Goto(c, step) /\ pc[c] = "upsert"
          /\ UNCHANGED <<target, preloaded, phase, overlapped, watchByUserKey>>
          /\ store' = IF step = "register" THEN store \cup {k} ELSE store
    BY <1>4 DEF UpsertListener, StoreCall, registryVars
  <2>2. QED BY <1>2, <2>1, TableGoto DEF Between, AgreesOn
<1>5. CASE DeleteListener(c)
  <2>1. PICK step \in {"unregister", "idle"} :
          /\ Goto(c, step) /\ pc[c] = "delete"
          /\ UNCHANGED <<target, preloaded, phase, overlapped, watchByUserKey>>
          /\ store' = IF step = "unregister" THEN store \ {k} ELSE store
    BY <1>5 DEF DeleteListener, StoreCall, registryVars
  <2>2. QED BY <1>2, <2>1, TableGoto DEF Between, AgreesOn
<1>6. CASE RegisterWatch(c)
  <2>1. /\ Goto(c, "track") /\ pc[c] = "register"
        /\ UNCHANGED <<target, preloaded, phase, overlapped, store>>
        /\ watchByUserKey' = watchByUserKey \cup {k}
    BY <1>1, <1>6 DEF RegisterWatch, AddWatch, registryVars
  <2>2. QED BY <1>2, <2>1, TableGoto DEF Between
<1>7. CASE UnregisterWatch(c)
  <2>1. /\ Goto(c, "check") /\ pc[c] = "unregister"
        /\ UNCHANGED <<target, preloaded, phase, overlapped, store>>
        /\ watchByUserKey' = watchByUserKey \ {k}
    BY <1>1, <1>7 DEF UnregisterWatch, RemoveWatch, registryVars
  <2>2. QED BY <1>2, <2>1, TableGoto DEF Between
<1>8. CASE TrackMint(c) \/ CheckWatchers(c) \/ UntrackMint(c) \/ Respond(c)
  <2>1. PICK step \in {"finish", "untrack", "idle"} :
          /\ Goto(c, step) /\ pc[c] \in {"track", "check", "untrack", "finish"}
          /\ UNCHANGED <<target, preloaded, phase, overlapped, store, watchByUserKey>>
    BY <1>8 DEF TrackMint, CheckWatchers, UntrackMint, Respond, registryVars
  <2>2. QED BY <1>2, <2>1, TableGoto DEF Between, AgreesOn
<1>9. QED BY <1>3, <1>4, <1>5, <1>6, <1>7, <1>8 DEF RequestStep

LEMMA TableStep ==
  ASSUME WatchInv, TableInv, [Next]_watchVars
  PROVE  TableInv'
<1>1. ASSUME UNCHANGED <<registryVars, apiVars>> PROVE TableInv'
  BY <1>1 DEF registryVars, apiVars, TableInv, BeforeServing, AllIdle, WhileServing, KeyRight,
              WorksFor, KeyOf, AgreesOn
<1>2. CASE SendsChange \/ TrackerStep
  BY <1>1, <1>2 DEF SendsChange, TrackerStep
<1>3. ASSUME NEW c \in Clients, NEW m \in Mints, PostWatch(c, m) \/ DeleteWatch(c, m)
      PROVE  TableInv'
  BY <1>3, TableAccept DEF PostWatch, DeleteWatch
<1>4. ASSUME NEW c \in Clients, RequestStep(c)
      PROVE  TableInv'
  BY <1>4, TableRequest
<1>5. CASE UNCHANGED watchVars
  BY <1>1, <1>5 DEF watchVars
<1>6. QED
  BY <1>2, <1>3, <1>4, <1>5, TableStartup DEF Next

LEMMA TableInductive == Spec => [](WatchInv /\ TableInv)
<1>1. Init => WatchInv /\ TableInv
  BY WatchInit, TableBegin
<1>2. WatchInv /\ TableInv /\ [Next]_watchVars => (WatchInv /\ TableInv)'
  BY WatchStep, TableStep
<1>3. QED BY <1>1, <1>2, PTL DEF Spec

(***************************************************************************)
(* Between requests a watch has its row, and after a preload a row has its *)
(* watch, for every user and mint whose requests did not overlap, whatever *)
(* statements fail and wherever the process crashes (main.go:473-515).     *)
(***************************************************************************)
THEOREM StoreCorrect == Spec => []StoreAgrees
<1>1. WatchInv /\ TableInv => StoreAgrees
  <2> SUFFICES ASSUME TableInv, phase = "serving", NEW k \in Keys \ overlapped, ~InFlightOn(k)
               PROVE  AgreesOn(k)
    BY DEF StoreAgrees, AgreesOn
  <2>1. KeyRight(k)
    BY DEF TableInv, WhileServing
  <2>2. \A c \in Clients : KeyOf(c) = k => pc[c] \notin Between
    BY DEF InFlightOn, Between
  <2>3. QED BY <2>1, <2>2 DEF KeyRight
<1>2. QED BY <1>1, TableInductive, PTL

-----------------------------------------------------------------------------
(* The preload.                                                            *)

LEMMA PreloadBegin ==
  ASSUME Init
  PROVE  PreloadInv
BY MainCaller DEF Init, NewRegistry, NewTradeTracker, PreloadInv, Clients

LEMMA PreloadSame ==
  ASSUME PreloadInv, UNCHANGED <<registryVars, vars, phase>>
  PROVE  PreloadInv'
BY DEF PreloadInv, Announced, registryVars, vars, trackerVars, countVars

(* A listed row is a watch the registry does not have yet. *)
LEMMA PreloadAdds ==
  ASSUME WatchInv, TableInv, PreloadInv, PreloadListener
  PROVE  PreloadInv'
<1> USE DEF WatchInv, TypeOK
<1>1. PICK u \in Users, m \in Mints :
        <<u, m>> \in toLoad /\ AddWatch(u, m) /\ CountUp(Main, m)
  BY DEF PreloadListener
<1>2. phase = "loading" /\ pending[Main] = {} /\ <<u, m>> \notin watchByUserKey
  BY <1>1 DEF PreloadListener, TableInv, BeforeServing
<1>3. /\ mintCounts' = [mintCounts EXCEPT ![m] = @ + 1]
      /\ watcherCounts' = [watcherCounts EXCEPT ![m] = @ + 1]
      /\ pending' = [pending EXCEPT
                       ![Main] = IF watcherCounts'[m] > 1 THEN {} ELSE {Subscribe(m)}]
      /\ UNCHANGED <<changeReq, dropped>>
  BY <1>1, <1>2 DEF AddWatch, CountUp
<1>4. /\ mintCounts \in [Mints -> Nat] /\ watcherCounts \in [Mints -> Nat]
      /\ pending \in [Callers -> SUBSET Change]
  BY DEF RegistryTypeOK, TrackerTypeOK
<1>5. \A c \in Clients : pending'[c] = {}
  BY <1>2, <1>3, <1>4 DEF PreloadInv, Clients
<1>6. pending'[Main] = IF watcherCounts'[m] > 1 THEN {} ELSE {Subscribe(m)}
  BY <1>3, <1>4, MainCaller
<1>7. \A x \in Mints : watcherCounts'[x] = mintCounts'[x]
  BY <1>2, <1>3, <1>4 DEF PreloadInv
<1>8. ASSUME NEW x \in Mints, watcherCounts'[x] > 0 PROVE Announced(x)'
  <2>1. CASE watcherCounts[x] > 0
    BY <1>2, <1>3, <2>1 DEF PreloadInv, Announced
  <2>2. CASE ~(watcherCounts[x] > 0)
    <3>1. x = m /\ watcherCounts'[m] = 1
      BY <1>3, <1>4, <1>8, <2>2
    <3>2. QED BY <1>6, <3>1 DEF Announced
  <2>3. QED BY <2>1, <2>2
<1>9. QED BY <1>5, <1>6, <1>7, <1>8 DEF PreloadInv

(* The send after the unlock: the change is queued or dropped. *)
LEMMA PreloadSends ==
  ASSUME WatchInv, PreloadInv, SendsChange
  PROVE  PreloadInv'
<1> USE DEF WatchInv, TypeOK
<1> SUFFICES ASSUME phase # "serving" PROVE PreloadInv'
  BY DEF SendsChange, apiVars, PreloadInv
<1>1. PICK c \in Callers : SendChange(c)
  BY DEF SendsChange
<1>2. PICK ch \in pending[c] :
        /\ pending' = [pending EXCEPT ![c] = {}]
        /\ \/ changeReq' = Append(changeReq, ch) /\ dropped' = dropped
           \/ changeReq' = changeReq /\ dropped' = dropped \cup {ch.mint}
        /\ watcherCounts' = watcherCounts
  BY <1>1 DEF SendChange
<1>3. c = Main
  BY <1>2 DEF PreloadInv, Clients
<1>4. /\ changeReq \in Seq(Change) /\ pending \in [Callers -> SUBSET Change]
  BY DEF TrackerTypeOK
<1>5. pending'[Main] = {} /\ \A d \in Clients : pending'[d] = {}
  BY <1>2, <1>3, <1>4, MainCaller DEF PreloadInv, Clients
<1>6. ASSUME NEW x \in Mints, Announced(x) PROVE Announced(x)'
  <2>1. CASE x \in dropped
    BY <1>2, <2>1 DEF Announced
  <2>2. ASSUME NEW i \in DOMAIN changeReq, changeReq[i] = Subscribe(x)
        PROVE  Announced(x)'
    <3>1. i \in DOMAIN changeReq' /\ changeReq'[i] = changeReq[i]
      BY <1>2, <1>4, <2>2
    <3>2. QED BY <2>2, <3>1 DEF Announced
  <2>3. CASE Subscribe(x) \in pending[Main]
    <3>1. ch = Subscribe(x) /\ ch.mint = x
      BY <1>2, <1>3, <2>3 DEF PreloadInv, Subscribe
    <3>2. CASE changeReq' = Append(changeReq, ch)
      <4>1. /\ Len(changeReq) + 1 \in DOMAIN changeReq'
            /\ changeReq'[Len(changeReq) + 1] = ch
        BY <1>2, <1>4, <3>2
      <4>2. QED BY <3>1, <4>1 DEF Announced
    <3>3. CASE dropped' = dropped \cup {ch.mint}
      BY <3>1, <3>3 DEF Announced
    <3>4. QED BY <1>2, <3>2, <3>3
  <2>4. QED BY <1>6, <2>1, <2>2, <2>3 DEF Announced
<1>7. UNCHANGED <<phase, mintCounts>>
  BY DEF SendsChange, registryVars, apiVars
<1>8. QED BY <1>2, <1>5, <1>6, <1>7 DEF PreloadInv

LEMMA PreloadStep ==
  ASSUME WatchInv, TableInv, PreloadInv, [Next]_watchVars
  PROVE  PreloadInv'
<1>1. ASSUME phase' = "serving" PROVE PreloadInv'
  BY <1>1 DEF PreloadInv
<1>2. CASE ListActiveListeners
  BY <1>2 DEF ListActiveListeners, PreloadInv, Announced, registryVars, vars, trackerVars,
              countVars, TableInv, BeforeServing
<1>3. CASE PreloadListener
  BY <1>3, PreloadAdds
<1>4. CASE StartServing
  BY <1>1, <1>4 DEF StartServing
<1>5. CASE Crash
  BY <1>5, MainCaller DEF Crash, RegistryLost, TrackerLost, PreloadInv, Clients
<1>6. ASSUME NEW c \in Clients, NEW m \in Mints, PostWatch(c, m) \/ DeleteWatch(c, m)
      PROVE  PreloadInv'
  BY <1>1, <1>6 DEF PostWatch, DeleteWatch, Requests
<1>7. ASSUME NEW c \in Clients, RequestStep(c) PROVE PreloadInv'
  <2>1. phase = "serving"
    <3>1. OpenPage(c) \/ pc[c] # "idle"
      BY <1>7 DEF RequestStep, UpsertListener, DeleteListener, StoreCall, RegisterWatch, TrackMint,
                  UnregisterWatch, CheckWatchers, UntrackMint, Respond
    <3>2. QED BY <3>1 DEF OpenPage, TableInv, BeforeServing, AllIdle
  <2>2. phase' = phase
    BY <1>7 DEF RequestStep, UpsertListener, DeleteListener, StoreCall, RegisterWatch, TrackMint,
                UnregisterWatch, CheckWatchers, UntrackMint, Respond, OpenPage
  <2>3. QED BY <1>1, <2>1, <2>2
<1>8. CASE SendsChange
  BY <1>8, PreloadSends
<1>9. CASE TrackerStep
  BY <1>1, <1>9 DEF TrackerStep, apiVars
<1>10. CASE UNCHANGED watchVars
  BY <1>10, PreloadSame DEF watchVars, apiVars
<1>11. QED
  BY <1>2, <1>3, <1>4, <1>5, <1>6, <1>7, <1>8, <1>9, <1>10 DEF Next

(***************************************************************************)
(* A restart whose listing succeeds serves with the registry equal to the  *)
(* table, each mint counted once per watcher and its subscription queued   *)
(* or dropped for want of room, whatever was under way when the process    *)
(* crashed (main.go:90-97).                                                *)
(***************************************************************************)
THEOREM RestartCorrect == Spec => RestartRecovers
<1> DEFINE Recovered ==
      /\ watchByUserKey = store
      /\ \A m \in Mints :
           /\ watcherCounts[m] = Cardinality({u \in Users : <<u, m>> \in store})
           /\ watcherCounts[m] > 0 =>
                \/ m \in dropped
                \/ \E i \in DOMAIN changeReq : changeReq[i] = Subscribe(m)
    All == WatchInv /\ TableInv /\ PreloadInv
<1>1. Init => All
  BY WatchInit, TableBegin, PreloadBegin
<1>2. All /\ [Next]_watchVars => All'
  BY WatchStep, TableStep, PreloadStep
<1>3. All /\ [Next]_watchVars => [phase = "loading" /\ phase' = "serving" => Recovered]_watchVars
  <2> SUFFICES ASSUME All, Next, phase = "loading", phase' = "serving" PROVE Recovered
    OBVIOUS
  <2>1. StartServing
    BY DEF Next, ListActiveListeners, PreloadListener, Crash, PostWatch, DeleteWatch, Requests,
           RequestStep, UpsertListener, DeleteListener, StoreCall, RegisterWatch, TrackMint,
           UnregisterWatch, CheckWatchers, UntrackMint, Respond, OpenPage, SendsChange,
           TrackerStep, apiVars
  <2>2. watchByUserKey = store
    BY <2>1 DEF StartServing, TableInv, BeforeServing
  <2>3. ASSUME NEW m \in Mints
        PROVE  watcherCounts[m] = Cardinality({u \in Users : <<u, m>> \in store})
    <3>1. mintCounts[m] = Cardinality({u \in Users : <<u, m>> \in watchByUserKey})
      BY DEF WatchInv, RegistryConsistent
    <3>2. QED BY <2>2, <3>1 DEF PreloadInv
  <2>4. ASSUME NEW m \in Mints, watcherCounts[m] > 0
        PROVE  m \in dropped \/ \E i \in DOMAIN changeReq : changeReq[i] = Subscribe(m)
    BY <2>1, <2>4 DEF StartServing, PreloadInv, Announced
  <2>5. QED BY <2>2, <2>3, <2>4
<1>4. QED BY <1>1, <1>2, <1>3, PTL DEF Spec, RestartRecovers

=============================================================================
