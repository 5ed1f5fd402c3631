------------------------------ MODULE WatchApi ------------------------------
(***************************************************************************)
(* The life of a watch, from the browser to the upstream subscription:     *)
(* the POST and DELETE handlers of /api/v1/listeners/watch and the preload *)
(* at start-up (cmd/api/main.go), over the listeners table of              *)
(* internal/store/sqlite.go, the Registry and the TradeTracker.            *)
(*                                                                         *)
(* Handlers run concurrently, one goroutine per request, and each call     *)
(* they make is a step of its own: nothing makes a handler atomic.  A      *)
(* client is a browser tab with one request outstanding: it offers Unpin   *)
(* only for the mints of its last listing (web/src/app/App.tsx:1157) and   *)
(* asks for a new listing after a successful request.  Two clients of one  *)
(* user are two tabs, or two clicks on a button that is not disabled while *)
(* its request runs.                                                       *)
(*                                                                         *)
(* Left out: the id and metadata columns of a listener, the RPC endpoint a *)
(* reply names, and requests refused before they reach the store.          *)
(***************************************************************************)
EXTENDS Registry, TradeTracker

CONSTANTS Main,         \* the goroutine of main, the caller during preload
          UserOf,       \* the user of each client
          MaxCrashes    \* bound on the number of crashes

Clients == Callers \ {Main}

ASSUME ClientsFinite == IsFiniteSet(Callers)
ASSUME MainCaller == Main \in Callers
ASSUME UserOfClients == UserOf \in [Clients -> Users]
ASSUME MaxCrashesNat == MaxCrashes \in Nat

VARIABLES phase,        \* of the process: "down", "loading" or "serving"
          store,        \* rows (user, mint) of the listeners table
          toLoad,       \* listed rows the preload has yet to add
          preloaded,    \* the listing at start-up succeeded
          pc,           \* next call of each client's request, "idle" if none
          target,       \* mint of each client's latest request
          view,         \* mints each client shows as pinned
          blind,        \* mints some DELETE hit with no watch of its own
          overlapped,   \* keys two requests were working on at once
          crashes

apiVars == <<phase, store, toLoad, preloaded, pc, target, view, blind,
             overlapped, crashes>>
watchVars == <<registryVars, vars, apiVars>>

PostSteps == {"upsert", "register", "track"}
DeleteSteps == {"delete", "unregister", "check", "untrack"}

ApiTypeOK ==
  /\ phase \in {"down", "loading", "serving"}
  /\ store \in SUBSET Keys
  /\ toLoad \in SUBSET Keys
  /\ preloaded \in BOOLEAN
  /\ pc \in [Clients -> {"idle", "finish"} \cup PostSteps \cup DeleteSteps]
  /\ target \in [Clients -> Mints]
  /\ view \in [Clients -> SUBSET Mints]
  /\ blind \in SUBSET Mints
  /\ overlapped \in SUBSET Keys
  /\ crashes \in 0..MaxCrashes

TypeOK == RegistryTypeOK /\ TrackerTypeOK /\ ApiTypeOK

KeyOf(c) == <<UserOf[c], target[c]>>

(* The process is not running yet; the table may hold any rows. *)
Init ==
  /\ NewRegistry
  /\ NewTradeTracker
  /\ phase = "down"
  /\ store \in SUBSET Keys
  /\ toLoad = {}
  /\ preloaded = FALSE
  /\ pc = [c \in Clients |-> "idle"]
  /\ blind = {}
  /\ overlapped = {}
  /\ target \in [Clients -> Mints]
  /\ view = [c \in Clients |-> {}]
  /\ calls = 0
  /\ breaks = 0
  /\ crashes = 0

-----------------------------------------------------------------------------
(* Start-up and crash.                                                     *)

(* ListActiveListeners; when it fails, main only warns and goes on with an *)
(* empty registry.                                                         *)
ListActiveListeners ==
  /\ phase = "down"
  /\ \/ phase' = "loading" /\ toLoad' = store /\ preloaded' = TRUE
     \/ phase' = "serving" /\ toLoad' = {} /\ preloaded' = FALSE
  /\ UNCHANGED <<registryVars, vars, store, pc, target, view, blind,
                 overlapped, crashes>>

(* A faulty preload that leaves the tracker out. *)
PreloadRegistryOnly ==
  /\ phase = "loading"
  /\ \E u \in Users, m \in Mints :
       /\ <<u, m>> \in toLoad
       /\ toLoad' = toLoad \ {<<u, m>>}
       /\ AddWatch(u, m)
  /\ UNCHANGED <<vars, phase, store, preloaded, pc, target, view, blind,
                 overlapped, crashes>>

PreloadListener ==
  /\ phase = "loading"
  /\ pending[Main] = {}
  /\ \E u \in Users, m \in Mints :
       /\ <<u, m>> \in toLoad
       /\ toLoad' = toLoad \ {<<u, m>>}
       /\ AddWatch(u, m)
       /\ CountUp(Main, m)
  /\ UNCHANGED <<connVars, calls, phase, store, preloaded, pc, target, view,
                 blind, overlapped, crashes>>

(* The preload is over: the tracker's Connect and the API start. *)
StartServing ==
  /\ phase = "loading"
  /\ toLoad = {}
  /\ pending[Main] = {}
  /\ phase' = "serving"
  /\ UNCHANGED <<registryVars, vars, store, toLoad, preloaded, pc, target,
                 view, blind, overlapped, crashes>>

(* What the process held in memory is gone: a new process starts from      *)
(* NewRegistry and NewTradeTracker.                                        *)
RegistryLost ==
  /\ watchByUserKey' = {}
  /\ mintCounts' = [m \in Mints |-> 0]
  /\ mintUsers' = [m \in Mints |-> {}]

TrackerLost ==
  /\ watcherCounts' = [m \in Mints |-> 0]
  /\ metrics' = {}
  /\ changeReq' = <<>>
  /\ pending' = [c \in Callers |-> {}]
  /\ conn' = "down"
  /\ writer' = "none"
  /\ toList' = {}
  /\ stale' = FALSE
  /\ upstream' = {}
  /\ dropped' = {}

(* The process dies between any two steps.  The table stays; a browser     *)
(* keeps its last listing and sees its request fail.                       *)
Crash ==
  /\ phase # "down"
  /\ crashes < MaxCrashes
  /\ crashes' = crashes + 1
  /\ phase' = "down"
  /\ RegistryLost
  /\ TrackerLost
  /\ toLoad' = {}
  /\ preloaded' = FALSE
  /\ pc' = [c \in Clients |-> "idle"]
  /\ blind' = {}
  /\ overlapped' = {}
  /\ UNCHANGED <<store, target, view, calls, breaks>>

-----------------------------------------------------------------------------
(* The requests of a client.                                               *)

(* fetchMyListeners: the rows of the client's user. *)
Listing(c) == {m \in Mints : <<UserOf[c], m>> \in store}

OpenPage(c) ==
  /\ phase = "serving"
  /\ pc[c] = "idle"
  /\ view' = [view EXCEPT ![c] = Listing(c)]
  /\ UNCHANGED <<registryVars, vars, phase, store, toLoad, preloaded, pc,
                 target, blind, overlapped, crashes>>

WorksOn(u, m) ==
  \E d \in Clients : pc[d] # "idle" /\ UserOf[d] = u /\ target[d] = m

Requests(c, m, step) ==
  /\ phase = "serving"
  /\ calls < MaxCalls
  /\ pc[c] = "idle"
  /\ calls' = calls + 1
  /\ pc' = [pc EXCEPT ![c] = step]
  /\ target' = [target EXCEPT ![c] = m]
  /\ overlapped' = overlapped \cup
       {k \in {<<UserOf[c], m>>} : WorksOn(UserOf[c], m)}
  /\ UNCHANGED <<registryVars, trackerVars, phase, store, toLoad, preloaded,
                 view, blind, crashes>>

PostWatch(c, m) == Requests(c, m, "upsert")

DeleteWatch(c, m) == m \in view[c] /\ Requests(c, m, "delete")

Goto(c, step) == pc' = [pc EXCEPT ![c] = step]

(* A faulty handler that goes on after a failed statement. *)
StoreCallIgnoresErrors(c, here, there, rows) ==
  /\ pc[c] = here
  /\ store' \in {store, rows}
  /\ Goto(c, there)
  /\ UNCHANGED <<registryVars, vars, phase, toLoad, preloaded, target, view,
                 blind, overlapped, crashes>>

(* A statement on the table runs, or fails and the handler answers 500. *)
StoreCall(c, here, there, rows) ==
  /\ pc[c] = here
  /\ \/ store' = rows /\ Goto(c, there)
     \/ store' = store /\ Goto(c, "idle")
  /\ UNCHANGED <<registryVars, vars, phase, toLoad, preloaded, target, view,
                 blind, overlapped, crashes>>

UpsertListener(c) ==
  StoreCall(c, "upsert", "register", store \cup {KeyOf(c)})

DeleteListener(c) ==
  StoreCall(c, "delete", "unregister", store \ {KeyOf(c)})

(* A faulty handler that tracks only what nobody watched before. *)
RegisterTracksFirst(c) ==
  /\ pc[c] = "register"
  /\ Goto(c, IF HasWatchers(target[c]) THEN "finish" ELSE "track")
  /\ AddWatch(UserOf[c], target[c])
  /\ UNCHANGED <<vars, phase, store, toLoad, preloaded, target, view, blind,
                 overlapped, crashes>>

RegisterWatch(c) ==
  /\ pc[c] = "register"
  /\ Goto(c, "track")
  /\ AddWatch(UserOf[c], target[c])
  /\ UNCHANGED <<vars, phase, store, toLoad, preloaded, target, view, blind,
                 overlapped, crashes>>

TrackMint(c) ==
  /\ pc[c] = "track"
  /\ Goto(c, "finish")
  /\ CountUp(c, target[c])
  /\ UNCHANGED <<registryVars, connVars, calls, phase, store, toLoad,
                 preloaded, target, view, blind, overlapped, crashes>>

UnregisterWatch(c) ==
  /\ pc[c] = "unregister"
  /\ Goto(c, "check")
  /\ RemoveWatch(UserOf[c], target[c])
  /\ blind' = blind \cup {m \in {target[c]} : KeyOf(c) \notin watchByUserKey}
  /\ UNCHANGED <<vars, phase, store, toLoad, preloaded, target, view,
                 overlapped, crashes>>

CheckWatchers(c) ==
  /\ pc[c] = "check"
  /\ Goto(c, IF HasWatchers(target[c]) THEN "finish" ELSE "untrack")
  /\ UNCHANGED <<registryVars, vars, phase, store, toLoad, preloaded, target,
                 view, blind, overlapped, crashes>>

UntrackMint(c) ==
  /\ pc[c] = "untrack"
  /\ Goto(c, "finish")
  /\ CountDown(c, target[c])
  /\ UNCHANGED <<registryVars, connVars, calls, phase, store, toLoad,
                 preloaded, target, view, blind, overlapped, crashes>>

(* The handler answers; the page fetches its listing again, or fails to. *)
Respond(c) ==
  /\ pc[c] = "finish"
  /\ pending[c] = {}
  /\ Goto(c, "idle")
  /\ view' \in {view, [view EXCEPT ![c] = Listing(c)]}
  /\ UNCHANGED <<registryVars, vars, phase, store, toLoad, preloaded, target,
                 blind, overlapped, crashes>>

RequestStep(c) ==
  \/ UpsertListener(c) \/ RegisterWatch(c) \/ TrackMint(c)
  \/ DeleteListener(c) \/ UnregisterWatch(c) \/ CheckWatchers(c)
  \/ UntrackMint(c) \/ Respond(c) \/ OpenPage(c)

(* The second half of AddWatch and RemoveWatch, for every caller. *)
SendsChange ==
  /\ \E c \in Callers : SendChange(c)
  /\ UNCHANGED <<registryVars, calls, apiVars>>

TrackerStep ==
  /\ phase = "serving"
  /\ ConnectionStep
  /\ UNCHANGED <<registryVars, calls, apiVars>>

Next ==
  \/ ListActiveListeners \/ PreloadListener \/ StartServing \/ Crash
  \/ \E c \in Clients, m \in Mints : PostWatch(c, m) \/ DeleteWatch(c, m)
  \/ \E c \in Clients : RequestStep(c)
  \/ SendsChange
  \/ TrackerStep

Spec == Init /\ [][Next]_watchVars

-----------------------------------------------------------------------------
(* Properties.                                                             *)

At(steps, m) == {c \in Clients : pc[c] \in steps /\ target[c] = m}

InFlightOn(k) == \E c \in Clients : pc[c] # "idle" /\ KeyOf(c) = k

(***************************************************************************)
(* A watch the registry routes by is a row of the table, so a restart      *)
(* keeps it, and a row is in the registry if the preload worked: for every *)
(* user and mint no request is working on, unless two requests for it have *)
(* overlapped.  The handlers write the table first and the registry later  *)
(* (main.go:473-477, 510-513), and either may fail in between.             *)
(***************************************************************************)
StoreAgrees ==
  phase = "serving" =>
    \A k \in Keys \ overlapped :
      ~InFlightOn(k) =>
        /\ k \in watchByUserKey => k \in store
        /\ preloaded /\ k \in store => k \in watchByUserKey

(***************************************************************************)
(* The tracker counts at least the watchers of a mint, give or take the    *)
(* requests between their registry call and their tracker call, as long as *)
(* no DELETE for the mint came without a watch of its own: then no         *)
(* interleaving of handlers can untrack a mint somebody watches            *)
(* (main.go:477-478, 513-515).                                             *)
(***************************************************************************)
CountCoversWatchers ==
  \A m \in Mints \ blind :
    watcherCounts[m] + Cardinality(At({"track"}, m))
      >= mintCounts[m] + Cardinality(At({"check", "untrack"}, m))

(***************************************************************************)
(* When the process starts to serve after a successful preload, the        *)
(* registry is the table again, every watched mint is tracked once per     *)
(* watcher, and its subscription is queued or was dropped for want of room *)
(* (main.go:90-97), whatever the crash interrupted.                        *)
(***************************************************************************)
RestartRecovers ==
  [][phase = "loading" /\ phase' = "serving" =>
       /\ watchByUserKey = store
       /\ \A m \in Mints :
            /\ watcherCounts[m] = Cardinality({u \in Users : <<u, m>> \in store})
            /\ watcherCounts[m] > 0 =>
                 \/ m \in dropped
                 \/ \E i \in DOMAIN changeReq : changeReq[i] = Subscribe(m)]_watchVars

(* Nothing is under way: no request, no change, a connection that works. *)
Quiet ==
  /\ phase = "serving"
  /\ \A c \in Clients : pc[c] = "idle"
  /\ \A c \in Callers : pending[c] = {}
  /\ conn = "up" /\ writer = "loop" /\ changeReq = <<>>

(***************************************************************************)
(* Memory.md:1221: "When the last user unpins the mint, the service        *)
(* unsubscribes from PumpPortal token-trade for that mint."  The tracker   *)
(* counts every POST, but a DELETE decrements only when it leaves the      *)
(* registry without watchers (main.go:478, 514).                           *)
(***************************************************************************)
LastUnpinUnsubscribes ==
  Quiet => \A m \in Mints \ dropped : ~HasWatchers(m) => m \notin upstream

(***************************************************************************)
(* Memory.md:1212: "`POST /api/v1/listeners/watch` -> add watcher and      *)
(* subscribe first watcher".  The change is sent after the count is        *)
(* unlocked (trade_tracker.go:78-84, 109-116), so a subscribe and an       *)
(* unsubscribe of one mint can enter the channel in the wrong order.       *)
(***************************************************************************)
WatchedIsSubscribed ==
  Quiet => \A m \in Mints \ (dropped \cup blind) : HasWatchers(m) => m \in upstream

=============================================================================
