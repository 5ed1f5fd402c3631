---------------------------- MODULE SpikeRouting ----------------------------
(***************************************************************************)
(* One detected spike on its way to people: the onSpike function of        *)
(* cmd/api/main.go over the watch registry, the websocket hub and the      *)
(* dashboards' live sockets, while users pin and unpin the mint, pages     *)
(* come, go and reconnect, and sessions end.                               *)
(*                                                                         *)
(* onSpike reads the registry three times and the hub's indexes once per   *)
(* user, and holds no lock in between: every call is a step of its own.    *)
(* The goroutine of the other source may be routing a spike as well; what  *)
(* it changes, the token buckets, OtherMessage changes.  The label the     *)
(* tier manager gives the payload is left out, and so are the returns when *)
(* a payload cannot be marshalled (main.go:136, 163): its values are       *)
(* strings, times and finite numbers, which always can.                    *)
(***************************************************************************)
EXTENDS Registry, Hub, LiveSocket

CONSTANTS UserOf,    \* the user of each page, NoUser without initData
          NoClient

ASSUME RoutingAssumption ==
  /\ UserOf \in [Pages -> Users \cup {NoUser}]
  /\ Conns = Clients
  /\ NoClient \notin Clients

VARIABLES phase,        \* where onSpike is
          spike,        \* the mint of its spike
          hasListener,  \* what its first read of the registry returned
          usersLeft,    \* users of the current loop still to come
          idsLeft,      \* ids of the current user still to come
          target        \* the client looked up, or NoClient

VARIABLES always,       \* users watching ever since the spike (history)
          ever,         \* users watching at some time since then (history)
          stayed,       \* clients registered ever since then (history)
          told,         \* personal messages taken by each queue (history)
          texted,       \* Telegram messages to each user (history)
          textedDefault \* Telegram messages to the default chat (history)

routeVars == <<phase, spike, hasListener, usersLeft, idsLeft, target>>
watchHistory == <<always, ever>>
sentHistory == <<told, texted, textedDefault>>
historyVars == <<watchHistory, stayed, sentHistory>>
vars == <<registryVars, hubVars, socketVars, routeVars, historyVars>>

RoutingTypeOK ==
  /\ RegistryTypeOK /\ HubTypeOK /\ LiveSocketTypeOK
  /\ phase \in {"idle", "broadcast", "users", "send", "again", "text",
                "textDefault", "return"}
  /\ spike \in Mints
  /\ hasListener \in BOOLEAN
  /\ usersLeft \in SUBSET Users
  /\ idsLeft \in SUBSET Clients
  /\ target \in Clients \cup {NoClient}
  /\ always \in SUBSET Users
  /\ ever \in SUBSET Users
  /\ stayed \in SUBSET Clients
  /\ told \in [Clients -> Nat]
  /\ texted \in [Users -> Nat]
  /\ textedDefault \in Nat

NothingSent ==
  /\ told' = [c \in Clients |-> 0]
  /\ texted' = [u \in Users |-> 0]
  /\ textedDefault' = 0

Init ==
  /\ NewRegistry /\ NewHub /\ NoPages
  /\ phase = "idle"
  /\ spike \in Mints
  /\ hasListener = FALSE
  /\ usersLeft = {}
  /\ idsLeft = {}
  /\ target = NoClient
  /\ always = {} /\ ever = {} /\ stayed = {}
  /\ told = [c \in Clients |-> 0]
  /\ texted = [u \in Users |-> 0]
  /\ textedDefault = 0

-----------------------------------------------------------------------------
(* The steps of onSpike.                                                   *)

Routes == UNCHANGED <<registryVars, socketVars, watchHistory, stayed>>

(* A spike of m is detected: onSpike asks whether anyone watches. *)
Spike(m) ==
  /\ phase = "idle"
  /\ phase' = "broadcast"
  /\ spike' = m
  /\ hasListener' = HasWatchers(m)
  /\ always' = UsersForMint(m)
  /\ ever' = UsersForMint(m)
  /\ stayed' = clients
  /\ UNCHANGED <<registryVars, hubVars, socketVars, usersLeft, idsLeft, target,
                 sentHistory>>

BroadcastSpike ==
  /\ phase = "broadcast"
  /\ phase' = IF hasListener THEN "users" ELSE "textDefault"
  /\ Broadcast
  /\ Routes
  /\ UNCHANGED <<spike, hasListener, usersLeft, idsLeft, target, sentHistory>>

ReadUsers(before, after) ==
  /\ phase = before
  /\ phase' = after
  /\ usersLeft' = UsersForMint(spike)
  /\ Routes
  /\ UNCHANGED <<hubVars, spike, hasListener, idsLeft, target, sentHistory>>

UsersToTell == ReadUsers("users", "send")

(* EnqueueForUser copies the user's ids and releases the lock. *)
NextUser(u) ==
  /\ phase = "send" /\ idsLeft = {} /\ target = NoClient
  /\ u \in usersLeft
  /\ usersLeft' = usersLeft \ {u}
  /\ idsLeft' = userClients[u]
  /\ Routes
  /\ UNCHANGED <<hubVars, phase, spike, hasListener, target, sentHistory>>

(* EnqueueForClient looks the id up; one that is gone is passed over. *)
NextClient(c) ==
  /\ phase = "send" /\ target = NoClient
  /\ c \in idsLeft
  /\ idsLeft' = idsLeft \ {c}
  /\ target' = IF c \in clients THEN c ELSE NoClient
  /\ Routes
  /\ UNCHANGED <<hubVars, phase, spike, hasListener, usersLeft, sentHistory>>

(* A faulty send that gives a client over its limit nothing. *)
SendsWithinLimit ==
  /\ phase = "send" /\ target # NoClient
  /\ tokens' = [tokens EXCEPT ![target] = Spent(@)]
  /\ told' = IF AllowSend(target) /\ target \in openQueues
             THEN [told EXCEPT ![target] = @ + 1] ELSE told
  /\ target' = NoClient
  /\ Routes
  /\ UNCHANGED <<indexVars, phase, spike, hasListener, usersLeft, idsLeft,
                 texted, textedDefault>>

(* Enqueue within the limit, RetryP1 over it: the queue takes the message  *)
(* either way, unless it has been closed since the lookup.                 *)
SendsPersonal ==
  /\ phase = "send" /\ target # NoClient
  /\ tokens' = [tokens EXCEPT ![target] = Spent(@)]
  /\ told' = IF target \in openQueues
             THEN [told EXCEPT ![target] = @ + 1] ELSE told
  /\ target' = NoClient
  /\ Routes
  /\ UNCHANGED <<indexVars, phase, spike, hasListener, usersLeft, idsLeft,
                 texted, textedDefault>>

AllTold ==
  /\ phase = "send" /\ usersLeft = {} /\ idsLeft = {} /\ target = NoClient
  /\ phase' = "again"
  /\ Routes
  /\ UNCHANGED <<hubVars, spike, hasListener, usersLeft, idsLeft, target,
                 sentHistory>>

UsersToText == ReadUsers("again", "text")

(* telegramNotifier.Send, whose failure is only logged. *)
Texts(u) ==
  /\ phase = "text"
  /\ u \in usersLeft
  /\ usersLeft' = usersLeft \ {u}
  /\ texted' = [texted EXCEPT ![u] = @ + 1]
  /\ Routes
  /\ UNCHANGED <<hubVars, phase, spike, hasListener, idsLeft, target, told,
                 textedDefault>>

AllTexted ==
  /\ phase = "text" /\ usersLeft = {}
  /\ phase' = "return"
  /\ Routes
  /\ UNCHANGED <<hubVars, spike, hasListener, usersLeft, idsLeft, target,
                 sentHistory>>

TextsDefault ==
  /\ phase = "textDefault"
  /\ phase' = "return"
  /\ textedDefault' = textedDefault + 1
  /\ Routes
  /\ UNCHANGED <<hubVars, spike, hasListener, usersLeft, idsLeft, target, told,
                 texted>>

(* onSpike returns; the history of its spike is forgotten. *)
OnSpikeReturns ==
  /\ phase = "return"
  /\ phase' = "idle"
  /\ hasListener' = FALSE
  /\ always' = {} /\ ever' = {} /\ stayed' = {}
  /\ NothingSent
  /\ UNCHANGED <<registryVars, hubVars, socketVars, spike, usersLeft, idsLeft,
                 target>>

OnSpike ==
  \/ \E m \in Mints : Spike(m)
  \/ BroadcastSpike
  \/ UsersToTell
  \/ \E u \in Users : NextUser(u) \/ Texts(u)
  \/ \E c \in Clients : NextClient(c)
  \/ SendsPersonal \/ AllTold
  \/ UsersToText \/ AllTexted
  \/ TextsDefault
  \/ OnSpikeReturns

-----------------------------------------------------------------------------
(* Users, pages and sessions.                                              *)

Watching(m) == mintUsers'[m]

(* A request of the watch API reaches the registry. *)
Watches(u, m) ==
  /\ AddWatch(u, m) \/ RemoveWatch(u, m)
  /\ always' = IF m = spike THEN always \cap Watching(m) ELSE always
  /\ ever' = IF m = spike /\ phase # "idle" THEN ever \cup Watching(m) ELSE ever
  /\ UNCHANGED <<hubVars, socketVars, routeVars, stayed, sentHistory>>

(* A connection that onSpike may still name is not a new one. *)
Unused(c) == c \notin idsLeft /\ c # target

PageConnects(p, c) ==
  /\ Unused(c)
  /\ Mount(p, c) \/ ReconnectTimerFires(p, c)
  /\ UNCHANGED <<registryVars, hubVars, routeVars, historyVars>>

PageLoses(p) ==
  /\ SocketCloses(p) \/ CloseController(p) \/ OldSocketCloses(p)
  /\ UNCHANGED <<registryVars, hubVars, routeVars, historyVars>>

(* serveWSClient registers the client of a page's connection. *)
SessionBegins(p) ==
  /\ socket[p] # NoConn
  /\ Opened(socket[p])
  /\ AddClientForUser(socket[p], UserOf[p])
  /\ UNCHANGED <<registryVars, routeVars, historyVars>>

(* The deferred RemoveClient of a session that ends, for whatever reason.  *)
SessionEnds(c) ==
  /\ Ended(c)
  /\ RemoveClient(c)
  /\ stayed' = stayed \ {c}
  /\ UNCHANGED <<registryVars, routeVars, watchHistory, sentHistory>>

(* The portal feed, the trade metrics and the other goroutine's spikes use *)
(* up the clients' limits, and time restores them.                         *)
OtherMessage ==
  /\ Broadcast \/ \E c \in Clients : SecondPasses(c)
  /\ UNCHANGED <<registryVars, socketVars, routeVars, historyVars>>

Next ==
  \/ OnSpike
  \/ \E u \in Users : \E m \in Mints : Watches(u, m)
  \/ \E p \in Pages : PageLoses(p) \/ SessionBegins(p)
  \/ \E p \in Pages : \E c \in Clients : PageConnects(p, c)
  \/ \E c \in Clients : SessionEnds(c)
  \/ OtherMessage

Spec == Init /\ [][Next]_vars

-----------------------------------------------------------------------------
(* Properties.                                                             *)

(***************************************************************************)
(* When onSpike returns, a user who was watching all the while has one     *)
(* Telegram message and, on each client registered all the while, one      *)
(* personal event, whatever the clients' limits; one who was not watching  *)
(* at any time has none; and the default chat stands in only when nobody   *)
(* watched to begin with, surely when nobody watched at all (main.go:164). *)
(***************************************************************************)
WatchersAreTold ==
  phase = "return" =>
    /\ \A u \in always :
         /\ texted[u] = 1
         /\ \A c \in stayed : clientUsers[c] = u => told[c] = 1
    /\ \A u \in Users \ ever :
         /\ texted[u] = 0
         /\ \A c \in stayed : clientUsers[c] = u => told[c] = 0
    /\ always # {} => textedDefault = 0
    /\ ever = {} => textedDefault = 1

=============================================================================
