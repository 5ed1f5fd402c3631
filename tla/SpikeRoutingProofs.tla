------------------------- MODULE SpikeRoutingProofs -------------------------
(***************************************************************************)
(* That the hub's indexes agree, that a page has one way to its feed, and  *)
(* that every watcher who stays is told once, for any users, mints, pages  *)
(* and clients.  What onSpike still has to do for a client or a user is    *)
(* read off its local variables (Due), and the history of what was sent    *)
(* is tied to it.                                                          *)
(***************************************************************************)
EXTENDS SpikeRouting, RegistryProofs

-----------------------------------------------------------------------------
(* Connections and sessions.                                               *)

Held == {"dialing", "open", "dropped"}

SocketsAreHeld == \A p \in Pages : socket[p] # NoConn => link[socket[p]] \in Held

Registered == clients = {c \in Clients : link[c] \in {"open", "left"}}

SessionInv ==
  SocketsAreHeld /\ Registered /\ OneWayPerPage /\ HubIndexesAgree

-----------------------------------------------------------------------------
(* What onSpike has done and still has to do.                              *)

IdleIsClean ==
  phase = "idle" =>
    /\ always = {} /\ ever = {} /\ stayed = {} /\ ~hasListener
    /\ told = [c \in Clients |-> 0]
    /\ texted = [u \in Users |-> 0]
    /\ textedDefault = 0

WatchersBracketed ==
  phase # "idle" => always \subseteq mintUsers[spike] /\ mintUsers[spike] \subseteq ever

ListenerInv ==
  /\ phase # "idle" => (IF hasListener THEN ever # {} ELSE always = {})
  /\ phase \in {"users", "send", "again", "text"} => hasListener
  /\ phase = "textDefault" => ~hasListener

SlotsInv == phase # "send" => idsLeft = {} /\ target = NoClient

(* The loop of personal messages will still come to client c of user u. *)
Due(u, c) == phase = "send" /\ (u \in usersLeft \/ c \in idsLeft \/ target = c)

NotYet(u, c) == phase \in {"broadcast", "users"} \/ Due(u, c)

ToldRight(u, c) ==
  /\ u \in always => told[c] = IF NotYet(u, c) THEN 0 ELSE 1
  /\ u \notin ever => told[c] = 0 /\ ~Due(u, c)
  /\ phase = "send" /\ u \in usersLeft => c \notin idsLeft /\ target # c
  /\ c \in idsLeft => target # c

ToldInv ==
  \A u \in Users : \A c \in stayed : clientUsers[c] = u => ToldRight(u, c)

WasTexted(u) == phase = "return" \/ (phase = "text" /\ u \notin usersLeft)

TextInv ==
  \A u \in Users :
    /\ u \in always => texted[u] = IF WasTexted(u) THEN 1 ELSE 0
    /\ u \notin ever => texted[u] = 0 /\ (phase = "text" => u \notin usersLeft)

DefaultInv ==
  textedDefault = IF phase = "return" /\ ~hasListener THEN 1 ELSE 0

WhereItIs ==
  /\ IdleIsClean /\ WatchersBracketed /\ ListenerInv /\ SlotsInv
  /\ stayed \subseteq clients

OnSpikeInv == WhereItIs /\ ToldInv /\ TextInv /\ DefaultInv

TypesInv == RoutingTypeOK /\ RegistryConsistent

IInv == TypesInv /\ SessionInv /\ OnSpikeInv

-----------------------------------------------------------------------------
(* Types and the registry.                                                 *)

LEMMA TypesBegin == Init => TypesInv
<1> SUFFICES ASSUME Init PROVE TypesInv
  OBVIOUS
<1>1. RegistryTypeOK /\ RegistryConsistent
  BY NewRegistryConsistent DEF Init
<1>2. HubTypeOK
  BY HubAssumption DEF Init, NewHub, HubTypeOK
<1>3. LiveSocketTypeOK
  BY RoutingAssumption DEF Init, NoPages, LiveSocketTypeOK
<1>4. QED
  BY <1>1, <1>2, <1>3 DEF TypesInv, RoutingTypeOK, Init

(* What a step does to the buckets keeps them within the limit. *)
LEMMA SpentInRange ==
  ASSUME NEW n \in 0 .. RateLimit
  PROVE  Spent(n) \in 0 .. RateLimit
BY HubAssumption DEF Spent

LEMMA TypesStep == TypesInv /\ [Next]_vars => TypesInv'
<1> SUFFICES ASSUME TypesInv, [Next]_vars PROVE TypesInv'
  OBVIOUS
<1> USE DEF TypesInv, RoutingTypeOK
<1> DEFINE Local ==
      /\ phase \in {"idle", "broadcast", "users", "send", "again", "text",
                    "textDefault", "return"}
      /\ spike \in Mints /\ hasListener \in BOOLEAN
      /\ usersLeft \in SUBSET Users /\ idsLeft \in SUBSET Clients
      /\ target \in Clients \cup {NoClient}
    History ==
      /\ always \in SUBSET Users /\ ever \in SUBSET Users
      /\ stayed \in SUBSET Clients
      /\ told \in [Clients -> Nat] /\ texted \in [Users -> Nat]
      /\ textedDefault \in Nat
<1>a. Local /\ History
  OBVIOUS
<1>r. ASSUME UNCHANGED registryVars PROVE RegistryTypeOK' /\ RegistryConsistent'
  BY <1>r DEF registryVars, RegistryTypeOK, RegistryConsistent
<1>h. ASSUME UNCHANGED hubVars PROVE HubTypeOK'
  BY <1>h DEF hubVars, HubTypeOK
<1>s. ASSUME UNCHANGED socketVars PROVE LiveSocketTypeOK'
  BY <1>s DEF socketVars, pageVars, LiveSocketTypeOK
<1>l. ASSUME UNCHANGED routeVars PROVE Local'
  BY <1>a, <1>l DEF routeVars
<1>y. ASSUME UNCHANGED historyVars PROVE History'
  BY <1>a, <1>y DEF historyVars, watchHistory, sentHistory
<1>q. ASSUME RegistryTypeOK', RegistryConsistent', HubTypeOK', LiveSocketTypeOK',
             Local', History'
      PROVE  TypesInv'
  BY <1>q
<1> HIDE DEF TypesInv
<1>1. CASE OnSpike
  <2>1. ASSUME NEW m \in Mints, Spike(m) PROVE TypesInv'
    <3>1. Local'
      BY <1>a, <2>1 DEF Spike, HasWatchers
    <3>2. UsersForMint(m) \in SUBSET Users /\ clients \in SUBSET Clients
      BY DEF TypesInv, RegistryTypeOK, HubTypeOK, UsersForMint
    <3>3. History'
      BY <1>a, <2>1, <3>2 DEF Spike, sentHistory
    <3> QED BY <1>r, <1>h, <1>s, <1>q, <2>1, <3>1, <3>3 DEF Spike
  <2>2. CASE BroadcastSpike
    <3>1. HubTypeOK'
      BY <2>2, SpentInRange DEF BroadcastSpike, Broadcast, indexVars, TypesInv, HubTypeOK
    <3>2. Local' /\ History'
      BY <1>a, <2>2 DEF BroadcastSpike, Routes, watchHistory, sentHistory
    <3> QED BY <1>r, <1>s, <1>q, <2>2, <3>1, <3>2 DEF BroadcastSpike, Routes
  <2>3. ASSUME NEW before, NEW after \in {"send", "text"}, ReadUsers(before, after)
        PROVE  TypesInv'
    <3>1. UsersForMint(spike) \in SUBSET Users
      BY DEF TypesInv, RegistryTypeOK, UsersForMint
    <3>2. Local' /\ History'
      BY <1>a, <2>3, <3>1 DEF ReadUsers, Routes, watchHistory, sentHistory
    <3> QED BY <1>r, <1>h, <1>s, <1>q, <2>3, <3>2 DEF ReadUsers, Routes
  <2>4. ASSUME NEW u \in Users, NextUser(u) PROVE TypesInv'
    <3>1. userClients[u] \in SUBSET Clients
      BY DEF TypesInv, HubTypeOK
    <3>2. Local' /\ History'
      BY <1>a, <2>4, <3>1 DEF NextUser, Routes, watchHistory, sentHistory
    <3> QED BY <1>r, <1>h, <1>s, <1>q, <2>4, <3>2 DEF NextUser, Routes
  <2>5. ASSUME NEW u \in Users, Texts(u) PROVE TypesInv'
    <3>1. Local' /\ History'
      BY <1>a, <2>5 DEF Texts, Routes, watchHistory
    <3> QED BY <1>r, <1>h, <1>s, <1>q, <2>5, <3>1 DEF Texts, Routes
  <2>6. ASSUME NEW c \in Clients, NextClient(c) PROVE TypesInv'
    <3>1. Local' /\ History'
      BY <1>a, <2>6 DEF NextClient, Routes, watchHistory, sentHistory
    <3> QED BY <1>r, <1>h, <1>s, <1>q, <2>6, <3>1 DEF NextClient, Routes
  <2>7. CASE SendsPersonal
    <3>1. target \in Clients
      BY <1>a, <2>7 DEF SendsPersonal
    <3>2. HubTypeOK'
      BY <2>7, <3>1, SpentInRange DEF SendsPersonal, indexVars, TypesInv, HubTypeOK
    <3>3. Local' /\ History'
      BY <1>a, <2>7, <3>1 DEF SendsPersonal, Routes, watchHistory
    <3> QED BY <1>r, <1>s, <1>q, <2>7, <3>2, <3>3 DEF SendsPersonal, Routes
  <2>8. CASE AllTold \/ AllTexted \/ TextsDefault
    <3>1. Local' /\ History'
      BY <1>a, <2>8 DEF AllTold, AllTexted, TextsDefault, Routes, watchHistory, sentHistory
    <3> QED BY <1>r, <1>h, <1>s, <1>q, <2>8, <3>1 DEF AllTold, AllTexted, TextsDefault, Routes
  <2>9. CASE OnSpikeReturns
    <3>1. Local' /\ History'
      BY <1>a, <2>9 DEF OnSpikeReturns, NothingSent
    <3> QED BY <1>r, <1>h, <1>s, <1>q, <2>9, <3>1 DEF OnSpikeReturns
  <2> QED
    BY <1>1, <2>1, <2>2, <2>3, <2>4, <2>5, <2>6, <2>7, <2>8, <2>9
    DEF OnSpike, UsersToTell, UsersToText
<1>2. ASSUME NEW u \in Users, NEW m \in Mints, Watches(u, m) PROVE TypesInv'
  <2>1. RegistryTypeOK' /\ RegistryConsistent'
    BY <1>2, AddWatchConsistent, RemoveWatchConsistent DEF Watches, TypesInv
  <2>2. Watching(m) \in SUBSET Users
    BY <2>1 DEF Watching, RegistryTypeOK
  <2>3. History'
    BY <1>a, <1>2, <2>2 DEF Watches, sentHistory
  <2> QED BY <1>h, <1>s, <1>l, <1>q, <1>2, <2>1, <2>3 DEF Watches
<1>3. ASSUME NEW p \in Pages, PageLoses(p) PROVE TypesInv'
  <2>1. LiveSocketTypeOK'
    BY <1>3 DEF PageLoses, SocketCloses, CloseController, OldSocketCloses, OnClose, Linked,
                TypesInv, LiveSocketTypeOK
  <2> QED BY <1>r, <1>h, <1>l, <1>y, <1>q, <1>3, <2>1 DEF PageLoses
<1>4. ASSUME NEW p \in Pages, SessionBegins(p) PROVE TypesInv'
  <2>1. socket[p] \in Clients /\ UserOf[p] \in Users \cup {NoUser}
    BY <1>4, RoutingAssumption DEF SessionBegins, TypesInv, LiveSocketTypeOK
  <2>2. LiveSocketTypeOK'
    BY <1>4 DEF SessionBegins, Opened, Linked, pageVars, TypesInv, LiveSocketTypeOK
  <2>3. HubTypeOK'
    BY <1>4, <2>1, HubAssumption DEF SessionBegins, AddClientForUser, TypesInv, HubTypeOK
  <2> QED BY <1>r, <1>l, <1>y, <1>q, <1>4, <2>2, <2>3 DEF SessionBegins
<1>5. ASSUME NEW p \in Pages, NEW c \in Clients, PageConnects(p, c) PROVE TypesInv'
  <2> USE DEF Connect, Linked, TypesInv, LiveSocketTypeOK
  <2>a. c \in Conns
    BY RoutingAssumption
  <2>b. ASSUME Mount(p, c) PROVE LiveSocketTypeOK'
    BY <2>a, <2>b DEF Mount
  <2>c. ASSUME ReconnectTimerFires(p, c) PROVE LiveSocketTypeOK'
    BY <2>a, <2>c DEF ReconnectTimerFires
  <2>1. LiveSocketTypeOK'
    BY <1>5, <2>b, <2>c DEF PageConnects
  <2> HIDE DEF Connect, Linked, TypesInv, LiveSocketTypeOK
  <2> QED BY <1>r, <1>h, <1>l, <1>y, <1>q, <1>5, <2>1 DEF PageConnects
<1>6. ASSUME NEW c \in Clients, SessionEnds(c) PROVE TypesInv'
  <2>1. LiveSocketTypeOK'
    BY <1>6 DEF SessionEnds, Ended, Linked, pageVars, TypesInv, LiveSocketTypeOK
  <2>2. HubTypeOK'
    BY <1>6 DEF SessionEnds, RemoveClient, TypesInv, HubTypeOK
  <2>3. History'
    BY <1>a, <1>6 DEF SessionEnds, watchHistory, sentHistory
  <2> QED BY <1>r, <1>l, <1>q, <1>6, <2>1, <2>2, <2>3 DEF SessionEnds
<1>7. CASE OtherMessage
  <2>1. CASE Broadcast
    <3> HubTypeOK'
      BY <2>1, SpentInRange DEF Broadcast, indexVars, TypesInv, HubTypeOK
    <3> QED BY <1>r, <1>s, <1>l, <1>y, <1>q, <1>7 DEF OtherMessage
  <2>2. ASSUME NEW c \in Clients, SecondPasses(c) PROVE TypesInv'
    <3> HubTypeOK'
      BY <2>2, HubAssumption DEF SecondPasses, indexVars, TypesInv, HubTypeOK
    <3> QED BY <1>r, <1>s, <1>l, <1>y, <1>q, <1>7 DEF OtherMessage
  <2> QED BY <1>7, <2>1, <2>2 DEF OtherMessage
<1>8. CASE UNCHANGED vars
  BY <1>r, <1>h, <1>s, <1>l, <1>y, <1>q, <1>8 DEF vars
<1> QED BY <1>1, <1>2, <1>3, <1>4, <1>5, <1>6, <1>7, <1>8 DEF Next

-----------------------------------------------------------------------------
(* Connections and sessions.                                               *)

(* A page that holds a connection is the only one that does. *)
LEMMA OneHolder ==
  ASSUME TypesInv, SessionInv,
         NEW p \in Pages, NEW q \in Pages \ {p}, socket[p] # NoConn
  PROVE  socket[q] # socket[p]
<1>1. socket[p] \in Conns /\ link[socket[p]] \in Held
  BY DEF TypesInv, RoutingTypeOK, LiveSocketTypeOK, SessionInv, SocketsAreHeld
<1>2. PICK r \in Pages : socket[r] = socket[p] /\ \A x \in Pages \ {r} : socket[x] # socket[p]
  BY <1>1 DEF SessionInv, OneWayPerPage, Held
<1>3. QED BY <1>2

LEMMA SessionBegin == Init => SessionInv
<1> USE RoutingAssumption
    DEF Init, NewHub, NoPages, SessionInv
<1>1. Init => SocketsAreHeld
  BY DEF SocketsAreHeld
<1>2. Init => Registered
  BY DEF Registered
<1>3. Init => OneWayPerPage
  BY DEF OneWayPerPage
<1>4. Init => HubIndexesAgree
  BY DEF HubIndexesAgree
<1> QED BY <1>1, <1>2, <1>3, <1>4

LEMMA SessionStep == TypesInv /\ SessionInv /\ [Next]_vars => SessionInv'
<1> SUFFICES ASSUME TypesInv, SessionInv, [Next]_vars PROVE SessionInv'
  OBVIOUS
<1>t. /\ mounted \in [Pages -> BOOLEAN] /\ timer \in [Pages -> BOOLEAN]
      /\ socket \in [Pages -> Clients \cup {NoConn}] /\ NoConn \notin Clients
      /\ link \in [Clients -> {"free", "dialing", "open", "left", "dropped"}]
      /\ Conns = Clients
  BY RoutingAssumption, LiveSocketAssumption DEF TypesInv, RoutingTypeOK, LiveSocketTypeOK
<1>u. /\ clients \in SUBSET Clients /\ clientUsers \in [Clients -> Users \cup {NoUser}]
      /\ userClients \in [Users -> SUBSET Clients]
  BY DEF TypesInv, RoutingTypeOK, HubTypeOK
<1>h. ASSUME UNCHANGED <<clients, clientUsers, userClients, openQueues>>
      PROVE  HubIndexesAgree'
  BY <1>h DEF SessionInv, HubIndexesAgree
<1>p. ASSUME UNCHANGED pageVars, NEW c \in Clients, NEW life \in Held,
             link[c] \in Held, link' = [link EXCEPT ![c] = life]
      PROVE  SocketsAreHeld' /\ OneWayPerPage'
  BY <1>p, <1>t DEF SessionInv, pageVars, SocketsAreHeld, OneWayPerPage, Held
<1>s. ASSUME UNCHANGED <<socketVars, indexVars>> PROVE SessionInv'
  <2>1. SocketsAreHeld' /\ Registered'
    BY <1>s DEF SessionInv, socketVars, pageVars, indexVars, SocketsAreHeld, Registered
  <2>2. OneWayPerPage'
    BY <1>s DEF SessionInv, socketVars, pageVars, OneWayPerPage
  <2> QED BY <1>h, <1>s, <2>1, <2>2 DEF indexVars, SessionInv
<1>1. CASE OnSpike
  BY <1>s, <1>1
  DEF OnSpike, Spike, BroadcastSpike, Broadcast, UsersToTell, UsersToText, ReadUsers, NextUser,
      Texts, NextClient, SendsPersonal, AllTold, AllTexted, TextsDefault, OnSpikeReturns,
      Routes, hubVars, indexVars
<1>2. ASSUME NEW u \in Users, NEW m \in Mints, Watches(u, m) PROVE SessionInv'
  BY <1>s, <1>2 DEF Watches, hubVars, indexVars
<1>3. ASSUME NEW p \in Pages, PageLoses(p) PROVE SessionInv'
  <2>1. HubIndexesAgree'
    BY <1>h, <1>3 DEF PageLoses, hubVars
  <2>2. CASE OldSocketCloses(p)
    BY <1>3, <2>1, <2>2
    DEF OldSocketCloses, PageLoses, hubVars, SessionInv, SocketsAreHeld, Registered, OneWayPerPage
  <2>3. CASE /\ socket[p] # NoConn
             /\ link' = [link EXCEPT ![socket[p]] =
                           IF link[socket[p]] = "open" THEN "left" ELSE "free"]
             /\ socket' = [socket EXCEPT ![p] = NoConn]
             /\ \/ mounted' = mounted /\ timer' = [timer EXCEPT ![p] = TRUE]
                \/ /\ mounted' = [mounted EXCEPT ![p] = FALSE]
                   /\ timer' = [timer EXCEPT ![p] = FALSE]
    <3>1. \A q \in Pages \ {p} : socket[q] # socket[p]
      BY <2>3, OneHolder
    <3>2. socket[p] \in Clients /\ link[socket[p]] \in Held
      BY <1>t, <2>3 DEF SessionInv, SocketsAreHeld
    <3>3. SocketsAreHeld'
      BY <1>t, <2>3, <3>1 DEF SessionInv, SocketsAreHeld
    <3>4. Registered'
      BY <1>t, <1>3, <2>3, <3>2 DEF SessionInv, Registered, PageLoses, hubVars, Held
    <3>5. mounted[p]
      BY <2>3 DEF SessionInv, OneWayPerPage
    <3>6. \A q \in Pages : /\ mounted'[q] => (timer'[q] <=> socket'[q] = NoConn)
                           /\ ~mounted'[q] => ~timer'[q] /\ socket'[q] = NoConn
      BY <1>t, <2>3, <3>5 DEF SessionInv, OneWayPerPage
    <3>7. ASSUME NEW c \in Conns, link'[c] \in Held
          PROVE  \E q \in Pages : socket'[q] = c /\ \A r \in Pages \ {q} : socket'[r] # c
      <4>1. c # socket[p] /\ link[c] \in Held
        BY <1>t, <2>3, <3>2, <3>7 DEF Held
      <4>2. PICK q \in Pages : socket[q] = c /\ \A r \in Pages \ {q} : socket[r] # c
        BY <4>1 DEF SessionInv, OneWayPerPage, Held
      <4>3. q # p /\ socket'[q] = c
        BY <1>t, <2>3, <4>1, <4>2
      <4>4. \A r \in Pages \ {q} : socket'[r] # c
        BY <1>t, <2>3, <4>2
      <4> QED BY <4>3, <4>4
    <3>8. OneWayPerPage'
      BY <3>6, <3>7 DEF OneWayPerPage, Held
    <3> QED BY <2>1, <3>3, <3>4, <3>8 DEF SessionInv
  <2>4. CASE CloseController(p) /\ socket[p] = NoConn
    <3>1. socket' = socket /\ link' = link
      BY <1>t, <2>4 DEF CloseController
    <3>2. SocketsAreHeld' /\ Registered'
      BY <1>3, <3>1 DEF PageLoses, hubVars, SessionInv, SocketsAreHeld, Registered
    <3>3. OneWayPerPage'
      BY <1>t, <2>4, <3>1 DEF CloseController, SessionInv, OneWayPerPage
    <3> QED BY <2>1, <3>2, <3>3 DEF SessionInv
  <2> QED
    BY <1>3, <2>2, <2>3, <2>4
    DEF PageLoses, SocketCloses, OnClose, CloseController, Linked
<1>4. ASSUME NEW p \in Pages, SessionBegins(p) PROVE SessionInv'
  <2> DEFINE c == socket[p]
  <2>1. /\ c \in Clients /\ link[c] = "dialing" /\ c \notin clients
        /\ link' = [link EXCEPT ![c] = "open"]
    BY <1>t, <1>4 DEF SessionBegins, Opened, Linked, SessionInv, Registered
  <2>2. SocketsAreHeld' /\ OneWayPerPage'
    BY <1>p, <1>4, <2>1 DEF SessionBegins, Opened, Held
  <2>3. Registered'
    BY <1>t, <1>u, <1>4, <2>1 DEF SessionBegins, AddClientForUser, SessionInv, Registered
  <2>4. HubIndexesAgree'
    BY <1>u, <1>4, <2>1, RoutingAssumption, HubAssumption
    DEF SessionBegins, AddClientForUser, SessionInv, HubIndexesAgree
  <2> QED BY <2>2, <2>3, <2>4 DEF SessionInv
<1>5. ASSUME NEW p \in Pages, NEW c \in Clients, PageConnects(p, c) PROVE SessionInv'
  <2>1. /\ link[c] = "free" /\ link' = [link EXCEPT ![c] = "dialing"]
        /\ socket' = [socket EXCEPT ![p] = c]
        /\ \/ ~mounted[p] /\ mounted' = [mounted EXCEPT ![p] = TRUE] /\ timer' = timer
           \/ timer[p] /\ timer' = [timer EXCEPT ![p] = FALSE] /\ mounted' = mounted
    BY <1>5 DEF PageConnects, Mount, ReconnectTimerFires, Connect, Linked
  <2>2. socket[p] = NoConn
    BY <1>t, <2>1 DEF SessionInv, OneWayPerPage
  <2>3. \A q \in Pages : socket[q] # c
    BY <1>t, <2>1 DEF SessionInv, SocketsAreHeld, Held
  <2>4. SocketsAreHeld'
    BY <1>t, <2>1, <2>3 DEF SessionInv, SocketsAreHeld, Held
  <2>5. Registered'
    BY <1>t, <1>5, <2>1 DEF PageConnects, hubVars, SessionInv, Registered
  <2>6. \A q \in Pages : /\ mounted'[q] => (timer'[q] <=> socket'[q] = NoConn)
                         /\ ~mounted'[q] => ~timer'[q] /\ socket'[q] = NoConn
    BY <1>t, <2>1 DEF SessionInv, OneWayPerPage
  <2>7. ASSUME NEW d \in Conns, link'[d] \in Held
        PROVE  \E q \in Pages : socket'[q] = d /\ \A r \in Pages \ {q} : socket'[r] # d
    <3>1. CASE d = c
      BY <1>t, <2>1, <2>3, <3>1
    <3>2. CASE d # c
      <4>1. PICK q \in Pages : socket[q] = d /\ \A r \in Pages \ {q} : socket[r] # d
        BY <1>t, <2>1, <2>7, <3>2 DEF SessionInv, OneWayPerPage, Held
      <4>2. q # p /\ socket'[q] = d
        BY <1>t, <2>1, <2>2, <4>1
      <4>3. \A r \in Pages \ {q} : socket'[r] # d
        BY <1>t, <2>1, <3>2, <4>1
      <4> QED BY <4>2, <4>3
    <3> QED BY <3>1, <3>2
  <2>8. OneWayPerPage'
    BY <2>6, <2>7 DEF OneWayPerPage, Held
  <2> QED BY <1>h, <1>5, <2>4, <2>5, <2>8 DEF PageConnects, hubVars, SessionInv
<1>6. ASSUME NEW c \in Clients, SessionEnds(c) PROVE SessionInv'
  <2>1. /\ link[c] \in {"open", "left"} /\ c \in clients
        /\ link' = [link EXCEPT ![c] = IF link[c] = "left" THEN "free" ELSE "dropped"]
        /\ UNCHANGED pageVars
    BY <1>6 DEF SessionEnds, Ended, Linked, RemoveClient
  <2>2. SocketsAreHeld' /\ OneWayPerPage'
    <3>1. CASE link[c] = "open"
      BY <1>p, <2>1, <3>1 DEF Held
    <3>2. CASE link[c] = "left"
      BY <1>t, <2>1, <3>2 DEF SessionInv, pageVars, SocketsAreHeld, OneWayPerPage, Held
    <3> QED BY <2>1, <3>1, <3>2
  <2>3. Registered'
    BY <1>t, <1>u, <1>6, <2>1 DEF SessionEnds, RemoveClient, SessionInv, Registered
  <2>4. HubIndexesAgree'
    BY <1>u, <1>6, <2>1, HubAssumption
    DEF SessionEnds, RemoveClient, SessionInv, HubIndexesAgree
  <2> QED BY <2>2, <2>3, <2>4 DEF SessionInv
<1>7. CASE OtherMessage
  BY <1>s, <1>7 DEF OtherMessage, Broadcast, SecondPasses
<1>8. CASE UNCHANGED vars
  BY <1>s, <1>8 DEF vars, hubVars, indexVars
<1> QED BY <1>1, <1>2, <1>3, <1>4, <1>5, <1>6, <1>7, <1>8 DEF Next

-----------------------------------------------------------------------------
(* The progress of onSpike.                                                *)

LEMMA OnSpikeBegin == Init => OnSpikeInv
BY DEF Init, OnSpikeInv, WhereItIs, IdleIsClean, WatchersBracketed, ListenerInv, SlotsInv, ToldInv,
       TextInv, WasTexted, DefaultInv, NewHub

(* Steps of others that leave the watchers of the spike, and the sessions  *)
(* that stayed, as they are.                                               *)
LEMMA OthersLeaveOnSpike ==
  ASSUME TypesInv, OnSpikeInv,
         UNCHANGED <<mintUsers, routeVars, watchHistory, sentHistory>>,
         stayed' \subseteq stayed, stayed' \subseteq clients',
         \A c \in stayed' : clientUsers'[c] = clientUsers[c]
  PROVE  OnSpikeInv'
<1> USE DEF OnSpikeInv, WhereItIs, routeVars, watchHistory, sentHistory
<1>1. IdleIsClean' /\ WatchersBracketed' /\ ListenerInv' /\ SlotsInv'
  BY DEF IdleIsClean, WatchersBracketed, ListenerInv, SlotsInv
<1>2. TextInv' /\ DefaultInv'
  BY DEF TextInv, WasTexted, DefaultInv
<1>3. ToldInv'
  BY DEF ToldInv, ToldRight, NotYet, Due
<1> QED BY <1>1, <1>2, <1>3

LEMMA OnSpikeStep ==
  TypesInv /\ SessionInv /\ OnSpikeInv /\ [Next]_vars => OnSpikeInv'
<1> SUFFICES ASSUME TypesInv, SessionInv, OnSpikeInv, [Next]_vars PROVE OnSpikeInv'
  OBVIOUS
<1>t. /\ told \in [Clients -> Nat] /\ texted \in [Users -> Nat]
      /\ mintUsers \in [Mints -> SUBSET Users] /\ spike \in Mints
      /\ always \in SUBSET Users /\ ever \in SUBSET Users /\ stayed \in SUBSET Clients
      /\ usersLeft \in SUBSET Users /\ idsLeft \in SUBSET Clients
      /\ NoClient \notin Clients /\ hasListener \in BOOLEAN
  BY RoutingAssumption DEF TypesInv, RoutingTypeOK, RegistryTypeOK
<1>c. /\ stayed \subseteq clients /\ clients \subseteq Clients /\ openQueues = clients
      /\ \A u \in Users : userClients[u] = {c \in clients : clientUsers[c] = u}
  BY DEF OnSpikeInv, WhereItIs, SessionInv, HubIndexesAgree, TypesInv, RoutingTypeOK, HubTypeOK
<1>o. ASSUME UNCHANGED <<mintUsers, routeVars, historyVars, clients, clientUsers>>
      PROVE  OnSpikeInv'
  BY <1>o, OthersLeaveOnSpike DEF historyVars, OnSpikeInv, WhereItIs
<1>1. CASE OnSpike
  <2> USE DEF OnSpikeInv, WhereItIs
  <2>1. ASSUME NEW m \in Mints, Spike(m) PROVE OnSpikeInv'
    <3> USE DEF Spike, UsersForMint
    <3>1. hasListener' <=> mintUsers[m] # {}
      BY <2>1, WatchersAreListed DEF TypesInv, RoutingTypeOK
    <3>2. /\ told = [c \in Clients |-> 0] /\ texted = [u \in Users |-> 0]
          /\ textedDefault = 0
      BY <2>1 DEF IdleIsClean
    <3>3. IdleIsClean' /\ WatchersBracketed' /\ SlotsInv' /\ (stayed \subseteq clients)'
      BY <2>1 DEF IdleIsClean, WatchersBracketed, SlotsInv, registryVars, hubVars
    <3>4. ListenerInv'
      BY <2>1, <3>1 DEF ListenerInv
    <3>5. ToldInv' /\ TextInv' /\ DefaultInv'
      BY <1>t, <1>c, <2>1, <3>2
      DEF SlotsInv, ToldInv, ToldRight, NotYet, Due, TextInv, WasTexted, DefaultInv, sentHistory,
          hubVars
    <3> QED BY <3>3, <3>4, <3>5
  <2> DEFINE Constant ==
        /\ spike' = spike /\ hasListener' = hasListener /\ mintUsers' = mintUsers
        /\ always' = always /\ ever' = ever /\ stayed' = stayed
        /\ clients' = clients /\ clientUsers' = clientUsers
  <2>2. CASE BroadcastSpike
    <3>1. /\ Constant /\ phase = "broadcast"
          /\ UNCHANGED <<usersLeft, idsLeft, target, sentHistory>>
          /\ phase' = IF hasListener THEN "users" ELSE "textDefault"
      BY <2>2 DEF BroadcastSpike, Broadcast, Routes, registryVars, watchHistory, indexVars
    <3>2. WhereItIs'
      BY <3>1 DEF IdleIsClean, WatchersBracketed, SlotsInv, ListenerInv
    <3>3. ToldInv'
      BY <1>t, <3>1, <3>2 DEF ToldInv, ToldRight, NotYet, Due, ListenerInv, sentHistory
    <3>4. TextInv' /\ DefaultInv'
      BY <1>t, <3>1 DEF TextInv, WasTexted, DefaultInv, sentHistory
    <3> QED BY <3>2, <3>3, <3>4
  <2>3. CASE UsersToTell
    <3>1. /\ Constant /\ phase = "users" /\ phase' = "send" /\ usersLeft' = mintUsers[spike]
          /\ UNCHANGED <<idsLeft, target, sentHistory>> /\ idsLeft = {} /\ target = NoClient
      BY <2>3 DEF UsersToTell, ReadUsers, Routes, registryVars, watchHistory, hubVars,
             UsersForMint, SlotsInv
    <3>2. WhereItIs'
      BY <3>1 DEF IdleIsClean, WatchersBracketed, SlotsInv, ListenerInv
    <3>3. ToldInv'
      BY <1>t, <3>1 DEF WatchersBracketed, ToldInv, ToldRight, NotYet, Due, sentHistory
    <3>4. TextInv' /\ DefaultInv'
      BY <1>t, <3>1 DEF TextInv, WasTexted, DefaultInv, sentHistory
    <3> QED BY <3>2, <3>3, <3>4
  <2>4. ASSUME NEW u \in Users, NextUser(u) PROVE OnSpikeInv'
    <3>1. /\ Constant /\ phase = "send" /\ phase' = "send" /\ idsLeft = {} /\ target = NoClient
          /\ u \in usersLeft /\ usersLeft' = usersLeft \ {u} /\ idsLeft' = userClients[u]
          /\ UNCHANGED <<target, sentHistory>>
      BY <2>4 DEF NextUser, Routes, registryVars, watchHistory, hubVars
    <3>2. WhereItIs'
      BY <3>1 DEF IdleIsClean, WatchersBracketed, SlotsInv, ListenerInv
    <3>3. ToldInv'
      BY <1>t, <1>c, <3>1 DEF ToldInv, ToldRight, NotYet, Due, sentHistory
    <3>4. TextInv' /\ DefaultInv'
      BY <1>t, <3>1 DEF TextInv, WasTexted, DefaultInv, sentHistory
    <3> QED BY <3>2, <3>3, <3>4
  <2>5. ASSUME NEW c \in Clients, NextClient(c) PROVE OnSpikeInv'
    <3>1. /\ Constant /\ phase = "send" /\ phase' = "send" /\ target = NoClient
          /\ c \in idsLeft /\ idsLeft' = idsLeft \ {c}
          /\ target' = IF c \in clients THEN c ELSE NoClient
          /\ UNCHANGED <<usersLeft, sentHistory>>
      BY <2>5 DEF NextClient, Routes, registryVars, watchHistory, hubVars
    <3>2. WhereItIs'
      BY <3>1 DEF IdleIsClean, WatchersBracketed, SlotsInv, ListenerInv
    <3>3. ToldInv'
      BY <1>t, <1>c, <3>1 DEF ToldInv, ToldRight, NotYet, Due, sentHistory
    <3>4. TextInv' /\ DefaultInv'
      BY <1>t, <3>1 DEF TextInv, WasTexted, DefaultInv, sentHistory
    <3> QED BY <3>2, <3>3, <3>4
  <2>6. CASE SendsPersonal
    <3>1. /\ Constant /\ phase = "send" /\ phase' = "send"
          /\ target \in Clients /\ target' = NoClient
          /\ told' = IF target \in clients THEN [told EXCEPT ![target] = @ + 1] ELSE told
          /\ UNCHANGED <<usersLeft, idsLeft, texted, textedDefault>>
      BY <1>c, <2>6 DEF SendsPersonal, Routes, registryVars, watchHistory, indexVars,
         TypesInv, RoutingTypeOK
    <3>2. WhereItIs'
      BY <3>1 DEF IdleIsClean, WatchersBracketed, SlotsInv, ListenerInv
    <3>3. ToldInv'
      BY <1>t, <1>c, <3>1 DEF ToldInv, ToldRight, NotYet, Due
    <3>4. TextInv' /\ DefaultInv'
      BY <1>t, <3>1 DEF TextInv, WasTexted, DefaultInv
    <3> QED BY <3>2, <3>3, <3>4
  <2>7. CASE AllTold
    <3>1. /\ Constant /\ phase = "send" /\ phase' = "again"
          /\ usersLeft = {} /\ idsLeft = {} /\ target = NoClient
          /\ UNCHANGED <<usersLeft, idsLeft, target, sentHistory>>
      BY <2>7 DEF AllTold, Routes, registryVars, watchHistory, hubVars
    <3>2. WhereItIs'
      BY <3>1 DEF IdleIsClean, WatchersBracketed, SlotsInv, ListenerInv
    <3>3. ToldInv'
      BY <1>t, <1>c, <3>1 DEF ToldInv, ToldRight, NotYet, Due, sentHistory
    <3>4. TextInv' /\ DefaultInv'
      BY <1>t, <3>1 DEF TextInv, WasTexted, DefaultInv, sentHistory
    <3> QED BY <3>2, <3>3, <3>4
  <2>8. CASE UsersToText
    <3>1. /\ Constant /\ phase = "again" /\ phase' = "text" /\ usersLeft' = mintUsers[spike]
          /\ UNCHANGED <<idsLeft, target, sentHistory>>
      BY <2>8 DEF UsersToText, ReadUsers, Routes, registryVars, watchHistory, hubVars, UsersForMint
    <3>2. WhereItIs'
      BY <3>1 DEF IdleIsClean, WatchersBracketed, SlotsInv, ListenerInv
    <3>3. ToldInv'
      BY <1>t, <1>c, <3>1 DEF ToldInv, ToldRight, NotYet, Due, sentHistory
    <3>4. TextInv' /\ DefaultInv'
      BY <1>t, <3>1 DEF WatchersBracketed, TextInv, WasTexted, DefaultInv, sentHistory
    <3> QED BY <3>2, <3>3, <3>4
  <2>9. ASSUME NEW u \in Users, Texts(u) PROVE OnSpikeInv'
    <3>1. /\ Constant /\ phase = "text" /\ phase' = "text"
          /\ u \in usersLeft /\ usersLeft' = usersLeft \ {u}
          /\ texted' = [texted EXCEPT ![u] = @ + 1]
          /\ UNCHANGED <<idsLeft, target, told, textedDefault>>
      BY <2>9 DEF Texts, Routes, registryVars, watchHistory, hubVars
    <3>2. WhereItIs'
      BY <3>1 DEF IdleIsClean, WatchersBracketed, SlotsInv, ListenerInv
    <3>3. ToldInv'
      BY <1>t, <1>c, <3>1 DEF ToldInv, ToldRight, NotYet, Due
    <3>4. TextInv' /\ DefaultInv'
      BY <1>t, <3>1 DEF TextInv, WasTexted, DefaultInv
    <3> QED BY <3>2, <3>3, <3>4
  <2>10. CASE AllTexted
    <3>1. /\ Constant /\ phase = "text" /\ phase' = "return" /\ usersLeft = {}
          /\ UNCHANGED <<usersLeft, idsLeft, target, sentHistory>>
      BY <2>10 DEF AllTexted, Routes, registryVars, watchHistory, hubVars
    <3>2. WhereItIs'
      BY <3>1 DEF IdleIsClean, WatchersBracketed, SlotsInv, ListenerInv
    <3>3. ToldInv'
      BY <1>t, <1>c, <3>1 DEF ToldInv, ToldRight, NotYet, Due, sentHistory
    <3>4. TextInv' /\ DefaultInv'
      BY <1>t, <3>1 DEF TextInv, WasTexted, DefaultInv, ListenerInv, sentHistory
    <3> QED BY <3>2, <3>3, <3>4
  <2>11. CASE TextsDefault
    <3>1. /\ Constant /\ phase = "textDefault" /\ phase' = "return"
          /\ ~hasListener /\ always = {} /\ textedDefault' = textedDefault + 1
          /\ UNCHANGED <<usersLeft, idsLeft, target, told, texted>>
      BY <2>11 DEF TextsDefault, Routes, registryVars, watchHistory, hubVars, ListenerInv
    <3>2. WhereItIs'
      BY <3>1 DEF IdleIsClean, WatchersBracketed, SlotsInv, ListenerInv
    <3>3. ToldInv'
      BY <1>t, <1>c, <3>1 DEF ToldInv, ToldRight, NotYet, Due
    <3>4. TextInv' /\ DefaultInv'
      BY <1>t, <3>1 DEF TextInv, WasTexted, DefaultInv
    <3> QED BY <3>2, <3>3, <3>4
  <2>12. CASE OnSpikeReturns
    <3> USE <2>12 DEF OnSpikeReturns, NothingSent
    <3>1. WhereItIs'
      BY DEF IdleIsClean, WatchersBracketed, SlotsInv, ListenerInv
    <3>2. ToldInv' /\ TextInv' /\ DefaultInv'
      BY DEF ToldInv, TextInv, WasTexted, DefaultInv
    <3> QED BY <3>1, <3>2
  <2> QED
    BY <1>1, <2>1, <2>2, <2>3, <2>4, <2>5, <2>6, <2>7, <2>8, <2>9, <2>10, <2>11, <2>12
    DEF OnSpike
<1>2. ASSUME NEW u \in Users, NEW m \in Mints, Watches(u, m) PROVE OnSpikeInv'
  <2> USE DEF OnSpikeInv, WhereItIs
  <2>1. /\ always' \subseteq always
        /\ ever \subseteq ever' /\ ever' \subseteq Users
        /\ phase = "idle" => ever' = ever
        /\ phase # "idle" =>
             always' \subseteq mintUsers'[spike] /\ mintUsers'[spike] \subseteq ever'
    <3>1. mintUsers' \in [Mints -> SUBSET Users]
      BY <1>2, AddWatchConsistent, RemoveWatchConsistent
      DEF Watches, TypesInv, RoutingTypeOK, RegistryTypeOK
    <3>2. m # spike => mintUsers'[spike] = mintUsers[spike]
      BY <1>t, <1>2, OtherMintsAlone DEF Watches, TypesInv, RoutingTypeOK
    <3>3. CASE m = spike
      BY <1>t, <1>2, <3>1, <3>3 DEF Watches, Watching, IdleIsClean
    <3>4. CASE m # spike
      BY <1>t, <1>2, <3>2, <3>4 DEF Watches, WatchersBracketed
    <3> QED BY <3>3, <3>4
  <2>2. UNCHANGED <<hubVars, routeVars, stayed, sentHistory>>
    BY <1>2 DEF Watches
  <2>3. WhereItIs'
    BY <2>1, <2>2
    DEF IdleIsClean, WatchersBracketed, ListenerInv, SlotsInv, hubVars, routeVars, sentHistory
  <2>4. ToldInv'
    BY <2>1, <2>2 DEF ToldInv, ToldRight, NotYet, Due, hubVars, routeVars, sentHistory
  <2>5. TextInv' /\ DefaultInv'
    BY <2>1, <2>2 DEF TextInv, WasTexted, DefaultInv, routeVars, sentHistory
  <2> QED BY <2>3, <2>4, <2>5
<1>3. ASSUME NEW p \in Pages, PageLoses(p) PROVE OnSpikeInv'
  BY <1>o, <1>3 DEF PageLoses, registryVars, hubVars
<1>4. ASSUME NEW p \in Pages, SessionBegins(p) PROVE OnSpikeInv'
  <2>1. socket[p] \in Clients /\ socket[p] \notin clients
    BY <1>4, RoutingAssumption
    DEF SessionBegins, Opened, SessionInv, Registered, TypesInv, RoutingTypeOK, LiveSocketTypeOK
  <2>2. \A c \in clients : c \in clients' /\ clientUsers'[c] = clientUsers[c]
    BY <1>4, <2>1 DEF SessionBegins, AddClientForUser, TypesInv, RoutingTypeOK, HubTypeOK
  <2> QED BY <1>c, <1>4, <2>2, OthersLeaveOnSpike
    DEF SessionBegins, registryVars, historyVars
<1>5. ASSUME NEW p \in Pages, NEW c \in Clients, PageConnects(p, c) PROVE OnSpikeInv'
  BY <1>o, <1>5 DEF PageConnects, registryVars, hubVars
<1>6. ASSUME NEW c \in Clients, SessionEnds(c) PROVE OnSpikeInv'
  <2>1. \A d \in stayed' : d \in stayed /\ d \in clients' /\ clientUsers'[d] = clientUsers[d]
    BY <1>c, <1>6 DEF SessionEnds, RemoveClient, TypesInv, RoutingTypeOK, HubTypeOK
  <2> QED BY <1>6, <2>1, OthersLeaveOnSpike DEF SessionEnds, registryVars
<1>7. CASE OtherMessage
  BY <1>o, <1>7 DEF OtherMessage, Broadcast, SecondPasses, indexVars, registryVars
<1>8. CASE UNCHANGED vars
  BY <1>o, <1>8 DEF vars, hubVars, registryVars
<1> QED BY <1>1, <1>2, <1>3, <1>4, <1>5, <1>6, <1>7, <1>8 DEF Next

-----------------------------------------------------------------------------
(* The theorems.                                                           *)

LEMMA RoutingInductive == Spec => []IInv
<1>1. Init => IInv
  BY TypesBegin, SessionBegin, OnSpikeBegin DEF IInv
<1>2. IInv /\ [Next]_vars => IInv'
  BY TypesStep, SessionStep, OnSpikeStep DEF IInv
<1>3. QED BY <1>1, <1>2, PTL DEF Spec

(***************************************************************************)
(* Every variable of the registry, the hub, the pages and onSpike keeps    *)
(* its type, for any number of each.                                       *)
(***************************************************************************)
THEOREM RoutingTypeCorrect == Spec => []RoutingTypeOK
<1>1. IInv => RoutingTypeOK
  BY DEF IInv, TypesInv
<1>2. QED BY <1>1, RoutingInductive, PTL

(***************************************************************************)
(* The hub's two indexes and its open queues agree after every sequence of *)
(* sessions that begin and end (hub.go:44-80).                             *)
(***************************************************************************)
THEOREM HubStaysConsistent == Spec => []HubIndexesAgree
<1>1. IInv => HubIndexesAgree
  BY DEF IInv, SessionInv
<1>2. QED BY <1>1, RoutingInductive, PTL

(***************************************************************************)
(* A page has one socket or one timer while it is mounted, and neither     *)
(* after, in whatever order its callbacks come (ws.ts:113-138).            *)
(***************************************************************************)
THEOREM PagesHaveOneWay == Spec => []OneWayPerPage
<1>1. IInv => OneWayPerPage
  BY DEF IInv, SessionInv
<1>2. QED BY <1>1, RoutingInductive, PTL

(***************************************************************************)
(* Whoever watches and stays throughout onSpike is told once on every      *)
(* client and texted once, whatever others do meanwhile (main.go:102-190).  *)
(***************************************************************************)
THEOREM SpikesReachWatchers == Spec => []WatchersAreTold
<1>1. IInv => WatchersAreTold
  <2> SUFFICES ASSUME IInv, phase = "return" PROVE WatchersAreTold
    BY DEF WatchersAreTold
  <2> USE DEF IInv, OnSpikeInv, WhereItIs
  <2>1. always \subseteq Users /\ ever \subseteq Users
    BY DEF TypesInv, RoutingTypeOK
  <2>2. \A u \in always : texted[u] = 1 /\ \A c \in stayed : clientUsers[c] = u => told[c] = 1
    BY <2>1 DEF TextInv, WasTexted, ToldInv, ToldRight, NotYet, Due
  <2>3. \A u \in Users \ ever : texted[u] = 0 /\ \A c \in stayed : clientUsers[c] = u => told[c] = 0
    BY DEF TextInv, ToldInv, ToldRight
  <2>4. /\ always # {} => textedDefault = 0
        /\ ever = {} => textedDefault = 1
    BY DEF ListenerInv, DefaultInv
  <2> QED BY <2>2, <2>3, <2>4 DEF WatchersAreTold
<1>2. QED BY <1>1, RoutingInductive, PTL

=============================================================================
