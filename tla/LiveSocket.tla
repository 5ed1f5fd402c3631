----------------------------- MODULE LiveSocket -----------------------------
(***************************************************************************)
(* The dashboard's end of the live feed: openLiveSocket of                 *)
(* web/src/lib/ws.ts and the effect of App.tsx that opens a controller     *)
(* when the page is mounted and closes it when it goes, for several pages. *)
(* A connection is named by the client the server registers for it; its    *)
(* life is kept in link:                                                   *)
(*                                                                         *)
(*   "free"     unused                                                     *)
(*   "dialing"  the page waits for onopen                                  *)
(*   "open"     connected, registered by the server                        *)
(*   "left"     over for the page, still registered by the server          *)
(*   "dropped"  over for the server, and the page is about to see onclose  *)
(*                                                                         *)
(* How long the backoff lasts, and the status shown, are left out, and so  *)
(* is connect's own test of stopped (ws.ts:82).  Closing a controller      *)
(* clears its timer, so connect is not called after that; the model, which *)
(* would connect, shows it: a page that is not mounted has no timer        *)
(* (OneWayPerPage).                                                        *)
(***************************************************************************)
EXTENDS Naturals

CONSTANTS Pages, Conns, NoConn

ASSUME LiveSocketAssumption == NoConn \notin Conns

VARIABLES mounted,   \* the page's controller is open: not stopped
          timer,     \* a reconnect timer is set
          socket,    \* the controller's socket, NoConn once it has closed
          closing,   \* the onclose of a closed controller is still to come
          link       \* the life of each connection

pageVars == <<mounted, timer, socket, closing>>
socketVars == <<pageVars, link>>

LiveSocketTypeOK ==
  /\ mounted \in [Pages -> BOOLEAN]
  /\ timer \in [Pages -> BOOLEAN]
  /\ socket \in [Pages -> Conns \cup {NoConn}]
  /\ closing \in [Pages -> BOOLEAN]
  /\ link \in [Conns -> {"free", "dialing", "open", "left", "dropped"}]

NoPages ==
  /\ mounted = [p \in Pages |-> FALSE]
  /\ timer = [p \in Pages |-> FALSE]
  /\ socket = [p \in Pages |-> NoConn]
  /\ closing = [p \in Pages |-> FALSE]
  /\ link = [c \in Conns |-> "free"]

Linked(c, life) == link' = [link EXCEPT ![c] = life]

(* connect, on an unused connection. *)
Connect(p, c) ==
  /\ link[c] = "free"
  /\ socket' = [socket EXCEPT ![p] = c]
  /\ Linked(c, "dialing")

Mount(p, c) ==
  /\ ~mounted[p]
  /\ mounted' = [mounted EXCEPT ![p] = TRUE]
  /\ Connect(p, c)
  /\ UNCHANGED <<timer, closing>>

ReconnectTimerFires(p, c) ==
  /\ timer[p]
  /\ timer' = [timer EXCEPT ![p] = FALSE]
  /\ Connect(p, c)
  /\ UNCHANGED <<mounted, closing>>

(* onclose of an open controller's socket: the timer is set. *)
OnClose(p) ==
  /\ timer' = [timer EXCEPT ![p] = TRUE]
  /\ socket' = [socket EXCEPT ![p] = NoConn]
  /\ UNCHANGED <<mounted, closing>>

(* The page's socket has come to an end: a dial that fails or is refused,  *)
(* a connection that breaks, or one the server has ended.                  *)
SocketCloses(p) ==
  /\ socket[p] # NoConn
  /\ OnClose(p)
  /\ Linked(socket[p], IF link[socket[p]] = "open" THEN "left" ELSE "free")

(* A faulty close that leaves the reconnect timer running. *)
CloseKeepsTimer(p) ==
  /\ mounted[p]
  /\ mounted' = [mounted EXCEPT ![p] = FALSE]
  /\ socket' = [socket EXCEPT ![p] = NoConn]
  /\ \/ /\ socket[p] = NoConn
        /\ UNCHANGED <<link, closing>>
     \/ /\ socket[p] # NoConn
        /\ closing' = [closing EXCEPT ![p] = TRUE]
        /\ Linked(socket[p], IF link[socket[p]] = "open" THEN "left" ELSE "free")
  /\ UNCHANGED timer

(* The controller's close: stopped, no timer, and the socket closed.       *)
CloseController(p) ==
  /\ mounted[p]
  /\ mounted' = [mounted EXCEPT ![p] = FALSE]
  /\ timer' = [timer EXCEPT ![p] = FALSE]
  /\ socket' = [socket EXCEPT ![p] = NoConn]
  /\ \/ /\ socket[p] = NoConn
        /\ UNCHANGED <<link, closing>>
     \/ /\ socket[p] # NoConn
        /\ closing' = [closing EXCEPT ![p] = TRUE]
        /\ Linked(socket[p], IF link[socket[p]] = "open" THEN "left" ELSE "free")

(* onclose of a controller that was closed: only the status changes, even  *)
(* when the page has been mounted again in the meantime.                   *)
OldSocketCloses(p) ==
  /\ closing[p]
  /\ closing' = [closing EXCEPT ![p] = FALSE]
  /\ UNCHANGED <<mounted, timer, socket, link>>

Opened(c) == link[c] = "dialing" /\ Linked(c, "open") /\ UNCHANGED pageVars

(* The server's session of c has ended. *)
Ended(c) ==
  /\ link[c] \in {"open", "left"}
  /\ Linked(c, IF link[c] = "left" THEN "free" ELSE "dropped")
  /\ UNCHANGED pageVars

(***************************************************************************)
(* A mounted page always has one way to its feed, a socket or a timer that *)
(* will open one, and never two; a page that was closed has none, whatever *)
(* fires late, and no socket is left without its page (ws.ts:113, 126).    *)
(***************************************************************************)
OneWayPerPage ==
  /\ \A p \in Pages :
       /\ mounted[p] => (timer[p] <=> socket[p] = NoConn)
       /\ ~mounted[p] => ~timer[p] /\ socket[p] = NoConn
  /\ \A c \in Conns :
       link[c] \in {"dialing", "open", "dropped"} =>
         \E p \in Pages : socket[p] = c /\ \A q \in Pages \ {p} : socket[q] # c

=============================================================================
