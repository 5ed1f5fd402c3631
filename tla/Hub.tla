-------------------------------- MODULE Hub ---------------------------------
(***************************************************************************)
(* The hub of internal/ws/hub.go: the registered clients, the two indexes  *)
(* between clients and users, the token bucket of each client, and whether *)
(* its queue is open.  What the queues hold is in WsSession.  AddClient,   *)
(* RemoveClient and Broadcast run under the hub's mutex and are one step;  *)
(* EnqueueForUser releases it between its reads, see SpikeRouting.         *)
(*                                                                         *)
(* A client's id is never used twice in the code.  Here the id of a client *)
(* that is gone, and that nobody refers to, stands for a new one.          *)
(***************************************************************************)
EXTENDS Integers, Accounts

CONSTANTS Clients,
          NoUser,      \* the user of a public client: no entry in the indexes
          RateLimit    \* RateLimitPerS

ASSUME HubAssumption == NoUser \notin Users /\ RateLimit \in Nat \ {0}

VARIABLES clients,      \* the ids registered
          clientUsers,  \* user of an id, NoUser when absent
          userClients,  \* ids of a user, {} when absent
          tokens,       \* what is left of each client's bucket
          openQueues    \* clients whose PriorityQueue is not closed

hubVars == <<clients, clientUsers, userClients, tokens, openQueues>>
indexVars == <<clients, clientUsers, userClients, openQueues>>

HubTypeOK ==
  /\ clients \in SUBSET Clients
  /\ clientUsers \in [Clients -> Users \cup {NoUser}]
  /\ userClients \in [Users -> SUBSET Clients]
  /\ tokens \in [Clients -> 0 .. RateLimit]
  /\ openQueues \in SUBSET Clients

NewHub ==
  /\ clients = {}
  /\ clientUsers = [c \in Clients |-> NoUser]
  /\ userClients = [u \in Users |-> {}]
  /\ tokens = [c \in Clients |-> RateLimit]
  /\ openQueues = {}

AddClientForUser(c, user) ==
  /\ clients' = clients \cup {c}
  /\ clientUsers' = [clientUsers EXCEPT ![c] = user]
  /\ userClients' =
       [u \in Users |-> userClients[u] \cup (IF u = user THEN {c} ELSE {})]
  /\ tokens' = [tokens EXCEPT ![c] = RateLimit]
  /\ openQueues' = openQueues \cup {c}

(* A faulty clean-up that looks the user up after forgetting it. *)
RemoveForgetsUserFirst(c) ==
  /\ c \in clients
  /\ openQueues' = openQueues \ {c}
  /\ clients' = clients \ {c}
  /\ clientUsers' = [clientUsers EXCEPT ![c] = NoUser]
  /\ userClients' =
       [u \in Users |->
          userClients[u] \ (IF u = clientUsers'[c] THEN {c} ELSE {})]
  /\ UNCHANGED tokens

RemoveClient(c) ==
  /\ c \in clients
  /\ openQueues' = openQueues \ {c}
  /\ clients' = clients \ {c}
  /\ clientUsers' = [clientUsers EXCEPT ![c] = NoUser]
  /\ userClients' =
       [u \in Users |->
          userClients[u] \ (IF u = clientUsers[c] THEN {c} ELSE {})]
  /\ UNCHANGED tokens

(* A second has passed for a client that sends again: a full bucket. *)
SecondPasses(c) ==
  /\ tokens[c] < RateLimit
  /\ tokens' = [tokens EXCEPT ![c] = RateLimit]
  /\ UNCHANGED indexVars

(* A faulty limit that does not look whether a token is left. *)
SpentBlindly(n) == n - 1

Spent(n) == IF n = 0 THEN 0 ELSE n - 1

AllowSend(c) == tokens[c] > 0

(* Broadcast: every registered client that is within its limit.  The       *)
(* messages have P2 or P3 and are not personal: over the limit they are    *)
(* dropped.                                                                *)
Broadcast ==
  /\ tokens' =
       [c \in Clients |-> IF c \in clients THEN Spent(tokens[c]) ELSE tokens[c]]
  /\ UNCHANGED indexVars

(***************************************************************************)
(* A client is in its user's set exactly while it is registered, and its   *)
(* queue is open exactly as long: messages for a user reach all of the     *)
(* user's clients and no others (hub.go:90).                               *)
(***************************************************************************)
HubIndexesAgree ==
  /\ openQueues = clients
  /\ \A u \in Users : userClients[u] = {c \in clients : clientUsers[c] = u}
  /\ \A c \in Clients \ clients : clientUsers[c] = NoUser

=============================================================================
