--------------------------- MODULE StreamClients ----------------------------
(***************************************************************************)
(* The goroutines that keep a websocket to an upstream service and hand    *)
(* its events over: Connect and consume of internal/pumpdev/client.go      *)
(* ("pump"), internal/rpc/ws_client.go ("rpc") and                         *)
(* internal/pumpportal/client.go ("portal").  One loop, with these         *)
(* differences: pump goes on when its subscription fails, the others       *)
(* reconnect; rpc reads an answer to its subscription, without a deadline; *)
(* rpc takes the next endpoint of its tier for every dial, and has a dial  *)
(* in progress cut short by the context.                                   *)
(*                                                                         *)
(* The events channel is unbuffered: "deliver" is a goroutine with an      *)
(* event on offer.  Errors go to a buffered channel that drops what does   *)
(* not fit, so they never hold the loop up and are left out, as are the    *)
(* lengths of the retry delays and the decoding of messages.  A message    *)
(* with several events is read as several messages.  The placeholder in    *)
(* the RPC client that decodes logs finds no event in any message yet; it  *)
(* may here.                                                               *)
(***************************************************************************)
EXTENDS Integers, Sequences

CONSTANTS Sources,    \* a subset of {"pump", "rpc", "portal"}
          Endpoints,  \* the urls of each source, in order
          Dead,       \* urls at which every dial fails
          Mute        \* whether an RPC endpoint may leave a subscription
                      \* unanswered without closing the connection

ASSUME StreamsAssumption ==
  /\ Sources \subseteq {"pump", "rpc", "portal"}
  /\ DOMAIN Endpoints = Sources
  /\ \A s \in Sources : Len(Endpoints[s]) \in Nat \ {0}
  /\ \A s \in Sources \ {"rpc"} : Len(Endpoints[s]) = 1
  /\ Mute \in BOOLEAN

VARIABLES configured,  \* sources that have a url (and a key)
          cancelled,   \* the context of the program is cancelled
          client,      \* where the goroutine of each source is
          line,        \* its connection: "none", "up", "reset" or "silent"
          wsRR         \* the tier manager's next endpoint

streamVars == <<configured, cancelled, client, line, wsRR>>

ClientSteps == {"dial", "retry", "subscribe", "answer", "read", "deliver",
                "return", "errsClosed", "ended"}

StreamsTypeOK ==
  /\ configured \in SUBSET Sources
  /\ cancelled \in BOOLEAN
  /\ client \in [Sources -> ClientSteps]
  /\ line \in [Sources -> {"none", "up", "reset", "silent"}]
  /\ \A s \in Sources : wsRR[s] \in 0 .. Len(Endpoints[s]) - 1

(* Nobody has to configure PumpDev or PumpPortal; the RPC tier is checked  *)
(* at start-up.                                                            *)
StreamsInit ==
  /\ configured \in SUBSET Sources
  /\ "rpc" \in Sources => "rpc" \in configured
  /\ cancelled = FALSE
  /\ client = [s \in Sources |-> IF s \in configured THEN "dial" ELSE "return"]
  /\ line = [s \in Sources |-> "none"]
  /\ wsRR = [s \in Sources |-> 0]

Goes(s, to) == client' = [client EXCEPT ![s] = to]

Hangs(s, to) ==
  /\ Goes(s, to)
  /\ line' = [line EXCEPT ![s] = "none"]
  /\ UNCHANGED <<configured, cancelled, wsRR>>

Proceeds(s, from, to) ==
  /\ client[s] = from
  /\ Goes(s, to)
  /\ UNCHANGED <<configured, cancelled, line, wsRR>>

-----------------------------------------------------------------------------
(* Dialling.                                                               *)

(* A faulty rotation that stays at the first endpoint. *)
SameEndpoint(s) == wsRR' = wsRR

(* A faulty rotation that counts on past the last endpoint. *)
EndpointAfter(s) == wsRR' = [wsRR EXCEPT ![s] = @ + 1]

(* NextWS: round robin over the endpoints of the tier. *)
NextEndpoint(s) ==
  wsRR' = [wsRR EXCEPT ![s] = (@ + 1) % Len(Endpoints[s])]

Url(s) == Endpoints[s][wsRR[s] + 1]

Dials(s) ==
  /\ client[s] = "dial" /\ ~cancelled
  /\ NextEndpoint(s)
  /\ UNCHANGED <<configured, cancelled>>

DialFails(s) ==
  /\ Dials(s)
  /\ Goes(s, "retry")
  /\ UNCHANGED line

DialSucceeds(s) ==
  /\ Dials(s)
  /\ Url(s) \notin Dead
  /\ Goes(s, "subscribe")
  /\ line' = [line EXCEPT ![s] = "up"]

RetryTimerFires(s) == ~cancelled /\ Proceeds(s, "retry", "dial")

(* The test at the head of the loop, and the select of waitRetry. *)
SeesCancel(s) ==
  /\ cancelled
  /\ Proceeds(s, "dial", "return") \/ Proceeds(s, "retry", "return")

-----------------------------------------------------------------------------
(* Subscribing.                                                            *)

AfterSubscribing(s) == IF s = "rpc" THEN "answer" ELSE "read"

Subscribes(s) ==
  /\ line[s] # "reset"
  /\ Proceeds(s, "subscribe", AfterSubscribing(s))

SubscribeFails(s) ==
  /\ client[s] = "subscribe"
  /\ line[s] # "up"
  /\ IF s = "pump"
     THEN Goes(s, "read") /\ UNCHANGED <<configured, cancelled, line, wsRR>>
     ELSE Hangs(s, "retry")

Answered(s) == line[s] = "up" /\ Proceeds(s, "answer", "read")

(* The answer carries no id, or the connection fails visibly. *)
AnswerFails(s) ==
  /\ client[s] = "answer"
  /\ line[s] # "silent"
  /\ Hangs(s, "retry")

-----------------------------------------------------------------------------
(* consume.                                                                *)

EventArrives(s) == line[s] = "up" /\ Proceeds(s, "read", "deliver")

(* The read fails: visibly, or at its deadline.  Pings keep the deadline   *)
(* away while the peer answers and the context lives.                      *)
ReadFails(s) ==
  /\ client[s] = "read"
  /\ line[s] # "up" \/ cancelled
  /\ Hangs(s, "retry")

(* A faulty consume that sends without looking at the context. *)
OfferStands(s) == FALSE

(* The select around the event on offer sees the context. *)
OfferGivenUp(s) ==
  /\ client[s] = "deliver" /\ cancelled
  /\ Hangs(s, "retry")

(* The deferred calls: errs is closed before events. *)
ClosesErrs(s) == Proceeds(s, "return", "errsClosed")
ClosesEvents(s) == Proceeds(s, "errsClosed", "ended")

(* The consumer of s receives the event on offer. *)
Taken(s) == Proceeds(s, "deliver", "read")

-----------------------------------------------------------------------------
(* The network and the end of the program.                                 *)

LineBreaks(s) ==
  /\ line[s] = "up"
  /\ \E how \in {"reset", "silent"} :
       /\ how = "silent" => Mute \/ client[s] \in {"read", "deliver"}
       /\ line' = [line EXCEPT ![s] = how]
  /\ UNCHANGED <<configured, cancelled, client, wsRR>>

(* SIGINT or SIGTERM. *)
Cancel ==
  /\ ~cancelled
  /\ cancelled' = TRUE
  /\ UNCHANGED <<configured, client, line, wsRR>>

(* What the goroutine of s does by itself, whatever the network does. *)
ClientRuns(s) ==
  \/ DialFails(s) \/ DialSucceeds(s) \/ RetryTimerFires(s) \/ SeesCancel(s)
  \/ Subscribes(s) \/ SubscribeFails(s) \/ Answered(s) \/ AnswerFails(s)
  \/ ReadFails(s) \/ OfferGivenUp(s) \/ ClosesErrs(s) \/ ClosesEvents(s)

Ended(s) == client[s] = "ended"

=============================================================================
