---------------------------- MODULE DualConsumer ----------------------------
(***************************************************************************)
(* RunDual of internal/volume/processor.go: one goroutine that selects     *)
(* over the events and errors of the PumpDev and the RPC client, and runs  *)
(* ProcessEvent on every event.  A closed errors channel is set to nil and *)
(* never selected again; a closed events channel is not, and is ready      *)
(* every time.  An error on its channel changes nothing and is left out.   *)
(* What ProcessEvent does is in SpikeProcessor.                            *)
(***************************************************************************)
EXTENDS StreamClients

ASSUME TwoSources == Sources = {"pump", "rpc"}

VARIABLES dual,       \* "select", "process" or "ended"
          errsNil,    \* sources whose errors channel has been set to nil
          open        \* pumpOpen and rpcOpen, the sources not known to be over

dualVars == <<dual, errsNil, open>>
vars == <<streamVars, dualVars>>

TypeOK ==
  /\ StreamsTypeOK
  /\ dual \in {"select", "process", "ended"}
  /\ errsNil \in SUBSET Sources
  /\ open \in SUBSET Sources

Init ==
  /\ StreamsInit
  /\ dual = "select"
  /\ errsNil = {}
  /\ open = Sources

DualCancelled ==
  /\ dual = "select" /\ cancelled
  /\ dual' = "ended"
  /\ UNCHANGED <<streamVars, errsNil, open>>

FindsErrsClosed(s) ==
  /\ dual = "select"
  /\ s \notin errsNil /\ client[s] \in {"errsClosed", "ended"}
  /\ errsNil' = errsNil \cup {s}
  /\ open' = open \ {s}
  /\ UNCHANGED <<streamVars, dual>>

(* A faulty RunDual that returns with the first source. *)
ReturnsWithFirst(s) ==
  /\ dual = "select" /\ Ended(s)
  /\ open' = open \ {s}
  /\ dual' = "ended"
  /\ UNCHANGED <<streamVars, errsNil>>

(* The events channel is closed: the end of RunDual only if the other      *)
(* source is over too, and nothing new from the second time on.            *)
FindsEventsClosed(s) ==
  /\ dual = "select" /\ Ended(s)
  /\ open' = open \ {s}
  /\ dual' = IF open' = {} THEN "ended" ELSE "select"
  /\ UNCHANGED <<streamVars, errsNil>>

Receives(s) ==
  /\ dual = "select"
  /\ Taken(s)
  /\ dual' = "process"
  /\ UNCHANGED <<errsNil, open>>

(* ProcessEvent has returned: the test at the end of the loop. *)
Processed ==
  /\ dual = "process"
  /\ dual' = IF open = {} THEN "ended" ELSE "select"
  /\ UNCHANGED <<streamVars, errsNil, open>>

Alone(step) == step /\ UNCHANGED dualVars

ClientStep(s) ==
  Alone(ClientRuns(s)) \/ Alone(EventArrives(s)) \/ Alone(LineBreaks(s))

DualStep ==
  \/ DualCancelled
  \/ \E s \in Sources :
       FindsErrsClosed(s) \/ FindsEventsClosed(s) \/ Receives(s)
  \/ Processed

Next ==
  \/ \E s \in Sources : ClientStep(s)
  \/ DualStep
  \/ Alone(Cancel)

(* The goroutines run, and the select is fair between ready cases.  A live *)
(* endpoint accepts a dial in the end, and stays up for a subscription and *)
(* its answer.  The program is not bound to be cancelled.                  *)
Spec ==
  /\ Init /\ [][Next]_vars
  /\ \A s \in Sources :
       /\ WF_vars(Alone(ClientRuns(s)))
       /\ SF_vars(Alone(DialSucceeds(s)))
       /\ SF_vars(Alone(Subscribes(s)))
       /\ SF_vars(Alone(Answered(s)))
  /\ SF_vars(DualCancelled)
  /\ WF_vars(Processed)

-----------------------------------------------------------------------------
(* Properties.                                                             *)

(***************************************************************************)
(* RunDual goes on until the program is cancelled: a PumpDev client that   *)
(* was never configured, and whose channels are closed from the start,     *)
(* does not end it for the other source (processor.go:115).                *)
(***************************************************************************)
OutlivesItsSources == dual = "ended" => cancelled

(***************************************************************************)
(* A configured client is back on its stream after a failed dial,          *)
(* subscription or read, by way of another endpoint when one is dead,      *)
(* until the program is cancelled (tier_manager.go:76).  For endpoints     *)
(* that answer a subscription: see ChannelsClosedOnCancel.                 *)
(***************************************************************************)
StreamComesBack ==
  \A s \in Sources :
    s \in configured ~> (client[s] \in {"read", "deliver"} \/ cancelled)

(***************************************************************************)
(* A cancelled program ends: the clients, though one may be blocked on an  *)
(* event nobody takes any more, and RunDual, though a client may be        *)
(* blocked in a read until its deadline (pumpdev/client.go:171).  For      *)
(* endpoints that answer a subscription: see ChannelsClosedOnCancel.       *)
(***************************************************************************)
EverythingEnds ==
  cancelled ~> (dual = "ended" /\ \A s \in Sources : Ended(s))

(***************************************************************************)
(* ws_client.go:41: "The channels are closed when the context is canceled  *)
(* or a fatal error occurs."  An endpoint that takes the subscription and  *)
(* says nothing keeps them open for good.                                  *)
(***************************************************************************)
ChannelsClosedOnCancel == cancelled ~> Ended("rpc")

=============================================================================
