------------------------- MODULE DualConsumerProofs -------------------------
(***************************************************************************)
(* Proofs about the upstream clients and RunDual, for any lists of         *)
(* endpoints, dead or mute: the types, with the rotation inside the list,  *)
(* and that RunDual goes on until the program is cancelled.                *)
(***************************************************************************)
EXTENDS DualConsumer, TLAPS

RotationType == wsRR \in [Sources -> Nat]

(* What may change in a step of one client. *)
Moved(s) ==
  /\ \E to \in ClientSteps : client' = [client EXCEPT ![s] = to]
  /\ \E how \in {"none", "up", "reset", "silent"} :
       line' = line \/ line' = [line EXCEPT ![s] = how]
  /\ wsRR' = wsRR \/ NextEndpoint(s)
  /\ UNCHANGED <<configured, cancelled>>

(* The next endpoint is one of the list. *)
LEMMA NextInRange ==
  ASSUME NEW n \in Nat \ {0}, NEW i \in 0 .. n - 1
  PROVE  (i + 1) % n \in 0 .. n - 1
OBVIOUS

(* A step of a client's goroutine moves that client. *)
LEMMA ClientMoves ==
  ASSUME NEW s \in Sources,
         ClientRuns(s) \/ EventArrives(s) \/ Taken(s)
  PROVE  Moved(s)
<1> USE DEF Moved, ClientSteps, Goes, Hangs, Proceeds, Dials
<1>1. ASSUME DialFails(s) PROVE Moved(s)
  BY <1>1 DEF DialFails
<1>2. ASSUME DialSucceeds(s) PROVE Moved(s)
  BY <1>2 DEF DialSucceeds
<1>3. ASSUME RetryTimerFires(s) \/ SeesCancel(s) PROVE Moved(s)
  BY <1>3 DEF RetryTimerFires, SeesCancel
<1>4. ASSUME Subscribes(s) PROVE Moved(s)
  BY <1>4 DEF Subscribes, AfterSubscribing
<1>5. ASSUME SubscribeFails(s) PROVE Moved(s)
  BY <1>5 DEF SubscribeFails
<1>6. ASSUME Answered(s) \/ AnswerFails(s) PROVE Moved(s)
  BY <1>6 DEF Answered, AnswerFails
<1>7. ASSUME ReadFails(s) \/ OfferGivenUp(s) PROVE Moved(s)
  BY <1>7 DEF ReadFails, OfferGivenUp
<1>8. ASSUME ClosesErrs(s) \/ ClosesEvents(s) PROVE Moved(s)
  BY <1>8 DEF ClosesErrs, ClosesEvents
<1>9. ASSUME EventArrives(s) \/ Taken(s) PROVE Moved(s)
  BY <1>9 DEF EventArrives, Taken
<1>10. QED
  BY <1>1, <1>2, <1>3, <1>4, <1>5, <1>6, <1>7, <1>8, <1>9 DEF ClientRuns

(* A client that moves keeps the types, and the rotation its range. *)
LEMMA MovedKeepsTypes ==
  ASSUME StreamsTypeOK, RotationType, NEW s \in Sources, Moved(s)
  PROVE  StreamsTypeOK' /\ RotationType'
<1>1. client' \in [Sources -> ClientSteps]
  BY DEF StreamsTypeOK, Moved
<1>2. line' \in [Sources -> {"none", "up", "reset", "silent"}]
  BY DEF StreamsTypeOK, Moved
<1>3. /\ RotationType'
      /\ \A r \in Sources : wsRR'[r] \in 0 .. Len(Endpoints[r]) - 1
  <2>1. CASE wsRR' = wsRR
    BY <2>1 DEF StreamsTypeOK, RotationType
  <2>2. CASE NextEndpoint(s)
    <3>1. /\ Len(Endpoints[s]) \in Nat \ {0}
          /\ wsRR[s] \in 0 .. Len(Endpoints[s]) - 1
      <4>1. wsRR[s] \in 0 .. Len(Endpoints[s]) - 1 /\ Len(Endpoints[s]) > 0
        BY StreamsAssumption DEF StreamsTypeOK
      <4>2. Len(Endpoints[s]) \in Nat
        BY StreamsAssumption
      <4>3. QED BY <4>1, <4>2
    <3>2. (wsRR[s] + 1) % Len(Endpoints[s]) \in 0 .. Len(Endpoints[s]) - 1
      BY <3>1, NextInRange
    <3>3. QED BY <2>2, <3>1, <3>2 DEF NextEndpoint, StreamsTypeOK, RotationType
  <2>3. QED BY <2>1, <2>2 DEF Moved
<1>4. QED BY <1>1, <1>2, <1>3 DEF StreamsTypeOK, Moved

-----------------------------------------------------------------------------
(* Types.                                                                  *)

TypeInv == TypeOK /\ RotationType

(* A step of Next in terms of the client it moves. *)
LEMMA StepMoves ==
  ASSUME [Next]_vars
  PROVE  \/ \E s \in Sources : Moved(s)
         \/ UNCHANGED <<configured, cancelled, client, line, wsRR>>
         \/ \E s \in Sources : LineBreaks(s)
         \/ Cancel
<1>1. ASSUME NEW s \in Sources, ClientStep(s)
      PROVE  Moved(s) \/ LineBreaks(s)
  BY <1>1, ClientMoves DEF ClientStep, Alone
<1>2. ASSUME DualStep
      PROVE  \/ \E s \in Sources : Moved(s)
             \/ UNCHANGED <<configured, cancelled, client, line, wsRR>>
  <2>1. ASSUME NEW s \in Sources, Receives(s)
        PROVE  Moved(s)
    BY <2>1, ClientMoves DEF Receives
  <2>2. CASE \E s \in Sources : FindsErrsClosed(s) \/ FindsEventsClosed(s)
    BY <2>2 DEF FindsErrsClosed, FindsEventsClosed, streamVars
  <2>3. CASE DualCancelled \/ Processed
    BY <2>3 DEF DualCancelled, Processed, streamVars
  <2>4. QED BY <1>2, <2>1, <2>2, <2>3 DEF DualStep
<1>3. QED BY <1>1, <1>2 DEF Next, Alone, vars, streamVars

LEMMA TypeInit ==
  ASSUME Init
  PROVE  TypeInv
<1>1. client \in [Sources -> ClientSteps]
  BY DEF Init, StreamsInit, ClientSteps
<1>2. line \in [Sources -> {"none", "up", "reset", "silent"}]
  BY DEF Init, StreamsInit
<1>3. wsRR \in [Sources -> Nat] /\ \A s \in Sources : wsRR[s] = 0
  BY DEF Init, StreamsInit
<1>4. ASSUME NEW s \in Sources
      PROVE  wsRR[s] \in 0 .. Len(Endpoints[s]) - 1
  <2>1. wsRR[s] = 0
    BY <1>3
  <2>2. Len(Endpoints[s]) \in Nat \ {0}
    BY StreamsAssumption
  <2>3. QED BY <2>1, <2>2
<1>5. configured \in SUBSET Sources /\ cancelled \in BOOLEAN
  BY DEF Init, StreamsInit
<1>6. StreamsTypeOK /\ RotationType
  BY <1>1, <1>2, <1>3, <1>4, <1>5 DEF StreamsTypeOK, RotationType
<1>7. QED BY <1>6 DEF Init, TypeInv, TypeOK

LEMMA TypeStep ==
  ASSUME TypeInv, [Next]_vars
  PROVE  TypeInv'
<1>1. StreamsTypeOK' /\ RotationType'
  <2>1. CASE \E s \in Sources : Moved(s)
    BY <2>1, MovedKeepsTypes DEF TypeInv, TypeOK
  <2>2. CASE UNCHANGED <<configured, cancelled, client, line, wsRR>>
    BY <2>2 DEF TypeInv, TypeOK, StreamsTypeOK, RotationType
  <2>3. CASE \E s \in Sources : LineBreaks(s)
    BY <2>3 DEF TypeInv, TypeOK, StreamsTypeOK, RotationType, LineBreaks
  <2>4. CASE Cancel
    BY <2>4 DEF TypeInv, TypeOK, StreamsTypeOK, RotationType, Cancel
  <2>5. QED BY <2>1, <2>2, <2>3, <2>4, StepMoves
<1>2. /\ dual' \in {"select", "process", "ended"}
      /\ errsNil' \in SUBSET Sources
      /\ open' \in SUBSET Sources
  <2> USE DEF TypeInv, TypeOK
  <2>1. CASE \E s \in Sources : ClientStep(s)
    BY <2>1 DEF ClientStep, Alone, dualVars
  <2>2. CASE \E s \in Sources : FindsErrsClosed(s) \/ FindsEventsClosed(s)
    BY <2>2 DEF FindsErrsClosed, FindsEventsClosed
  <2>3. CASE \E s \in Sources : Receives(s)
    BY <2>3 DEF Receives
  <2>4. CASE DualCancelled \/ Processed
    BY <2>4 DEF DualCancelled, Processed
  <2>5. CASE Alone(Cancel)
    BY <2>5 DEF Alone, dualVars
  <2>6. CASE UNCHANGED vars
    BY <2>6 DEF vars, dualVars
  <2>7. QED
    BY <2>1, <2>2, <2>3, <2>4, <2>5, <2>6 DEF Next, DualStep
<1>3. QED BY <1>1, <1>2 DEF TypeInv, TypeOK

(* The clients and RunDual keep their types, and the tier manager's next   *)
(* endpoint is one of its list (tier_manager.go:84).                       *)
THEOREM ConsumerTypeCorrect == Spec => []TypeOK
<1>1. Init => TypeInv
  BY TypeInit
<1>2. TypeInv => TypeOK
  BY DEF TypeInv
<1>3. QED BY TypeStep, <1>1, <1>2, PTL DEF Spec

-----------------------------------------------------------------------------
(* RunDual.                                                                *)

(* Until the program is cancelled the RPC client is in its loop, and       *)
(* RunDual counts it as open.                                              *)
RpcLives ==
  /\ "rpc" \in configured
  /\ ~cancelled =>
       /\ client["rpc"] \notin {"return", "errsClosed", "ended"}
       /\ "rpc" \in open
       /\ dual # "ended"

(* A client in its loop stays there while the program is not cancelled. *)
LEMMA ClientStays ==
  ASSUME NEW s \in Sources, client \in [Sources -> ClientSteps],
         ClientRuns(s) \/ EventArrives(s) \/ Taken(s),
         ~cancelled,
         client["rpc"] \notin {"return", "errsClosed", "ended"},
         "rpc" \in Sources
  PROVE  client'["rpc"] \notin {"return", "errsClosed", "ended"}
<1>1. CASE s # "rpc"
  BY <1>1, ClientMoves DEF Moved
<1>2. CASE s = "rpc"
  BY <1>2 DEF ClientRuns, DialFails, DialSucceeds, RetryTimerFires, SeesCancel,
              Subscribes, SubscribeFails, Answered, AnswerFails, ReadFails,
              OfferGivenUp, ClosesErrs, ClosesEvents, EventArrives, Taken,
              Proceeds, Hangs, Goes, Dials, AfterSubscribing
<1>3. QED BY <1>1, <1>2

LEMMA RpcLivesStep ==
  ASSUME TypeInv, RpcLives, [Next]_vars
  PROVE  RpcLives'
<1>1. "rpc" \in Sources /\ client \in [Sources -> ClientSteps]
  BY TwoSources DEF TypeInv, TypeOK, StreamsTypeOK
<1>2. ASSUME NEW s \in Sources, ClientStep(s)
      PROVE  RpcLives'
  <2>1. CASE Alone(LineBreaks(s))
    BY <2>1 DEF Alone, LineBreaks, RpcLives, dualVars
  <2>2. CASE Alone(ClientRuns(s)) \/ Alone(EventArrives(s))
    <3>1. UNCHANGED <<configured, cancelled, dual, open>>
      BY <2>2, ClientMoves DEF Alone, Moved, dualVars
    <3>2. ~cancelled => client'["rpc"] \notin {"return", "errsClosed", "ended"}
      BY <1>1, <2>2, ClientStays DEF Alone, RpcLives
    <3>3. QED BY <3>1, <3>2 DEF RpcLives
  <2>3. QED BY <1>2, <2>1, <2>2 DEF ClientStep
<1>3. ASSUME NEW s \in Sources, FindsErrsClosed(s)
      PROVE  RpcLives'
  BY <1>3 DEF FindsErrsClosed, RpcLives, streamVars
<1>4. ASSUME NEW s \in Sources, FindsEventsClosed(s)
      PROVE  RpcLives'
  BY <1>4 DEF FindsEventsClosed, Ended, RpcLives, streamVars
<1>5. ASSUME NEW s \in Sources, Receives(s)
      PROVE  RpcLives'
  <2>1. UNCHANGED <<configured, cancelled, open>> /\ dual' = "process"
    BY <1>5, ClientMoves DEF Receives, Moved
  <2>2. ~cancelled => client'["rpc"] \notin {"return", "errsClosed", "ended"}
    BY <1>1, <1>5, ClientStays DEF Receives, RpcLives
  <2>3. QED BY <2>1, <2>2 DEF RpcLives
<1>6. CASE DualCancelled \/ Processed
  BY <1>6 DEF DualCancelled, Processed, RpcLives, streamVars
<1>7. CASE Alone(Cancel)
  BY <1>7 DEF Alone, Cancel, RpcLives
<1>8. CASE UNCHANGED vars
  BY <1>8 DEF vars, streamVars, dualVars, RpcLives
<1>9. QED
  BY <1>2, <1>3, <1>4, <1>5, <1>6, <1>7, <1>8 DEF Next, DualStep

(* RunDual does not end with one of its sources (processor.go:115). *)
THEOREM ConsumerOutlivesSources == Spec => []OutlivesItsSources
<1>1. Init => TypeInv
  BY TypeInit
<1>2. Init => RpcLives
  BY TwoSources DEF Init, StreamsInit, RpcLives
<1>3. RpcLives => OutlivesItsSources
  BY DEF RpcLives, OutlivesItsSources
<1>4. QED BY TypeStep, RpcLivesStep, <1>1, <1>2, <1>3, PTL DEF Spec

=============================================================================
