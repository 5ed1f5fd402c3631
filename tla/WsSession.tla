----------------------------- MODULE WsSession -----------------------------
(***************************************************************************)
(* One websocket session: serveWSClient of internal/ws/server.go with the  *)
(* PriorityQueue its client reads from.                                    *)
(*                                                                         *)
(*   - The writer loop selects between the end of its context, the         *)
(*     heartbeat ticker and Dequeue with a context of 3 seconds.           *)
(*   - Dequeue holds the queue's mutex from its test for a message to the  *)
(*     call of Wait; a helper goroutine turns the end of the context into  *)
(*     a Broadcast, and does so without the mutex.                         *)
(*   - The reader only waits for the connection to fail and then cancels   *)
(*     the context.                                                        *)
(*   - The hub's goroutines call Enqueue and RetryP1; which of the two is  *)
(*     up to the client's rate limit, here either (internal/ws/hub.go).    *)
(*                                                                         *)
(* Close is called only by RemoveClient, which the session defers: the     *)
(* writer never finds its own queue closed.  A helper that outlives its    *)
(* Dequeue could only wake a later Wait for nothing, and is left out.      *)
(***************************************************************************)
EXTENDS PriorityQueue

CONSTANT NoMessage

ASSUME NoMessageIsNone == NoMessage \notin Messages

VARIABLES queue,       \* the lists of the PriorityQueue
          registered,  \* the hub knows the client, its queue is open
          writer,      \* what the writer loop is doing
          inHand,      \* the message it has taken, or NoMessage
          expired,     \* the 3 seconds of the current Dequeue: "no", "over",
                       \* or "unheard", over between its test and its Wait
          helper,      \* the helper of the current Wait has yet to act
          ticked,      \* the heartbeat ticker has a tick
          cancelled,   \* the context of the session is cancelled
          peer,        \* "open", "closed" (the reader can see) or "vanished"
          arrival,     \* when each message was accepted, 0 before (history)
          count,       \* acceptances so far (history)
          written      \* messages written or lost with a write (history)

queueVars == <<queue, registered, arrival, count>>
loopVars == <<inHand, expired, helper, written>>
vars == <<queueVars, loopVars, writer, ticked, cancelled, peer>>

SessionTypeOK ==
  /\ queue \in [Lists -> Seq(Messages)]
  /\ RetryCap > 0 => Len(queue[RetryBuffer]) <= RetryCap
  /\ registered \in BOOLEAN
  /\ writer \in {"select", "dequeue", "checked", "waiting", "woken", "write",
                 "heartbeat", "leave", "gone"}
  /\ inHand \in Messages \cup {NoMessage}
  /\ expired \in {"no", "over", "unheard"}
  /\ helper \in BOOLEAN
  /\ ticked \in BOOLEAN
  /\ cancelled \in BOOLEAN
  /\ peer \in {"open", "closed", "vanished"}
  /\ arrival \in [Messages -> Nat]
  /\ count \in Nat
  /\ written \in SUBSET Messages

Init ==
  /\ queue = NewPriorityQueue
  /\ registered = TRUE
  /\ writer = "select"
  /\ inHand = NoMessage
  /\ expired = "no"
  /\ helper = FALSE
  /\ ticked = FALSE
  /\ cancelled = FALSE
  /\ peer = "open"
  /\ arrival = [m \in Messages |-> 0]
  /\ count = 0
  /\ written = {}

(* The context of the current Dequeue is done. *)
Done == cancelled \/ expired # "no"

(* The writer holds the mutex between its test and the call of Wait. *)
MutexFree == writer # "checked"

(* Signal or Broadcast: it reaches a writer that waits, and no other. *)
Signalled == writer' = IF writer = "waiting" THEN "woken" ELSE writer

-----------------------------------------------------------------------------
(* The hub's side.                                                         *)

Accepts(m, q) ==
  /\ registered
  /\ MutexFree
  /\ arrival[m] = 0
  /\ queue' = q
  /\ count' = count + 1
  /\ arrival' = [arrival EXCEPT ![m] = count']
  /\ UNCHANGED <<registered, loopVars, ticked, cancelled, peer>>

Enqueue(m) == Accepts(m, Enqueued(queue, m)) /\ Signalled

(* A faulty RetryP1 that wakes nobody. *)
RetryP1Silently(m) ==
  /\ m \in Personal \/ Priority[m] = 1
  /\ Accepts(m, Retried(queue, m))
  /\ UNCHANGED writer

(* Broadcast and EnqueueForClient hand RetryP1 only critical and personal  *)
(* messages; others are dropped when the client is over its limit.         *)
RetryP1(m) ==
  /\ m \in Personal \/ Priority[m] = 1
  /\ Accepts(m, Retried(queue, m))
  /\ Signalled

-----------------------------------------------------------------------------
(* The writer loop.                                                        *)

LoopGoesTo(step) ==
  /\ writer' = step
  /\ UNCHANGED <<queueVars, cancelled, peer>>

SelectsDone ==
  /\ writer = "select" /\ cancelled
  /\ LoopGoesTo("leave")
  /\ UNCHANGED <<loopVars, ticked>>

SelectsHeartbeat ==
  /\ writer = "select" /\ ticked
  /\ ticked' = FALSE
  /\ LoopGoesTo("heartbeat")
  /\ UNCHANGED loopVars

(* The default branch: neither of the other two is ready. *)
SelectsDequeue ==
  /\ writer = "select" /\ ~cancelled /\ ~ticked
  /\ expired' = "no"
  /\ LoopGoesTo("dequeue")
  /\ UNCHANGED <<inHand, helper, written, ticked>>

InDequeue == writer \in {"dequeue", "woken"}

FindsMessage ==
  /\ InDequeue /\ ~IsEmpty(queue)
  /\ queue' = Popped(queue)
  /\ inHand' = NextMessage(queue)
  /\ helper' = FALSE
  /\ writer' = "write"
  /\ UNCHANGED <<registered, arrival, count, expired, written, ticked,
                 cancelled, peer>>

FindsContextDone ==
  /\ InDequeue /\ IsEmpty(queue) /\ Done
  /\ helper' = FALSE
  /\ LoopGoesTo("select")
  /\ UNCHANGED <<inHand, expired, written, ticked>>

(* A faulty Dequeue that relies on messages alone to be woken. *)
FindsNothingAlone ==
  /\ InDequeue /\ IsEmpty(queue) /\ ~Done
  /\ helper' = FALSE
  /\ LoopGoesTo("checked")
  /\ UNCHANGED <<inHand, expired, written, ticked>>

(* Nothing to return: the helper of this turn is started. *)
FindsNothing ==
  /\ InDequeue /\ IsEmpty(queue) /\ ~Done
  /\ helper' = TRUE
  /\ LoopGoesTo("checked")
  /\ UNCHANGED <<inHand, expired, written, ticked>>

Waits ==
  /\ writer = "checked"
  /\ LoopGoesTo("waiting")
  /\ UNCHANGED <<loopVars, ticked>>

Writing == writer \in {"write", "heartbeat"}

(* A write may succeed locally when the peer has gone, closed or not. *)
WriteSucceeds ==
  /\ Writing
  /\ written' = written \cup ({inHand} \ {NoMessage})
  /\ inHand' = NoMessage
  /\ LoopGoesTo("select")
  /\ UNCHANGED <<expired, helper, ticked>>

(* A faulty session that goes on after a failed write. *)
FailedWriteIgnored ==
  /\ Writing
  /\ peer # "open"
  /\ written' = written \cup ({inHand} \ {NoMessage})
  /\ inHand' = NoMessage
  /\ LoopGoesTo("select")
  /\ UNCHANGED <<expired, helper, ticked>>

(* A peer that has gone fails a write in the end. *)
WriteFails ==
  /\ Writing
  /\ peer # "open"
  /\ written' = written \cup ({inHand} \ {NoMessage})
  /\ inHand' = NoMessage
  /\ LoopGoesTo("leave")
  /\ UNCHANGED <<expired, helper, ticked>>

(* The deferred cancel and RemoveClient, which closes the queue. *)
Leaves ==
  /\ writer = "leave"
  /\ writer' = "gone"
  /\ cancelled' = TRUE
  /\ registered' = FALSE
  /\ UNCHANGED <<queue, arrival, count, loopVars, ticked, peer>>

WriterStep ==
  \/ SelectsDone \/ SelectsHeartbeat \/ SelectsDequeue
  \/ FindsMessage \/ FindsContextDone \/ FindsNothing \/ Waits
  \/ WriteSucceeds \/ WriteFails \/ Leaves

-----------------------------------------------------------------------------
(* The helper, the timers, the reader and the network.                     *)

HelperBroadcasts ==
  /\ helper /\ Done
  /\ helper' = FALSE
  /\ Signalled
  /\ UNCHANGED <<queueVars, inHand, expired, written, ticked, cancelled, peer>>

(* The three seconds of a Dequeue are over wherever it stands, also when   *)
(* its goroutine has been stalled between its test and Wait.               *)
DequeueExpires ==
  /\ writer \in {"dequeue", "checked", "waiting", "woken"} /\ expired = "no"
  /\ expired' = IF writer = "checked" THEN "unheard" ELSE "over"
  /\ UNCHANGED <<queueVars, inHand, helper, written, writer, ticked, cancelled,
                 peer>>

HeartbeatTicks ==
  /\ ~ticked /\ registered
  /\ ticked' = TRUE
  /\ UNCHANGED <<queueVars, loopVars, writer, cancelled, peer>>

PeerGoes ==
  /\ peer = "open"
  /\ peer' \in {"closed", "vanished"}
  /\ UNCHANGED <<queueVars, loopVars, writer, ticked, cancelled>>

ReaderEnds ==
  /\ peer = "closed" /\ ~cancelled
  /\ cancelled' = TRUE
  /\ UNCHANGED <<queueVars, loopVars, writer, ticked, peer>>

Next ==
  \/ \E m \in Messages : Enqueue(m) \/ RetryP1(m)
  \/ WriterStep
  \/ HelperBroadcasts
  \/ DequeueExpires
  \/ HeartbeatTicks
  \/ PeerGoes
  \/ ReaderEnds

(* The ticker fires every 15 seconds, far slower than a turn of the loop:  *)
(* the loop does not send heartbeats and nothing else.                     *)
SlowTicker == []<><<SelectsHeartbeat>>_vars => []<><<SelectsDequeue>>_vars

(* The goroutines run and the timers fire; an open peer reads what it is   *)
(* sent, and writes to a peer that vanished do not succeed forever.  The   *)
(* select is fair between ready cases.  Nothing is assumed of messages, or *)
(* of whether the peer stays.                                              *)
Spec ==
  /\ Init /\ [][Next]_vars
  /\ WF_vars(WriterStep)
  /\ WF_vars(HelperBroadcasts)
  /\ WF_vars(DequeueExpires)
  /\ WF_vars(HeartbeatTicks)
  /\ WF_vars(ReaderEnds)
  /\ SF_vars(SelectsDone)
  /\ SlowTicker
  /\ SF_vars(WriteFails)

-----------------------------------------------------------------------------
(* Properties.                                                             *)

Waiting ==
  UNION {{[msg |-> queue[i][j], rank |-> i, no |-> arrival[queue[i][j]]] :
            j \in DOMAIN queue[i]} : i \in Lists}

Fifo == INSTANCE PriorityFifo WITH
          waiting <- Waiting, RetryRank <- RetryBuffer, Rank <- ListOf

(***************************************************************************)
(* The six lists are a priority queue: whatever mixture of Enqueue and     *)
(* RetryP1 filled them, the writer takes the earliest message of the best  *)
(* class, and only a full retry buffer loses one, its oldest               *)
(* (priority_queue.go:29, 109).                                            *)
(***************************************************************************)
ServesInOrder == Fifo!Spec

(***************************************************************************)
(* From its test for a message until it is woken, the writer has an empty  *)
(* queue: whoever puts one in finds the mutex held or the writer waiting,  *)
(* and signals (priority_queue.go:81, 113, 127).                           *)
(***************************************************************************)
NoWakeUpLost == writer \in {"checked", "waiting"} => IsEmpty(queue)

(***************************************************************************)
(* A writer that waits has a helper that has yet to act, so the time-out   *)
(* of its Dequeue will wake it.  Two things only can have used the helper  *)
(* up, between the test and Wait, where its Broadcast reaches nobody: a    *)
(* cancellation, and a stall as long as the time-out                       *)
(* (priority_queue.go:127, 132).                                           *)
(***************************************************************************)
OnlyEarlyEndLosesHelper ==
  writer = "waiting" /\ ~helper => cancelled \/ expired = "unheard"

(* The one way not to come back from Dequeue: its time-out went unheard. *)
AsleepForGood == [](writer = "waiting" /\ expired = "unheard")

(***************************************************************************)
(* A message accepted for a registered client is written, unless the       *)
(* session ends or the retry buffer has displaced it: no order of          *)
(* signalling, waiting, time-out and cancellation leaves the writer asleep *)
(* on a queue that is not empty (priority_queue.go:81, 113, 139).          *)
(***************************************************************************)
NobodySleepsOnMessages ==
  \A m \in Messages :
    arrival[m] > 0 ~>
      \/ m \in written
      \/ ~registered
      \/ \A i \in Lists : \A j \in DOMAIN queue[i] : queue[i][j] # m

(***************************************************************************)
(* Heartbeats go on while the session is not cancelled, quiet stream or    *)
(* busy: Dequeue gives the loop its turn back (server.go:113, 123) unless  *)
(* its time-out went unheard and no message follows.                       *)
(***************************************************************************)
HeartbeatsGoOn == ticked ~> (~ticked \/ cancelled \/ AsleepForGood)

(***************************************************************************)
(* A peer that vanishes without closing its connection, which the reader   *)
(* never notices because it has no deadline, is found by a heartbeat and   *)
(* removed from the hub (server.go:94, 119), unless the writer is asleep   *)
(* for good and sends none.                                                *)
(***************************************************************************)
VanishedPeerIsRemoved == peer = "vanished" ~> (~registered \/ AsleepForGood)

(***************************************************************************)
(* Memory.md:203: "graceful cleanup on disconnect": a session whose peer   *)
(* closed the connection is removed, stalls as long as a time-out aside.   *)
(* The helper's Broadcast holds no mutex (priority_queue.go:135), and that *)
(* of a cancellation is lost between the writer's test and its Wait.       *)
(***************************************************************************)
ClosedPeerIsRemoved == peer = "closed" ~> (~registered \/ AsleepForGood)

=============================================================================
