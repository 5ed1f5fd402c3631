--------------------------- MODULE PriorityQueue ---------------------------
(***************************************************************************)
(* The lists of internal/ws/priority_queue.go as a value: a queue maps the *)
(* positions 1..6 to sequences of messages, in the order popNext searches  *)
(* them.  A message is what the hub was asked to send once to one client.  *)
(*                                                                         *)
(* RetryCount goes from 0 to 1 and never further, because the hub hands a  *)
(* refused message to RetryP1 once, so the MaxRetries test of RetryP1      *)
(* never drops one.                                                        *)
(***************************************************************************)
EXTENDS Integers, Sequences

CONSTANTS Messages,
          Priority,    \* the priority of each message, 1 (critical) to 4
          Personal,    \* the messages for one user
          RetryCap     \* capacity of the retry buffer, 0 for none

ASSUME PriorityInRange == Priority \in [Messages -> 1..4]
ASSUME PersonalMessages == Personal \subseteq Messages
ASSUME RetryCapNat == RetryCap \in Nat

Lists == 1..6
PersonalQ == 1
RetryBuffer == 2
QueueOf(p) == p + 2     \* qP1 to qP4

NewPriorityQueue == [i \in Lists |-> <<>>]

ListOf(m) == IF m \in Personal THEN PersonalQ ELSE QueueOf(Priority[m])

Enqueued(q, m) == [q EXCEPT ![ListOf(m)] = Append(@, m)]

(* A faulty RetryP1 that ignores the capacity. *)
RetriedUnbounded(q, m) == [q EXCEPT ![RetryBuffer] = Append(@, m)]

(* RetryP1: a full buffer loses its oldest message. *)
Retried(q, m) ==
  [q EXCEPT ![RetryBuffer] =
     IF RetryCap > 0 /\ Len(@) >= RetryCap THEN Append(Tail(@), m)
                                           ELSE Append(@, m)]

IsEmpty(q) == \A i \in Lists : q[i] = <<>>

(* A faulty popNext that serves the retry buffer before personal messages. *)
RetryBeforePersonal(q) ==
  IF q[RetryBuffer] # <<>> THEN RetryBuffer
  ELSE CHOOSE i \in Lists : q[i] # <<>> /\ \A j \in 1..(i - 1) : q[j] = <<>>

(* popNext: the list it takes from, if any holds a message. *)
NextList(q) ==
  CHOOSE i \in Lists : q[i] # <<>> /\ \A j \in 1..(i - 1) : q[j] = <<>>

NextMessage(q) == Head(q[NextList(q)])

Popped(q) == [q EXCEPT ![NextList(q)] = Tail(@)]

=============================================================================
