-------------------------- MODULE WsSessionProofs --------------------------
(***************************************************************************)
(* Proofs about a websocket session and its queue, for any messages, any   *)
(* priorities and any size of the retry buffer: the types, what a sleeping *)
(* writer may rely on, and that the six lists implement a priority queue.  *)
(***************************************************************************)
EXTENDS WsSession, FiniteSetTheorems, TLAPS

-----------------------------------------------------------------------------
(* The lists.                                                              *)

Queues == [Lists -> Seq(Messages)]

(* A message has a list of its own. *)
LEMMA ListOfMessage ==
  ASSUME NEW m \in Messages
  PROVE  ListOf(m) \in Lists
BY PriorityInRange DEF ListOf, PersonalQ, QueueOf, Lists

(* One list of a queue that is not empty is the first with a message. *)
LEMMA FirstList ==
  ASSUME NEW q \in Queues, ~IsEmpty(q)
  PROVE  /\ NextList(q) \in Lists
         /\ q[NextList(q)] # <<>>
         /\ \A j \in Lists : j < NextList(q) => q[j] = <<>>
<1> DEFINE First(i) == q[i] # <<>> /\ \A j \in 1 .. (i - 1) : q[j] = <<>>
<1>1. \E i \in Lists : q[i] # <<>>
  BY DEF IsEmpty
<1>2. \E i \in Lists : First(i)
  <2>1. CASE First(1) \/ First(2) \/ First(3)
    BY <2>1 DEF Lists
  <2>2. CASE ~(First(1) \/ First(2) \/ First(3))
    <3>1. q[1] = <<>> /\ q[2] = <<>> /\ q[3] = <<>>
      BY <2>2
    <3>2. First(4) \/ First(5) \/ First(6)
      BY <1>1, <3>1 DEF Lists
    <3>3. QED BY <3>2 DEF Lists
  <2>3. QED BY <2>1, <2>2
<1>3. NextList(q) \in Lists /\ First(NextList(q))
  BY <1>2 DEF NextList
<1>4. \A j \in Lists : j < NextList(q) => j \in 1 .. (NextList(q) - 1)
  BY <1>3 DEF Lists
<1>5. QED BY <1>3, <1>4

(* A list after its operations. *)
LEMMA Appending ==
  ASSUME NEW list \in Seq(Messages), NEW m \in Messages
  PROVE  /\ Append(list, m) \in Seq(Messages)
         /\ DOMAIN Append(list, m) = DOMAIN list \cup {Len(list) + 1}
         /\ Len(list) + 1 \notin DOMAIN list
         /\ \A j \in DOMAIN list : j <= Len(list) /\ Append(list, m)[j] = list[j]
         /\ Append(list, m)[Len(list) + 1] = m
OBVIOUS

LEMMA Shortening ==
  ASSUME NEW list \in Seq(Messages), list # <<>>
  PROVE  /\ Tail(list) \in Seq(Messages)
         /\ 1 \in DOMAIN list /\ Head(list) = list[1] /\ Head(list) \in Messages
         /\ DOMAIN list \subseteq Nat \ {0}
         /\ Len(Tail(list)) = Len(list) - 1 /\ Len(list) \in Nat
         /\ \A j \in DOMAIN list \ {1} : j - 1 \in DOMAIN Tail(list)
         /\ \A j \in DOMAIN Tail(list) :
              j \in Nat /\ j + 1 \in DOMAIN list \ {1} /\ Tail(list)[j] = list[j + 1]
OBVIOUS

-----------------------------------------------------------------------------
(* Types.                                                                  *)

LEMMA EnqueuedType ==
  ASSUME NEW q \in Queues, NEW m \in Messages
  PROVE  Enqueued(q, m) \in Queues
BY ListOfMessage, Appending DEF Enqueued, Queues

LEMMA RetriedType ==
  ASSUME NEW q \in Queues, NEW m \in Messages
  PROVE  Retried(q, m) \in Queues
<1>1. q[RetryBuffer] \in Seq(Messages)
  BY DEF Queues, RetryBuffer, Lists
<1>2. RetryCap > 0 /\ Len(q[RetryBuffer]) >= RetryCap => q[RetryBuffer] # <<>>
  BY RetryCapNat
<1>3. QED BY <1>1, <1>2, Appending, Shortening DEF Retried, Queues

LEMMA PoppedType ==
  ASSUME NEW q \in Queues, ~IsEmpty(q)
  PROVE  Popped(q) \in Queues /\ NextMessage(q) \in Messages
BY FirstList, Shortening DEF Popped, NextMessage, Queues

(* RetryP1 keeps to the capacity, the other operations do not touch it. *)
WithinCap(q) == RetryCap > 0 => Len(q[RetryBuffer]) <= RetryCap

LEMMA CapKept ==
  ASSUME NEW q \in Queues, WithinCap(q)
  PROVE  /\ \A m \in Messages : WithinCap(Enqueued(q, m)) /\ WithinCap(Retried(q, m))
         /\ ~IsEmpty(q) => WithinCap(Popped(q))
<1>1. q[RetryBuffer] \in Seq(Messages) /\ RetryBuffer \in Lists
  BY DEF Queues, RetryBuffer, Lists
<1>2. ASSUME NEW m \in Messages PROVE WithinCap(Enqueued(q, m))
  <2>1. ListOf(m) # RetryBuffer
    BY PriorityInRange DEF ListOf, PersonalQ, QueueOf, RetryBuffer
  <2>2. QED BY <2>1 DEF Enqueued, WithinCap, Queues
<1>3. ASSUME NEW m \in Messages PROVE WithinCap(Retried(q, m))
  <2>1. CASE RetryCap > 0 /\ Len(q[RetryBuffer]) >= RetryCap
    <3>1. q[RetryBuffer] # <<>>
      BY <1>1, <2>1, RetryCapNat
    <3>2. Len(Append(Tail(q[RetryBuffer]), m)) = Len(q[RetryBuffer])
      BY <1>1, <3>1
    <3>3. QED BY <1>1, <2>1, <3>2 DEF Retried, WithinCap, Queues
  <2>2. CASE ~(RetryCap > 0 /\ Len(q[RetryBuffer]) >= RetryCap)
    <3>1. Len(Append(q[RetryBuffer], m)) = Len(q[RetryBuffer]) + 1
      BY <1>1
    <3>2. QED BY <1>1, <2>2, <3>1, RetryCapNat DEF Retried, WithinCap, Queues
  <2>3. QED BY <2>1, <2>2
<1>4. ASSUME ~IsEmpty(q) PROVE WithinCap(Popped(q))
  <2>1. q[RetryBuffer] # <<>> => Len(Tail(q[RetryBuffer])) <= Len(q[RetryBuffer])
    BY <1>1
  <2>2. NextList(q) \in Lists /\ q[NextList(q)] # <<>>
    BY <1>4, FirstList
  <2>3. CASE NextList(q) = RetryBuffer
    <3>1. Len(Popped(q)[RetryBuffer]) = Len(q[RetryBuffer]) - 1 /\ Len(q[RetryBuffer]) \in Nat
      BY <1>1, <2>2, <2>3, Shortening DEF Popped, Queues
    <3>2. QED BY <3>1, RetryCapNat DEF WithinCap
  <2>4. CASE NextList(q) # RetryBuffer
    BY <2>4 DEF Popped, WithinCap, Queues
  <2>5. QED BY <2>3, <2>4
<1>5. QED BY <1>2, <1>3, <1>4

LEMMA TypesBegin ==
  ASSUME Init
  PROVE  SessionTypeOK
<1>1. NewPriorityQueue \in Queues /\ Len(NewPriorityQueue[RetryBuffer]) = 0
  BY DEF NewPriorityQueue, Queues, Lists, RetryBuffer
<1>2. queue \in [Lists -> Seq(Messages)] /\ Len(queue[RetryBuffer]) <= RetryCap
  BY <1>1, RetryCapNat DEF Init, Queues
<1>3. arrival \in [Messages -> Nat]
  BY DEF Init
<1>4. QED BY <1>2, <1>3 DEF Init, SessionTypeOK

LEMMA TypesStep ==
  ASSUME SessionTypeOK, [Next]_vars
  PROVE  SessionTypeOK'
<1> USE DEF SessionTypeOK, queueVars, loopVars
<1>1. queue \in Queues /\ WithinCap(queue)
  BY DEF Queues, WithinCap
<1>2. ASSUME NEW m \in Messages, NEW q \in Queues, WithinCap(q), Accepts(m, q), Signalled
      PROVE  SessionTypeOK'
  BY <1>2 DEF Accepts, Signalled, Queues, WithinCap
<1>3. ASSUME NEW m \in Messages, Enqueue(m) \/ RetryP1(m)
      PROVE  SessionTypeOK'
  <2>1. CASE Enqueue(m)
    BY <1>1, <1>2, <2>1, EnqueuedType, CapKept DEF Enqueue
  <2>2. CASE RetryP1(m)
    BY <1>1, <1>2, <2>2, RetriedType, CapKept DEF RetryP1
  <2>3. QED BY <1>3, <2>1, <2>2
<1>4. CASE FindsMessage
  <2>1. /\ queue' = Popped(queue) /\ inHand' = NextMessage(queue)
        /\ helper' = FALSE /\ writer' = "write"
        /\ UNCHANGED <<registered, arrival, count, expired, written, ticked, cancelled, peer>>
    BY <1>4 DEF FindsMessage
  <2>2. /\ Popped(queue) \in Queues /\ NextMessage(queue) \in Messages
        /\ WithinCap(Popped(queue))
    BY <1>1, <1>4, PoppedType, CapKept DEF FindsMessage
  <2>3. QED BY <2>1, <2>2 DEF Queues, WithinCap
<1>5. CASE SelectsDone \/ SelectsHeartbeat \/ SelectsDequeue
  BY <1>5 DEF SelectsDone, SelectsHeartbeat, SelectsDequeue, LoopGoesTo
<1>6. CASE FindsContextDone \/ FindsNothing \/ Waits
  BY <1>6 DEF FindsContextDone, FindsNothing, Waits, LoopGoesTo
<1>7. CASE WriteSucceeds \/ WriteFails
  BY <1>7 DEF WriteSucceeds, WriteFails, LoopGoesTo
<1>8. CASE Leaves
  BY <1>8 DEF Leaves
<1>9. CASE HelperBroadcasts \/ DequeueExpires
  BY <1>9 DEF HelperBroadcasts, DequeueExpires, Signalled
<1>10. CASE HeartbeatTicks \/ PeerGoes \/ ReaderEnds
  BY <1>10 DEF HeartbeatTicks, PeerGoes, ReaderEnds
<1>11. CASE UNCHANGED vars
  BY <1>11 DEF vars
<1>12. QED
  BY <1>3, <1>4, <1>5, <1>6, <1>7, <1>8, <1>9, <1>10, <1>11 DEF Next, WriterStep

(***************************************************************************)
(* The session's variables keep their types and the retry buffer its       *)
(* capacity (priority_queue.go:107), for any messages and any size of it.  *)
(***************************************************************************)
THEOREM SessionTypeCorrect == Spec => []SessionTypeOK
<1>1. QED BY TypesBegin, TypesStep, PTL DEF Spec

-----------------------------------------------------------------------------
(* A writer that sleeps.                                                   *)

(* From the test for a message to Wait the helper is there or has acted,   *)
(* which takes a cancellation or the end of the time-out since the test;   *)
(* a message is in hand only in a write.                                   *)
LoopInv ==
  /\ NoWakeUpLost
  /\ OnlyEarlyEndLosesHelper
  /\ writer = "checked" =>
       /\ expired \in {"no", "unheard"}
       /\ helper \/ cancelled \/ expired = "unheard"
  /\ inHand # NoMessage => writer = "write"

LEMMA LoopBegin ==
  ASSUME Init
  PROVE  LoopInv
BY DEF Init, LoopInv, NoWakeUpLost, OnlyEarlyEndLosesHelper

LEMMA LoopStep ==
  ASSUME SessionTypeOK, LoopInv, [Next]_vars
  PROVE  LoopInv'
<1> USE DEF LoopInv, NoWakeUpLost, OnlyEarlyEndLosesHelper, queueVars, loopVars
<1>1. ASSUME NEW m \in Messages, NEW q, Accepts(m, q), Signalled
      PROVE  LoopInv'
  BY <1>1 DEF Accepts, Signalled, MutexFree
<1>2. CASE SelectsDone \/ SelectsHeartbeat \/ SelectsDequeue
  BY <1>2 DEF SelectsDone, SelectsHeartbeat, SelectsDequeue, LoopGoesTo
<1>3. CASE FindsMessage
  BY <1>3 DEF FindsMessage
<1>4. CASE FindsContextDone \/ FindsNothing
  BY <1>4 DEF FindsContextDone, FindsNothing, LoopGoesTo, InDequeue, Done, IsEmpty
<1>5. CASE Waits
  BY <1>5 DEF Waits, LoopGoesTo, IsEmpty
<1>6. CASE WriteSucceeds \/ WriteFails \/ Leaves
  BY <1>6 DEF WriteSucceeds, WriteFails, LoopGoesTo, Leaves
<1>7. CASE HelperBroadcasts
  BY <1>7 DEF HelperBroadcasts, Signalled, Done, IsEmpty
<1>8. CASE DequeueExpires \/ HeartbeatTicks \/ PeerGoes \/ ReaderEnds
  BY <1>8 DEF DequeueExpires, HeartbeatTicks, PeerGoes, ReaderEnds, IsEmpty
<1>9. CASE UNCHANGED vars
  BY <1>9 DEF vars, IsEmpty
<1>10. QED
  BY <1>1, <1>2, <1>3, <1>4, <1>5, <1>6, <1>7, <1>8, <1>9
     DEF Next, WriterStep, Enqueue, RetryP1

LEMMA LoopInductive == Spec => [](SessionTypeOK /\ LoopInv)
<1>1. QED BY TypesBegin, TypesStep, LoopBegin, LoopStep, PTL DEF Spec

(***************************************************************************)
(* No message is put into the queue of a writer that sleeps or is about to *)
(* without waking it, wherever the producer comes in (priority_queue.go:81,*)
(* 113, 139).                                                              *)
(***************************************************************************)
THEOREM NoWakeUpIsLost == Spec => []NoWakeUpLost
<1>1. LoopInv => NoWakeUpLost
  BY DEF LoopInv
<1>2. QED BY <1>1, LoopInductive, PTL

(***************************************************************************)
(* Only a cancellation or a time-out that falls between test and Wait      *)
(* leaves the writer asleep without a helper; otherwise the time-out of    *)
(* Dequeue will reach it (priority_queue.go:132).                          *)
(***************************************************************************)
THEOREM HelperIsThere == Spec => []OnlyEarlyEndLosesHelper
<1>1. LoopInv => OnlyEarlyEndLosesHelper
  BY DEF LoopInv
<1>2. QED BY <1>1, LoopInductive, PTL

-----------------------------------------------------------------------------
(* The lists as a priority queue.                                          *)

(* The entries of lists q whose messages were accepted at the times of a. *)
EntryOf(q, a, i, j) == [msg |-> q[i][j], rank |-> i, no |-> a[q[i][j]]]

Entries(q, a) == UNION {{EntryOf(q, a, i, j) : j \in DOMAIN q[i]} : i \in Lists}

LEMMA EntriesAre ==
  ASSUME NEW q, NEW a, NEW e
  PROVE  e \in Entries(q, a)
           <=> \E i \in Lists : \E j \in DOMAIN q[i] : e = EntryOf(q, a, i, j)
BY DEF Entries

(* The lists hold what was among the first n accepted, and in this order. *)
InOrder(q, a, n) ==
  \A i \in Lists :
    /\ \A j \in DOMAIN q[i] : a[q[i][j]] \in 1 .. n
    /\ \A j, k \in DOMAIN q[i] : j < k => a[q[i][j]] < a[q[i][k]]

Arrivals == [Messages -> Nat]

(* Lists p are q with m at the end of list i, or with list i shortened; m  *)
(* has been accepted after n others at the times of b.                     *)
Appends(p, q, i, m) == p = [q EXCEPT ![i] = Append(@, m)]
Shortens(p, q, i) == p = [q EXCEPT ![i] = Tail(@)]
Counts(b, a, m, n) == b = [a EXCEPT ![m] = n + 1]

(* A message that was not accepted yet goes to the end of list i. *)
LEMMA EntriesAppended ==
  ASSUME NEW q \in Queues, NEW a \in Arrivals, NEW n \in Nat, InOrder(q, a, n),
         NEW m \in Messages, a[m] = 0, NEW i \in Lists,
         NEW p, Appends(p, q, i, m), NEW b, Counts(b, a, m, n)
  PROVE  /\ InOrder(p, b, n + 1)
         /\ Entries(p, b) = Entries(q, a) \cup {[msg |-> m, rank |-> i, no |-> n + 1]}
<1> DEFINE last == Len(q[i]) + 1
<1>1. /\ DOMAIN p[i] = DOMAIN q[i] \cup {last} /\ last \notin DOMAIN q[i]
      /\ p[i][last] = m
      /\ \A j \in DOMAIN q[i] : j <= Len(q[i]) /\ p[i][j] = q[i][j]
      /\ \A l \in Lists \ {i} : p[l] = q[l]
  BY Appending DEF Queues, Appends
<1>2. b[m] = n + 1
  BY DEF Arrivals, Counts
<1>3. ASSUME NEW l \in Lists, NEW j \in DOMAIN q[l]
      PROVE  /\ a[q[l][j]] \in 1 .. n
             /\ j \in DOMAIN p[l] /\ EntryOf(p, b, l, j) = EntryOf(q, a, l, j)
  <2>1. q[l][j] \in Messages /\ a[q[l][j]] \in 1 .. n
    BY DEF Queues, InOrder
  <2>2. b[q[l][j]] = a[q[l][j]]
    BY <2>1 DEF Arrivals, Counts
  <2>3. j \in DOMAIN p[l] /\ p[l][j] = q[l][j]
    BY <1>1
  <2>4. QED BY <2>1, <2>2, <2>3 DEF EntryOf
<1>4. InOrder(p, b, n + 1)
  <2>1. \A l \in Lists : \A j \in DOMAIN q[l] : b[p[l][j]] = a[q[l][j]]
    BY <1>3 DEF EntryOf
  <2>2. ASSUME NEW l \in Lists, NEW j \in DOMAIN p[l]
        PROVE  b[p[l][j]] \in 1 .. n + 1
    BY <1>1, <1>2, <1>3, <2>1
  <2>3. ASSUME NEW l \in Lists, NEW j \in DOMAIN p[l], NEW k \in DOMAIN p[l], j < k
        PROVE  b[p[l][j]] < b[p[l][k]]
    <3>1. CASE k \in DOMAIN q[l]
      <4>1. j \in DOMAIN q[l]
        BY <1>1, <2>3, <3>1 DEF Queues
      <4>2. QED BY <2>1, <2>3, <3>1, <4>1 DEF InOrder
    <3>2. CASE k \notin DOMAIN q[l]
      <4>1. l = i /\ p[l][k] = m /\ j \in DOMAIN q[l]
        BY <1>1, <2>3, <3>2
      <4>2. QED BY <1>2, <1>3, <2>1, <4>1
    <3>3. QED BY <3>1, <3>2
  <2>4. QED BY <2>2, <2>3 DEF InOrder
<1>5. EntryOf(p, b, i, last) = [msg |-> m, rank |-> i, no |-> n + 1]
  BY <1>1, <1>2 DEF EntryOf
<1>6. ASSUME NEW e
      PROVE  e \in Entries(p, b)
               <=> e \in Entries(q, a) \/ e = [msg |-> m, rank |-> i, no |-> n + 1]
  <2>1. ASSUME NEW l \in Lists, NEW j \in DOMAIN p[l], j \notin DOMAIN q[l]
        PROVE  l = i /\ j = last
    BY <1>1, <2>1
  <2>2. ASSUME NEW l \in Lists, NEW j \in DOMAIN p[l], e = EntryOf(p, b, l, j)
        PROVE  e \in Entries(q, a) \/ e = [msg |-> m, rank |-> i, no |-> n + 1]
    <3>1. CASE j \in DOMAIN q[l]
      BY <1>3, <2>2, <3>1, EntriesAre
    <3>2. CASE j \notin DOMAIN q[l]
      BY <1>5, <2>1, <2>2, <3>2
    <3>3. QED BY <3>1, <3>2
  <2>3. ASSUME NEW l \in Lists, NEW j \in DOMAIN q[l], e = EntryOf(q, a, l, j)
        PROVE  e \in Entries(p, b)
    <3>1. j \in DOMAIN p[l] /\ e = EntryOf(p, b, l, j)
      BY <1>3, <2>3
    <3>2. QED BY <3>1, EntriesAre
  <2>4. EntryOf(p, b, i, last) \in Entries(p, b)
    BY <1>1, EntriesAre
  <2>5. e \in Entries(p, b) => e \in Entries(q, a) \/ e = [msg |-> m, rank |-> i, no |-> n + 1]
    <3> SUFFICES ASSUME e \in Entries(p, b)
                 PROVE  e \in Entries(q, a) \/ e = [msg |-> m, rank |-> i, no |-> n + 1]
      OBVIOUS
    <3>1. \E l \in Lists : \E j \in DOMAIN p[l] : e = EntryOf(p, b, l, j)
      BY EntriesAre
    <3>2. QED BY <2>2, <3>1
  <2>6. e \in Entries(q, a) => e \in Entries(p, b)
    <3> SUFFICES ASSUME e \in Entries(q, a)
                 PROVE  e \in Entries(p, b)
      OBVIOUS
    <3>1. \E l \in Lists : \E j \in DOMAIN q[l] : e = EntryOf(q, a, l, j)
      BY EntriesAre
    <3>2. QED BY <2>3, <3>1
  <2>7. QED BY <1>5, <2>4, <2>5, <2>6
<1>7. QED BY <1>4, <1>6

(* A list that is not empty loses its head, the first of its rank. *)
LEMMA EntriesShortened ==
  ASSUME NEW q \in Queues, NEW a \in Arrivals, NEW n \in Nat, InOrder(q, a, n),
         NEW i \in Lists, q[i] # <<>>,
         NEW p, Shortens(p, q, i)
  PROVE  /\ p \in Queues /\ InOrder(p, a, n)
         /\ EntryOf(q, a, i, 1) \in Entries(q, a)
         /\ Entries(p, a) = Entries(q, a) \ {EntryOf(q, a, i, 1)}
         /\ \A e \in Entries(q, a) : e.rank = i => EntryOf(q, a, i, 1).no <= e.no
<1>1. /\ p[i] \in Seq(Messages) /\ 1 \in DOMAIN q[i] /\ DOMAIN q[i] \subseteq Nat \ {0}
      /\ \A j \in DOMAIN q[i] \ {1} : j - 1 \in DOMAIN p[i]
      /\ \A j \in DOMAIN p[i] : j \in Nat /\ j + 1 \in DOMAIN q[i] \ {1} /\ p[i][j] = q[i][j + 1]
      /\ \A l \in Lists \ {i} : p[l] = q[l]
  BY Shortening DEF Queues, Shortens
<1>2. p \in Queues
  BY <1>1 DEF Queues, Shortens
<1>3. \A l \in Lists : \A j \in DOMAIN q[l] : a[q[l][j]] \in 1 .. n /\ a[q[l][j]] \in Nat
  BY DEF InOrder
<1>4. InOrder(p, a, n)
  <2>1. \A j \in DOMAIN p[i] : a[p[i][j]] \in 1 .. n
    BY <1>1, <1>3
  <2>2. ASSUME NEW j \in DOMAIN p[i], NEW k \in DOMAIN p[i], j < k
        PROVE  a[p[i][j]] < a[p[i][k]]
    <3>1. j + 1 \in DOMAIN q[i] /\ k + 1 \in DOMAIN q[i] /\ j + 1 < k + 1
      BY <1>1, <2>2
    <3>2. QED BY <1>1, <3>1 DEF InOrder
  <2>3. ASSUME NEW l \in Lists, l # i
        PROVE  /\ \A j \in DOMAIN p[l] : a[p[l][j]] \in 1 .. n
               /\ \A j, k \in DOMAIN p[l] : j < k => a[p[l][j]] < a[p[l][k]]
    <3>1. p[l] = q[l]
      BY <1>1, <2>3
    <3>2. QED BY <3>1 DEF InOrder
  <2>4. QED BY <2>1, <2>2, <2>3 DEF InOrder
<1>5. EntryOf(q, a, i, 1) \in Entries(q, a)
  BY <1>1, EntriesAre
<1>6. \A j \in DOMAIN q[i] \ {1} : EntryOf(q, a, i, 1).no < EntryOf(q, a, i, j).no
  BY <1>1 DEF EntryOf, InOrder
<1>7. ASSUME NEW e \in Entries(q, a), e.rank = i
      PROVE  \E j \in DOMAIN q[i] : e = EntryOf(q, a, i, j)
  BY <1>7, EntriesAre DEF EntryOf
<1>8. ASSUME NEW e
      PROVE  e \in Entries(p, a) <=> e \in Entries(q, a) /\ e # EntryOf(q, a, i, 1)
  <2>1. ASSUME NEW l \in Lists, NEW j \in DOMAIN p[l], e = EntryOf(p, a, l, j)
        PROVE  e \in Entries(q, a) /\ e # EntryOf(q, a, i, 1)
    <3>1. CASE l = i
      <4>1. j + 1 \in DOMAIN q[i] \ {1} /\ e = EntryOf(q, a, i, j + 1)
        BY <1>1, <2>1, <3>1 DEF EntryOf
      <4>2. e # EntryOf(q, a, i, 1)
        <5>1. EntryOf(q, a, i, 1).no \in Nat
          BY <1>1, <1>3 DEF EntryOf
        <5>2. QED BY <1>6, <4>1, <5>1
      <4>3. QED BY <4>1, <4>2, EntriesAre
    <3>2. CASE l # i
      <4>1. j \in DOMAIN q[l] /\ e = EntryOf(q, a, l, j)
        BY <1>1, <2>1, <3>2 DEF EntryOf
      <4>2. e.rank # EntryOf(q, a, i, 1).rank
        BY <3>2, <4>1 DEF EntryOf
      <4>3. QED BY <4>1, <4>2, EntriesAre
    <3>3. QED BY <3>1, <3>2
  <2>2. ASSUME NEW l \in Lists, NEW j \in DOMAIN q[l], e = EntryOf(q, a, l, j),
               e # EntryOf(q, a, i, 1)
        PROVE  e \in Entries(p, a)
    <3>1. CASE l = i
      <4>1. j - 1 \in DOMAIN p[i] /\ e = EntryOf(p, a, i, j - 1)
        <5>1. j \in DOMAIN q[i] \ {1}
          BY <2>2, <3>1
        <5>2. j - 1 \in DOMAIN p[i] /\ j - 1 + 1 = j
          BY <1>1, <5>1
        <5>3. p[i][j - 1] = q[i][j]
          BY <1>1, <5>2
        <5>4. QED BY <2>2, <3>1, <5>2, <5>3 DEF EntryOf
      <4>2. QED BY <4>1, EntriesAre
    <3>2. CASE l # i
      <4>1. j \in DOMAIN p[l] /\ e = EntryOf(p, a, l, j)
        BY <1>1, <2>2, <3>2 DEF EntryOf
      <4>2. QED BY <4>1, EntriesAre
    <3>3. QED BY <3>1, <3>2
  <2>3. QED BY <2>1, <2>2, EntriesAre
<1>9. ASSUME NEW e \in Entries(q, a), e.rank = i
      PROVE  EntryOf(q, a, i, 1).no <= e.no
  <2>1. PICK j \in DOMAIN q[i] : e = EntryOf(q, a, i, j)
    BY <1>7, <1>9
  <2>2. a[q[i][1]] \in Nat /\ a[q[i][j]] \in Nat
    BY <1>1, <1>3
  <2>3. QED BY <1>6, <2>1, <2>2 DEF EntryOf
<1>10. QED BY <1>2, <1>4, <1>5, <1>8, <1>9

-----------------------------------------------------------------------------
(* The refinement.                                                         *)

Ordered == InOrder(queue, arrival, count)

LEMMA WaitingIsEntries == Waiting = Entries(queue, arrival)
BY DEF Waiting, Entries, EntryOf

LEMMA WaitingAfter == Waiting' = Entries(queue', arrival')
BY DEF Waiting, Entries, EntryOf

FifoInv == SessionTypeOK /\ LoopInv /\ Ordered

RetryBufferFull == RetryCap > 0 /\ Len(queue[RetryBuffer]) >= RetryCap

(* The entries under the retry rank are as many as the buffer holds: each  *)
(* position has its own, for no two messages arrived at the same time.     *)
LEMMA FullWhenBufferIs ==
  ASSUME FifoInv
  PROVE  Fifo!Full <=> RetryBufferFull
<1> DEFINE list == queue[RetryBuffer]
           Ent(j) == EntryOf(queue, arrival, RetryBuffer, j)
           f == [j \in 1 .. Len(list) |-> Ent(j)]
<1>1. /\ RetryBuffer \in Lists /\ list \in Seq(Messages)
      /\ \A j \in DOMAIN list : arrival[list[j]] \in 1 .. count
      /\ \A j, k \in DOMAIN list : j < k => arrival[list[j]] < arrival[list[k]]
  BY DEF FifoInv, SessionTypeOK, Ordered, InOrder, RetryBuffer, Lists
<1>2. Len(list) \in Nat /\ DOMAIN list = 1 .. Len(list)
  BY <1>1
<1>3. \A e : e \in Fifo!Retries <=> \E j \in 1 .. Len(list) : e = Ent(j)
  <2>1. \A i, j : EntryOf(queue, arrival, i, j).rank = i
    BY DEF EntryOf
  <2>2. \A e : e \in Entries(queue, arrival) /\ e.rank = RetryBuffer
                <=> \E j \in DOMAIN list : e = Ent(j)
    BY <1>1, <2>1, EntriesAre
  <2>3. QED BY <1>2, <2>2, WaitingIsEntries DEF Fifo!Retries
<1>4. ASSUME NEW j \in 1 .. Len(list), NEW k \in 1 .. Len(list), Ent(j) = Ent(k)
      PROVE  j = k
  <2>1. arrival[list[j]] = arrival[list[k]]
    BY <1>4 DEF EntryOf
  <2>2. arrival[list[j]] \in Int /\ ~(j < k) /\ ~(k < j)
    BY <1>1, <1>2, <2>1, <1>4
  <2>3. QED BY <1>2, <2>2
<1>5. f \in Bijection(1 .. Len(list), Fifo!Retries)
  <2>1. f \in [1 .. Len(list) -> Fifo!Retries]
    BY <1>3
  <2>2. \A j, k \in 1 .. Len(list) : f[j] = f[k] => j = k
    BY <1>4
  <2>3. \A e \in Fifo!Retries : \E j \in 1 .. Len(list) : f[j] = e
    BY <1>3
  <2>4. QED BY <2>1, <2>2, <2>3 DEF Bijection, Injection, IsInjective, Surjection
<1>6. Cardinality(Fifo!Retries) = Len(list)
  BY <1>2, <1>5, FS_CountingElements DEF ExistsBijection
<1>7. \A S : Fifo!Cardinality(S) = Cardinality(S)
  BY DEF Fifo!Cardinality, Cardinality
<1>8. QED BY <1>6, <1>7 DEF Fifo!Full, RetryBufferFull

LEMMA FifoBegin ==
  ASSUME Init
  PROVE  Ordered /\ Fifo!Init
<1>1. \A i \in Lists : queue[i] = <<>>
  BY DEF Init, NewPriorityQueue
<1>2. Ordered
  BY <1>1 DEF Ordered, InOrder
<1>3. Waiting = {}
  BY <1>1 DEF Waiting
<1>4. QED BY <1>2, <1>3 DEF Init, Fifo!Init

(* A message goes to the end of the list of its rank. *)
LEMMA AcceptRefines ==
  ASSUME FifoInv, NEW m \in Messages, NEW i \in {ListOf(m), RetryBuffer},
         i = RetryBuffer => ~RetryBufferFull,
         Accepts(m, [queue EXCEPT ![i] = Append(@, m)])
  PROVE  Ordered' /\ Fifo!Accept(m)
<1>1. /\ queue \in Queues /\ arrival \in Arrivals /\ count \in Nat
      /\ InOrder(queue, arrival, count)
  BY DEF FifoInv, SessionTypeOK, Queues, Arrivals, Ordered
<1>2. /\ arrival[m] = 0 /\ count' = count + 1
      /\ Appends(queue', queue, i, m) /\ Counts(arrival', arrival, m, count)
      /\ inHand' = inHand
  BY DEF Accepts, loopVars, Appends, Counts
<1>3. i \in Lists
  BY ListOfMessage DEF RetryBuffer, Lists
<1>4. /\ InOrder(queue', arrival', count + 1)
      /\ Entries(queue', arrival')
           = Entries(queue, arrival) \cup {[msg |-> m, rank |-> i, no |-> count + 1]}
  BY <1>1, <1>2, <1>3, EntriesAppended
<1>5. Waiting' = Waiting \cup {Fifo!Entry(m, i)}
  BY <1>4, WaitingIsEntries, WaitingAfter DEF Fifo!Entry
<1>6. i = RetryBuffer => ~Fifo!Full
  BY FullWhenBufferIs
<1>7. QED BY <1>2, <1>4, <1>5, <1>6 DEF Fifo!Accept, Ordered

(* The full retry buffer loses its head, the oldest message of its rank. *)
LEMMA DisplaceRefines ==
  ASSUME FifoInv, NEW m \in Messages, queue[RetryBuffer] # <<>>, RetryBufferFull,
         Accepts(m, [queue EXCEPT ![RetryBuffer] = Append(Tail(@), m)])
  PROVE  Ordered' /\ Fifo!Displace(m)
<1> DEFINE shorter == [queue EXCEPT ![RetryBuffer] = Tail(@)]
           old == EntryOf(queue, arrival, RetryBuffer, 1)
<1>1. /\ queue \in Queues /\ arrival \in Arrivals /\ count \in Nat
      /\ InOrder(queue, arrival, count) /\ RetryBuffer \in Lists
  BY DEF FifoInv, SessionTypeOK, Queues, Arrivals, Ordered, RetryBuffer, Lists
<1>2. /\ arrival[m] = 0 /\ count' = count + 1
      /\ queue' = [queue EXCEPT ![RetryBuffer] = Append(Tail(@), m)]
      /\ Counts(arrival', arrival, m, count)
      /\ inHand' = inHand
  BY DEF Accepts, loopVars, Counts
<1>3. /\ shorter \in Queues /\ InOrder(shorter, arrival, count)
      /\ old \in Entries(queue, arrival)
      /\ Entries(shorter, arrival) = Entries(queue, arrival) \ {old}
      /\ \A e \in Entries(queue, arrival) : e.rank = RetryBuffer => old.no <= e.no
  BY <1>1, EntriesShortened DEF Shortens
<1>4. Appends(queue', shorter, RetryBuffer, m)
  BY <1>1, <1>2 DEF Queues, Appends
<1> HIDE DEF shorter
<1>5. /\ shorter \in Queues /\ arrival \in Arrivals /\ count \in Nat
      /\ InOrder(shorter, arrival, count) /\ RetryBuffer \in Lists /\ arrival[m] = 0
      /\ Appends(queue', shorter, RetryBuffer, m) /\ Counts(arrival', arrival, m, count)
  BY <1>1, <1>2, <1>3, <1>4
<1>6. /\ InOrder(queue', arrival', count + 1)
      /\ Entries(queue', arrival')
           = Entries(shorter, arrival) \cup {[msg |-> m, rank |-> RetryBuffer, no |-> count + 1]}
  BY <1>5, EntriesAppended
<1>7. old.rank = RetryBuffer
  BY DEF EntryOf
<1>8. /\ Waiting' = (Waiting \ {old}) \cup {Fifo!Entry(m, RetryBuffer)}
      /\ old \in Fifo!Retries /\ \A e \in Fifo!Retries : old.no <= e.no
  BY <1>3, <1>6, <1>7, WaitingIsEntries, WaitingAfter DEF Fifo!Entry, Fifo!Retries
<1>9. Fifo!Full
  BY FullWhenBufferIs
<1>10. QED BY <1>2, <1>6, <1>8, <1>9 DEF Fifo!Displace, Ordered

(* popNext takes the head of the first list that has one. *)
LEMMA TakeRefines ==
  ASSUME FifoInv, FindsMessage
  PROVE  Ordered' /\ Fifo!Take
<1> DEFINE i == NextList(queue)
           e == EntryOf(queue, arrival, i, 1)
<1>1. /\ queue \in Queues /\ arrival \in Arrivals /\ count \in Nat
      /\ InOrder(queue, arrival, count)
  BY DEF FifoInv, SessionTypeOK, Queues, Arrivals, Ordered
<1>2. /\ InDequeue /\ ~IsEmpty(queue)
      /\ Shortens(queue', queue, i) /\ inHand' = Head(queue[i])
      /\ UNCHANGED <<arrival, count>>
  BY DEF FindsMessage, Popped, NextMessage, Shortens
<1>3. /\ i \in Lists /\ queue[i] # <<>>
      /\ \A j \in Lists : j < i => queue[j] = <<>>
  BY <1>1, <1>2, FirstList
<1>4. /\ InOrder(queue', arrival, count)
      /\ e \in Entries(queue, arrival)
      /\ Entries(queue', arrival) = Entries(queue, arrival) \ {e}
      /\ \A f \in Entries(queue, arrival) : f.rank = i => e.no <= f.no
  BY <1>1, <1>2, <1>3, EntriesShortened
<1>5. inHand = NoMessage
  BY <1>2 DEF FifoInv, LoopInv, InDequeue
<1>6. e.rank = i /\ e.msg = Head(queue[i])
  BY <1>1, <1>3, Shortening DEF EntryOf, Queues
<1>7. ASSUME NEW f \in Waiting PROVE Fifo!Before(e, f)
  <2>1. PICK l \in Lists : \E j \in DOMAIN queue[l] : f = EntryOf(queue, arrival, l, j)
    BY WaitingIsEntries, EntriesAre
  <2>2. f.rank = l /\ ~(l < i)
    BY <1>3, <2>1 DEF EntryOf
  <2>3. f.rank = i => e.no <= f.no
    BY <1>4, WaitingIsEntries
  <2>4. QED BY <1>3, <1>6, <2>2, <2>3 DEF Fifo!Before, Lists
<1>8. e \in Waiting /\ Waiting' = Waiting \ {e}
  BY <1>2, <1>4, WaitingIsEntries, WaitingAfter
<1>9. QED BY <1>2, <1>4, <1>5, <1>6, <1>7, <1>8 DEF Fifo!Take, Ordered

(* The other steps leave the lists alone, and at most let go of a message. *)
LEMMA FifoStep ==
  ASSUME FifoInv, [Next]_vars
  PROVE  Ordered' /\ [Fifo!Next]_Fifo!fifoVars
<1>1. ASSUME NEW m \in Messages, Enqueue(m)
      PROVE  Ordered' /\ Fifo!Accept(m)
  <2>1. ListOf(m) # RetryBuffer
    BY PriorityInRange DEF ListOf, PersonalQ, QueueOf, RetryBuffer
  <2>2. QED BY <1>1, <2>1, AcceptRefines DEF Enqueue, Enqueued
<1>2. ASSUME NEW m \in Messages, RetryP1(m)
      PROVE  Ordered' /\ (Fifo!Accept(m) \/ Fifo!Displace(m))
  <2>1. CASE RetryBufferFull
    <3>1. queue[RetryBuffer] # <<>>
      <4>1. queue[RetryBuffer] \in Seq(Messages)
        BY DEF FifoInv, SessionTypeOK, RetryBuffer, Lists
      <4>2. QED BY <2>1, <4>1, RetryCapNat DEF RetryBufferFull
    <3>2. Accepts(m, [queue EXCEPT ![RetryBuffer] = Append(Tail(@), m)])
      BY <1>2, <2>1 DEF RetryP1, Retried, RetryBufferFull
    <3>3. QED BY <2>1, <3>1, <3>2, DisplaceRefines
  <2>2. CASE ~RetryBufferFull
    <3>1. Accepts(m, [queue EXCEPT ![RetryBuffer] = Append(@, m)])
      BY <1>2, <2>2 DEF RetryP1, Retried, RetryBufferFull
    <3>2. QED BY <2>2, <3>1, AcceptRefines
  <2>3. QED BY <2>1, <2>2
<1>3. CASE FindsMessage
  BY <1>3, TakeRefines DEF Fifo!Next
<1>4. ASSUME UNCHANGED <<queue, arrival, count>>, inHand' \in {inHand, NoMessage}
      PROVE  Ordered' /\ [Fifo!Next]_Fifo!fifoVars
  <2>1. Ordered' /\ Waiting' = Waiting
    BY <1>4, WaitingIsEntries, WaitingAfter DEF FifoInv, Ordered
  <2>2. QED BY <1>4, <2>1 DEF Fifo!Next, Fifo!Finish, Fifo!fifoVars
<1>5. CASE SelectsDone \/ SelectsHeartbeat \/ SelectsDequeue
  BY <1>4, <1>5
     DEF SelectsDone, SelectsHeartbeat, SelectsDequeue, LoopGoesTo, queueVars, loopVars
<1>6. CASE FindsContextDone \/ FindsNothing \/ Waits
  BY <1>4, <1>6 DEF FindsContextDone, FindsNothing, Waits, LoopGoesTo, queueVars, loopVars
<1>7. CASE WriteSucceeds \/ WriteFails \/ Leaves
  BY <1>4, <1>7 DEF WriteSucceeds, WriteFails, Leaves, LoopGoesTo, queueVars, loopVars
<1>8. CASE \/ HelperBroadcasts \/ DequeueExpires \/ HeartbeatTicks \/ PeerGoes \/ ReaderEnds
           \/ UNCHANGED vars
  BY <1>4, <1>8
     DEF HelperBroadcasts, DequeueExpires, HeartbeatTicks, PeerGoes, ReaderEnds, vars, queueVars,
         loopVars
<1>9. QED
  BY <1>1, <1>2, <1>3, <1>5, <1>6, <1>7, <1>8 DEF Next, WriterStep, Fifo!Next

(***************************************************************************)
(* The six lists of a client implement a priority queue with a retry rank: *)
(* the writer takes the earliest message of the best rank, and only a full *)
(* retry buffer loses one (priority_queue.go:81-107, 147).                 *)
(***************************************************************************)
THEOREM ListsImplementFifo == Spec => ServesInOrder
<1>1. Init => FifoInv /\ Fifo!Init
  BY TypesBegin, LoopBegin, FifoBegin DEF FifoInv
<1>2. FifoInv /\ [Next]_vars => FifoInv' /\ [Fifo!Next]_Fifo!fifoVars
  BY TypesStep, LoopStep, FifoStep DEF FifoInv
<1>3. QED BY <1>1, <1>2, PTL DEF Spec, ServesInOrder, Fifo!Spec

=============================================================================
