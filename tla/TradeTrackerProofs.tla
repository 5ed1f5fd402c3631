------------------------- MODULE TradeTrackerProofs -------------------------
(***************************************************************************)
(* Proofs about the trade tracker: its type invariant, and that the        *)
(* upstream subscriptions follow the watcher counts and go through their   *)
(* changes in turns, as OneSubscription asks, for any number of mints and  *)
(* callers, any channel capacity and any number of reconnects.             *)
(***************************************************************************)
EXTENDS TradeTracker, WellFoundedInduction, TLAPS

(* Whether a change asks for what the watcher counts now ask for. *)
Right(ch) == ch.method = "subscribeTokenTrade" <=> watcherCounts[ch.mint] > 0

(* The change at i is the last one about m in the channel. *)
LastFor(m, i) ==
  /\ changeReq[i].mint = m
  /\ \A j \in DOMAIN changeReq : j > i => changeReq[j].mint # m

(* A caller is between the unlock and the send of one change at most. *)
OnePending == \A c \in Callers : \A ch, e \in pending[c] : ch = e

(* A change that has been decided but not sent is right. *)
PendingRight == \A c \in Callers : \A ch \in pending[c] : Right(ch)

(* If nothing about m is unsent, the last queued change about it is right. *)
QueueEndsRight ==
  \A m \in Mints \ dropped :
    ~InFlight(m) =>
      \A i \in DOMAIN changeReq : LastFor(m, i) => Right(changeReq[i])

(* What the writer has subscribed, and has yet to, for settled mints. *)
ListingRight ==
  conn = "up" /\ writer = "listing" =>
    \A m \in Mints \ dropped :
      Settled(m) => (m \in upstream \cup toList <=> watcherCounts[m] > 0)

FreshConnection == writer = "start" => upstream = {}

LinkInv ==
  /\ TrackerTypeOK
  /\ OnePending
  /\ PendingRight
  /\ QueueEndsRight
  /\ ListingRight
  /\ FreshConnection
  /\ SubscriptionFollowsWatchers

-----------------------------------------------------------------------------
LEMMA SubscribeType ==
  ASSUME NEW m \in Mints
  PROVE  Subscribe(m) \in Change /\ Unsubscribe(m) \in Change
BY DEF Subscribe, Unsubscribe, Change

LEMMA EmptySequence ==
  ASSUME NEW S
  PROVE  <<>> \in Seq(S) /\ Len(<<>>) = 0
OBVIOUS

LEMMA AppendFacts ==
  ASSUME NEW S, NEW s \in Seq(S), NEW x \in S
  PROVE  /\ Append(s, x) \in Seq(S)
         /\ Len(Append(s, x)) = Len(s) + 1 /\ Len(s) \in Nat
         /\ DOMAIN s = 1..Len(s) /\ DOMAIN Append(s, x) = 1..(Len(s) + 1)
         /\ Append(s, x)[Len(s) + 1] = x
         /\ \A i \in 1..Len(s) : Append(s, x)[i] = s[i]
OBVIOUS

(* Dropping the head of a non-empty sequence. *)
LEMMA TailFacts ==
  ASSUME NEW S, NEW s \in Seq(S), s # <<>>
  PROVE  /\ Head(s) = s[1] /\ Head(s) \in S
         /\ Tail(s) \in Seq(S)
         /\ Len(Tail(s)) = Len(s) - 1 /\ Len(s) > 0
         /\ DOMAIN s = 1..Len(s) /\ DOMAIN Tail(s) = 1..(Len(s) - 1)
         /\ \A i \in 1..(Len(s) - 1) : Tail(s)[i] = s[i + 1]
OBVIOUS

-----------------------------------------------------------------------------
(* Type correctness, one lemma per part of an operation.                   *)

LEMMA TrackerTypeInit ==
  ASSUME NewTradeTracker, breaks = 0, calls = 0
  PROVE  TrackerTypeOK
<1>1. changeReq \in Seq(Change) /\ Len(changeReq) = 0
  BY EmptySequence DEF NewTradeTracker
<1>2. watcherCounts \in [Mints -> Nat] /\ pending \in [Callers -> SUBSET Change]
  BY DEF NewTradeTracker
<1>3. breaks \in 0..MaxBreaks /\ calls \in 0..MaxCalls
  BY BoundsNat
<1>4. /\ metrics \in SUBSET Mints /\ toList \in SUBSET Mints
      /\ upstream \in SUBSET Mints /\ dropped \in SUBSET Mints
  BY DEF NewTradeTracker
<1>5. /\ conn \in {"down", "up", "broken"}
      /\ writer \in {"none", "start", "listing", "loop", "ended"}
  BY DEF NewTradeTracker
<1>6. stale \in BOOLEAN
  BY DEF NewTradeTracker
<1>7. Len(changeReq) <= QueueCap
  BY <1>1, QueueCapNat
<1>8. QED
  BY <1>1, <1>2, <1>3, <1>4, <1>5, <1>6, <1>7 DEF TrackerTypeOK

LEMMA CountUpType ==
  ASSUME TrackerTypeOK, NEW c \in Callers, NEW m \in Mints, CountUp(c, m),
         UNCHANGED connVars, calls' \in 0..MaxCalls
  PROVE  TrackerTypeOK'
BY SubscribeType DEF TrackerTypeOK, CountUp, connVars

LEMMA CountDownType ==
  ASSUME TrackerTypeOK, NEW c \in Callers, NEW m \in Mints, CountDown(c, m),
         UNCHANGED connVars, calls' \in 0..MaxCalls
  PROVE  TrackerTypeOK'
BY SubscribeType DEF TrackerTypeOK, CountDown, connVars

LEMMA SendChangeType ==
  ASSUME TrackerTypeOK, NEW c \in Callers, SendChange(c), UNCHANGED calls
  PROVE  TrackerTypeOK'
<1> USE QueueCapNat DEF TrackerTypeOK
<1>1. PICK ch \in pending[c] : SendChange(c)!(ch)
  BY DEF SendChange
<1>2. ch \in Change
  OBVIOUS
<1>3. changeReq' \in Seq(Change) /\ Len(changeReq') <= QueueCap
  <2>1. CASE UNCHANGED changeReq BY <2>1
  <2>2. CASE Len(changeReq) < QueueCap /\ changeReq' = Append(changeReq, ch)
    BY <1>2, <2>2, AppendFacts
  <2>3. QED BY <1>1, <2>1, <2>2
<1>4. dropped' \in SUBSET Mints
  BY <1>1, <1>2 DEF Change
<1>5. QED
  BY <1>1, <1>3, <1>4 DEF connVars

LEMMA ConnectionStepType ==
  ASSUME TrackerTypeOK, ConnectionStep, UNCHANGED calls
  PROVE  TrackerTypeOK'
<1> USE QueueCapNat, BoundsNat DEF TrackerTypeOK, countVars
<1>1. CASE Dial BY <1>1 DEF Dial
<1>2. CASE WriterLists BY <1>2 DEF WriterLists, Tracked
<1>3. CASE WriterSubscribesNext BY <1>3 DEF WriterSubscribesNext, Written
<1>4. CASE WriterTakesChange
  <2>1. Head(changeReq) \in Change
    BY <1>4, TailFacts DEF WriterTakesChange
  <2>2. Applied(Head(changeReq)) \in SUBSET Mints
    BY <2>1 DEF Applied, Change
  <2>3. changeReq' \in Seq(Change) /\ Len(changeReq') <= QueueCap
    BY <1>4, TailFacts DEF WriterTakesChange
  <2>4. QED BY <1>4, <2>2, <2>3 DEF WriterTakesChange, Written
<1>5. CASE WriterFails
  <2>1. changeReq' \in Seq(Change) /\ Len(changeReq') <= QueueCap
    <3>1. CASE UNCHANGED changeReq BY <3>1
    <3>2. CASE changeReq # <<>> /\ changeReq' = Tail(changeReq)
      BY <3>2, TailFacts
    <3>3. QED BY <1>5, <3>1, <3>2 DEF WriterFails
  <2>2. QED BY <1>5, <2>1 DEF WriterFails
<1>6. CASE ConnectionBreaks BY <1>6 DEF ConnectionBreaks
<1>7. CASE ConsumeReturns BY <1>7 DEF ConsumeReturns
<1>8. CASE StaleWriterTakesChange
  <2>1. Head(changeReq) \in Change
    BY <1>8, TailFacts DEF StaleWriterTakesChange
  <2>2. changeReq' \in Seq(Change) /\ Len(changeReq') <= QueueCap
    BY <1>8, TailFacts DEF StaleWriterTakesChange
  <2>3. dropped' \in SUBSET Mints
    BY <1>8, <2>1 DEF StaleWriterTakesChange, Change
  <2>4. QED BY <1>8, <2>2, <2>3 DEF StaleWriterTakesChange
<1>9. CASE StaleWriterEnds BY <1>9 DEF StaleWriterEnds
<1>10. ASSUME NEW m \in Mints, TradeArrives(m)
       PROVE  TrackerTypeOK'
  BY <1>10 DEF TradeArrives, connVars
<1>11. QED
  BY <1>1, <1>2, <1>3, <1>4, <1>5, <1>6, <1>7, <1>8, <1>9, <1>10
     DEF ConnectionStep

LEMMA TrackerTypeStep ==
  ASSUME TrackerTypeOK, [TrackerNext]_vars
  PROVE  TrackerTypeOK'
<1>1. ASSUME NEW c \in Callers, NEW m \in Mints,
             CallAddWatch(c, m) \/ CallRemoveWatch(c, m)
      PROVE  TrackerTypeOK'
  <2>1. calls' \in 0..MaxCalls
    BY <1>1, BoundsNat DEF CallAddWatch, CallRemoveWatch, MakesCall, TrackerTypeOK
  <2>2. QED
    BY <1>1, <2>1, CountUpType, CountDownType
       DEF CallAddWatch, CallRemoveWatch, MakesCall
<1>2. ASSUME NEW c \in Callers, SendChange(c), UNCHANGED calls
      PROVE  TrackerTypeOK'
  BY <1>2, SendChangeType
<1>3. ASSUME ConnectionStep, UNCHANGED calls
      PROVE  TrackerTypeOK'
  BY <1>3, ConnectionStepType
<1>4. CASE UNCHANGED vars
  BY <1>4 DEF vars, trackerVars, countVars, connVars, TrackerTypeOK
<1>5. QED
  BY <1>1, <1>2, <1>3, <1>4 DEF TrackerNext

(* Every variable of the tracker keeps its type, and the channel its bound. *)
THEOREM TrackerTypeCorrect == TrackerSpec => []TrackerTypeOK
<1>1. TrackerInit => TrackerTypeOK
  BY TrackerTypeInit DEF TrackerInit
<1>2. TrackerTypeOK /\ [TrackerNext]_vars => TrackerTypeOK'
  BY TrackerTypeStep
<1>3. QED BY <1>1, <1>2, PTL DEF TrackerSpec

-----------------------------------------------------------------------------
(* Appending to and dropping from the channel keep its last changes last.  *)

LEMMA LastAfterAppend ==
  ASSUME changeReq \in Seq(Change), NEW ch \in Change,
         changeReq' = Append(changeReq, ch),
         NEW m \in Mints, NEW i \in DOMAIN changeReq', LastFor(m, i)'
  PROVE  \/ i = Len(changeReq) + 1 /\ ch.mint = m /\ changeReq'[i] = ch
         \/ /\ i \in DOMAIN changeReq /\ LastFor(m, i)
            /\ changeReq'[i] = changeReq[i] /\ ch.mint # m
<1>1. /\ DOMAIN changeReq = 1..Len(changeReq) /\ Len(changeReq) \in Nat
      /\ DOMAIN changeReq' = 1..(Len(changeReq) + 1)
      /\ changeReq'[Len(changeReq) + 1] = ch
      /\ \A j \in 1..Len(changeReq) : changeReq'[j] = changeReq[j]
  OBVIOUS
<1>2. CASE i = Len(changeReq) + 1
  BY <1>1, <1>2 DEF LastFor
<1>3. CASE i # Len(changeReq) + 1
  <2>1. i \in 1..Len(changeReq) /\ Len(changeReq) + 1 > i
    BY <1>1, <1>3
  <2>2. ch.mint # m
    BY <1>1, <2>1 DEF LastFor
  <2>3. QED BY <1>1, <2>1, <2>2 DEF LastFor
<1>4. QED BY <1>2, <1>3

LEMMA LastAfterTail ==
  ASSUME changeReq \in Seq(Change), changeReq # <<>>,
         changeReq' = Tail(changeReq),
         NEW m \in Mints, NEW i \in DOMAIN changeReq', LastFor(m, i)'
  PROVE  /\ i + 1 \in DOMAIN changeReq /\ LastFor(m, i + 1)
         /\ changeReq'[i] = changeReq[i + 1]
<1>1. /\ DOMAIN changeReq = 1..Len(changeReq) /\ Len(changeReq) \in Nat
      /\ DOMAIN changeReq' = 1..(Len(changeReq) - 1)
      /\ \A j \in 1..(Len(changeReq) - 1) : changeReq'[j] = changeReq[j + 1]
  BY TailFacts
<1>2. ASSUME NEW j \in DOMAIN changeReq, j > i + 1
      PROVE  changeReq[j].mint # m
  <2>1. j - 1 \in DOMAIN changeReq' /\ j - 1 > i /\ changeReq'[j - 1] = changeReq[(j - 1) + 1]
    BY <1>1, <1>2
  <2>2. (j - 1) + 1 = j
    BY <1>1
  <2>3. QED BY <2>1, <2>2 DEF LastFor
<1>3. QED BY <1>1, <1>2 DEF LastFor

(* A mint settled after the head is taken was settled before, or the head  *)
(* was the last change about it.                                           *)
LEMMA SettledAfterTail ==
  ASSUME changeReq \in Seq(Change), changeReq # <<>>,
         changeReq' = Tail(changeReq), pending' = pending,
         NEW m \in Mints, Settled(m)'
  PROVE  /\ ~InFlight(m)
         /\ IF Head(changeReq).mint = m THEN LastFor(m, 1) ELSE Settled(m)
         /\ 1 \in DOMAIN changeReq /\ Head(changeReq) = changeReq[1]
<1>1. /\ DOMAIN changeReq = 1..Len(changeReq) /\ Len(changeReq) \in Nat
      /\ DOMAIN changeReq' = 1..(Len(changeReq) - 1)
      /\ \A j \in 1..(Len(changeReq) - 1) : changeReq'[j] = changeReq[j + 1]
      /\ Head(changeReq) = changeReq[1] /\ Len(changeReq) > 0
  BY TailFacts
<1>2. ASSUME NEW j \in DOMAIN changeReq, j > 1
      PROVE  changeReq[j].mint # m
  <2>1. j - 1 \in DOMAIN changeReq' /\ changeReq'[j - 1] = changeReq[(j - 1) + 1]
    BY <1>1, <1>2
  <2>2. (j - 1) + 1 = j
    BY <1>1
  <2>3. QED BY <2>1, <2>2 DEF Settled
<1>3. ~InFlight(m)
  BY DEF Settled, InFlight
<1>4. QED BY <1>1, <1>2, <1>3 DEF LastFor, Settled
-----------------------------------------------------------------------------
(* Every operation keeps LinkInv.                                          *)

LEMMA LinkInit ==
  ASSUME TrackerInit
  PROVE  LinkInv
<1>1. TrackerTypeOK
  BY TrackerTypeInit DEF TrackerInit
<1>2. DOMAIN changeReq = {} /\ conn = "down" /\ writer = "none" /\ upstream = {}
      /\ \A c \in Callers : pending[c] = {}
  BY DEF TrackerInit, NewTradeTracker
<1>3. QED
  BY <1>1, <1>2
     DEF LinkInv, OnePending, PendingRight, QueueEndsRight, ListingRight, FreshConnection,
         SubscriptionFollowsWatchers

(* A call on a mint changes only that mint's count, keeps whether it is    *)
(* tracked or turns it and leaves a right change pending, and sends        *)
(* nothing.                                                                *)
LEMMA CallEffect ==
  ASSUME TrackerTypeOK, NEW c \in Callers, NEW m \in Mints,
         CallAddWatch(c, m) \/ CallRemoveWatch(c, m)
  PROVE  /\ UNCHANGED <<changeReq, dropped, connVars>>
         /\ ~InFlight(m) /\ pending[c] = {}
         /\ \A x \in Mints \ {m} : watcherCounts'[x] = watcherCounts[x]
         /\ \A d \in Callers \ {c} : pending'[d] = pending[d]
         /\ \/ /\ pending'[c] = {}
               /\ watcherCounts'[m] > 0 <=> watcherCounts[m] > 0
            \/ /\ \E ch \in Change : pending'[c] = {ch} /\ ch.mint = m /\ Right(ch)'
               /\ watcherCounts'[m] > 0 <=> ~(watcherCounts[m] > 0)
<1> USE DEF TrackerTypeOK
<1>1. CASE CallAddWatch(c, m)
  <2>1. watcherCounts' = [watcherCounts EXCEPT ![m] = @ + 1]
        /\ pending' = [pending EXCEPT
                         ![c] = IF watcherCounts'[m] > 1 THEN {} ELSE {Subscribe(m)}]
        /\ pending[c] = {} /\ ~InFlight(m)
        /\ UNCHANGED <<changeReq, dropped, connVars>>
    BY <1>1 DEF CallAddWatch, MakesCall, CountUp
  <2>2. watcherCounts'[m] > 0
    BY <2>1
  <2>3. Subscribe(m).mint = m /\ Subscribe(m).method = "subscribeTokenTrade"
    BY DEF Subscribe
  <2>4. CASE watcherCounts'[m] > 1
    BY <2>1, <2>4
  <2>5. CASE ~(watcherCounts'[m] > 1)
    BY <2>1, <2>2, <2>3, <2>5, SubscribeType DEF Right
  <2>6. QED BY <2>4, <2>5
<1>2. CASE CallRemoveWatch(c, m)
  <2>1. /\ CountDown(c, m) /\ pending[c] = {} /\ ~InFlight(m)
        /\ UNCHANGED connVars
    BY <1>2 DEF CallRemoveWatch, MakesCall
  <2>2. CASE watcherCounts[m] = 0
    BY <2>1, <2>2 DEF CountDown
  <2>3. CASE watcherCounts[m] > 1
    BY <2>1, <2>3 DEF CountDown
  <2>4. CASE watcherCounts[m] = 1
    <3>1. Unsubscribe(m).mint = m /\ Unsubscribe(m).method = "unsubscribeTokenTrade"
      BY DEF Unsubscribe
    <3>2. /\ watcherCounts' = [watcherCounts EXCEPT ![m] = 0]
          /\ pending' = [pending EXCEPT ![c] = {Unsubscribe(m)}]
          /\ UNCHANGED <<changeReq, dropped>>
      BY <2>1, <2>4 DEF CountDown
    <3>3. watcherCounts'[m] = 0 /\ \A x \in Mints \ {m} : watcherCounts'[x] = watcherCounts[x]
      BY <3>2
    <3>4. pending'[c] = {Unsubscribe(m)} /\ Right(Unsubscribe(m))'
      BY <3>1, <3>2, <3>3 DEF Right
    <3>5. QED BY <2>1, <2>4, <3>1, <3>2, <3>3, <3>4, SubscribeType
  <2>5. QED BY <2>2, <2>3, <2>4
<1>3. QED BY <1>1, <1>2

(* The three kinds of step keep the inductive invariant: a call, ... *)
LEMMA LinkCall ==
  ASSUME LinkInv, TrackerTypeOK', NEW c \in Callers, NEW m \in Mints,
         CallAddWatch(c, m) \/ CallRemoveWatch(c, m)
  PROVE  LinkInv'
<1> USE DEF LinkInv
<1>1. /\ UNCHANGED <<changeReq, dropped, conn, writer, toList, upstream>>
      /\ ~InFlight(m) /\ pending[c] = {}
      /\ \A x \in Mints \ {m} : watcherCounts'[x] = watcherCounts[x]
      /\ \A d \in Callers \ {c} : pending'[d] = pending[d]
  BY CallEffect DEF connVars
<1>2. \/ /\ pending'[c] = {}
         /\ watcherCounts'[m] > 0 <=> watcherCounts[m] > 0
      \/ \E ch \in Change : pending'[c] = {ch} /\ ch.mint = m /\ Right(ch)'
  BY CallEffect
<1>3. \A x \in Mints : ~InFlight(x)' =>
         ~InFlight(x) /\ (watcherCounts'[x] > 0 <=> watcherCounts[x] > 0)
  BY <1>1, <1>2 DEF InFlight
<1>4. \A x \in Mints : Settled(x)' => Settled(x)
  BY <1>1, <1>3 DEF Settled
<1>5. PendingRight'
  <2> SUFFICES ASSUME NEW d \in Callers, NEW ch \in pending'[d]
               PROVE  Right(ch)'
    BY DEF PendingRight
  <2>1. CASE d = c
    BY <1>2, <2>1
  <2>2. CASE d # c
    <3>1. ch \in pending[d] /\ ch \in Change
      BY <1>1, <2>2 DEF TrackerTypeOK
    <3>2. ch.mint # m /\ ch.mint \in Mints
      BY <1>1, <3>1 DEF InFlight, Change
    <3>3. QED BY <1>1, <3>1, <3>2 DEF PendingRight, Right
  <2>3. QED BY <2>1, <2>2
<1>6. QueueEndsRight'
  BY <1>1, <1>3 DEF QueueEndsRight, LastFor, Right
<1>7. ListingRight'
  BY <1>1, <1>3, <1>4 DEF ListingRight, Settled
<1>8. SubscriptionFollowsWatchers'
  BY <1>1, <1>3, <1>4 DEF SubscriptionFollowsWatchers, Agrees, Settled
<1>9. FreshConnection'
  BY <1>1 DEF FreshConnection
<1>10. OnePending'
  BY <1>1, <1>2 DEF OnePending
<1>11. QED BY <1>5, <1>6, <1>7, <1>8, <1>9, <1>10

(* ... a send, ... *)
LEMMA LinkSend ==
  ASSUME LinkInv, TrackerTypeOK', NEW c \in Callers, SendChange(c)
  PROVE  LinkInv'
<1> USE DEF LinkInv
<1>1. PICK ch \in pending[c] : SendChange(c)!(ch)
  BY DEF SendChange
<1>2. ch \in Change /\ ch.mint \in Mints /\ Right(ch)
  BY DEF TrackerTypeOK, Change, PendingRight
<1>3. /\ pending' = [pending EXCEPT ![c] = {}]
      /\ UNCHANGED <<watcherCounts, conn, writer, toList, upstream>>
      /\ \/ changeReq' = Append(changeReq, ch) /\ dropped' = dropped
         \/ changeReq' = changeReq /\ dropped' = dropped \cup {ch.mint}
  BY <1>1 DEF connVars
<1>4. \A d \in Callers : \A e \in pending'[d] : e \in pending[d]
  BY <1>3 DEF TrackerTypeOK
<1>5. \A x \in Mints : x # ch.mint /\ ~InFlight(x)' => ~InFlight(x)
  <2> SUFFICES ASSUME NEW x \in Mints, x # ch.mint,
                      NEW d \in Callers, NEW e \in pending[d], e.mint = x
               PROVE  e \in pending'[d]
    BY DEF InFlight
  <2>1. d # c
    BY DEF OnePending
  <2>2. QED BY <1>3, <2>1 DEF TrackerTypeOK
<1>6. /\ DOMAIN changeReq = 1..Len(changeReq) /\ Len(changeReq) \in Nat
      /\ changeReq' = Append(changeReq, ch) =>
           /\ DOMAIN changeReq' = 1..(Len(changeReq) + 1)
           /\ changeReq'[Len(changeReq) + 1] = ch
           /\ \A i \in DOMAIN changeReq : changeReq'[i] = changeReq[i]
  <2>1. changeReq \in Seq(Change)
    BY DEF TrackerTypeOK
  <2>2. QED BY <1>2, <2>1, AppendFacts
<1>7. \A x \in Mints \ dropped' : x # ch.mint \/ changeReq' = Append(changeReq, ch)
  BY <1>3
<1>8. \A x \in Mints \ dropped' : Settled(x)' => x # ch.mint /\ Settled(x)
  BY <1>3, <1>5, <1>6, <1>7 DEF Settled
<1>9. OnePending' /\ PendingRight'
  BY <1>3, <1>4 DEF OnePending, PendingRight, Right
<1>10. QueueEndsRight'
  <2> SUFFICES ASSUME NEW x \in Mints \ dropped', ~InFlight(x)',
                      NEW i \in DOMAIN changeReq', LastFor(x, i)'
               PROVE  Right(changeReq'[i])
    BY <1>3 DEF QueueEndsRight, Right
  <2>1. CASE changeReq' = Append(changeReq, ch)
    <3>1. CASE i = Len(changeReq) + 1 /\ changeReq'[i] = ch
      BY <1>2, <3>1
    <3>2. CASE /\ i \in DOMAIN changeReq /\ LastFor(x, i)
               /\ changeReq'[i] = changeReq[i] /\ ch.mint # x
      BY <1>3, <1>5, <3>2 DEF QueueEndsRight
    <3>3. QED BY <1>2, <2>1, <3>1, <3>2, LastAfterAppend DEF TrackerTypeOK
  <2>2. CASE changeReq' = changeReq /\ x # ch.mint
    BY <1>3, <1>5, <2>2 DEF QueueEndsRight, LastFor
  <2>3. QED BY <1>3, <1>7, <2>1, <2>2
<1>11. ListingRight'
  BY <1>3, <1>8 DEF ListingRight
<1>12. SubscriptionFollowsWatchers'
  BY <1>3, <1>8 DEF SubscriptionFollowsWatchers, Agrees
<1>13. FreshConnection'
  BY <1>3 DEF FreshConnection
<1>14. QED BY <1>9, <1>10, <1>11, <1>12, <1>13

(* The head is taken from the channel, or nothing is; counts and pending   *)
(* changes stay.  The channel still ends right.                            *)
LEMMA QueueAfterTake ==
  ASSUME LinkInv, UNCHANGED <<watcherCounts, pending>>,
         \/ changeReq' = changeReq
         \/ changeReq # <<>> /\ changeReq' = Tail(changeReq),
         \A m \in Mints \ dropped' :
            m \in dropped => \A i \in DOMAIN changeReq' : changeReq'[i].mint # m
  PROVE  OnePending' /\ PendingRight' /\ QueueEndsRight'
<1> USE DEF LinkInv
<1>1. OnePending' /\ PendingRight'
  BY DEF OnePending, PendingRight, Right
<1>2. QueueEndsRight'
  <2> SUFFICES ASSUME NEW m \in Mints \ dropped', ~InFlight(m)',
                      NEW i \in DOMAIN changeReq', LastFor(m, i)'
               PROVE  Right(changeReq'[i])
    BY DEF QueueEndsRight, Right
  <2>1. m \notin dropped
    BY DEF LastFor
  <2>2. ~InFlight(m)
    BY DEF InFlight
  <2>3. CASE changeReq' = changeReq
    BY <2>1, <2>2, <2>3 DEF QueueEndsRight, LastFor
  <2>4. CASE changeReq # <<>> /\ changeReq' = Tail(changeReq)
    <3>1. /\ i + 1 \in DOMAIN changeReq /\ LastFor(m, i + 1)
          /\ changeReq'[i] = changeReq[i + 1]
      BY <2>4, LastAfterTail DEF TrackerTypeOK
    <3>2. QED BY <2>1, <2>2, <3>1 DEF QueueEndsRight
  <2>5. QED BY <2>3, <2>4
<1>3. QED BY <1>1, <1>2

(* ... and a step of the connection. *)
LEMMA LinkConnection ==
  ASSUME LinkInv, TrackerTypeOK', ConnectionStep
  PROVE  LinkInv'
<1> USE DEF LinkInv
<1>1. CASE Dial
  <2>1. conn' = "up" /\ writer' = "start" /\ upstream' = {}
        /\ UNCHANGED <<watcherCounts, changeReq, pending, dropped>>
    BY <1>1 DEF Dial, countVars
  <2>2. OnePending' /\ PendingRight' /\ QueueEndsRight'
    BY <2>1, QueueAfterTake
  <2>3. QED
    BY <2>1, <2>2 DEF ListingRight, FreshConnection, SubscriptionFollowsWatchers
<1>2. CASE WriterLists
  <2>1. /\ writer = "start" /\ upstream' = {} /\ toList' = Tracked
        /\ writer' = IF Tracked = {} THEN "loop" ELSE "listing"
        /\ dropped' = {m \in dropped : \E i \in DOMAIN changeReq : changeReq[i].mint = m}
        /\ UNCHANGED <<watcherCounts, changeReq, pending>>
    BY <1>2 DEF WriterLists, countVars, FreshConnection
  <2>2. OnePending' /\ PendingRight' /\ QueueEndsRight'
    <3>1. \A m \in Mints \ dropped' :
            m \in dropped => \A i \in DOMAIN changeReq' : changeReq'[i].mint # m
      BY <2>1
    <3>2. QED BY <2>1, <3>1, QueueAfterTake
  <2>3. \A m \in Mints : m \in toList' <=> watcherCounts'[m] > 0
    BY <2>1 DEF Tracked
  <2>4. writer' # "start"
    BY <2>1
  <2>5. QED
    BY <2>1, <2>2, <2>3, <2>4
       DEF ListingRight, FreshConnection, SubscriptionFollowsWatchers, Agrees, Tracked
<1>3. CASE WriterSubscribesNext
  <2>1. PICK m \in toList : WriterSubscribesNext!2!(m)
    BY <1>3 DEF WriterSubscribesNext
  <2>2. /\ writer = "listing" /\ toList' = toList \ {m}
        /\ writer' = IF toList' = {} THEN "loop" ELSE "listing"
        /\ conn = "up" => upstream' = upstream \cup {m}
        /\ UNCHANGED <<conn, watcherCounts, changeReq, pending, dropped>>
    BY <1>3, <2>1 DEF WriterSubscribesNext, Written, countVars
  <2>3. OnePending' /\ PendingRight' /\ QueueEndsRight'
    BY <2>2, QueueAfterTake
  <2>4. conn = "up" => upstream' \cup toList' = upstream \cup toList
    BY <2>2
  <2>5. \A x \in Mints : Settled(x)' => Settled(x)
    BY <2>2 DEF Settled, InFlight
  <2>6. ListingRight'
    BY <2>2, <2>4, <2>5 DEF ListingRight
  <2>7. SubscriptionFollowsWatchers'
    BY <2>2, <2>4, <2>5 DEF ListingRight, SubscriptionFollowsWatchers, Agrees
  <2>8. QED BY <2>2, <2>3, <2>6, <2>7 DEF FreshConnection
<1>4. CASE WriterTakesChange
  <2>1. /\ writer = "loop" /\ changeReq # <<>> /\ changeReq' = Tail(changeReq)
        /\ conn = "up" => upstream' = Applied(Head(changeReq))
        /\ UNCHANGED <<conn, writer, toList, watcherCounts, pending, dropped>>
    BY <1>4 DEF WriterTakesChange, Written
  <2>2. OnePending' /\ PendingRight' /\ QueueEndsRight'
    BY <2>1, QueueAfterTake
  <2>3. SubscriptionFollowsWatchers'
    <3> SUFFICES ASSUME conn = "up", NEW m \in Mints \ dropped, Settled(m)'
                 PROVE  m \in upstream' <=> watcherCounts[m] > 0
      BY <2>1 DEF SubscriptionFollowsWatchers, Agrees
    <3>1. /\ ~InFlight(m)
          /\ IF Head(changeReq).mint = m THEN LastFor(m, 1) ELSE Settled(m)
          /\ 1 \in DOMAIN changeReq /\ Head(changeReq) = changeReq[1]
      BY <2>1, SettledAfterTail DEF TrackerTypeOK
    <3>2. Head(changeReq) \in Change
      BY <2>1, TailFacts DEF TrackerTypeOK
    <3>3. CASE Head(changeReq).mint = m
      <4>1. Right(Head(changeReq))
        BY <3>1, <3>3 DEF QueueEndsRight
      <4>2. QED BY <2>1, <3>2, <3>3, <4>1 DEF Applied, Right, Change
    <3>4. CASE Head(changeReq).mint # m
      <4>1. m \in upstream' <=> m \in upstream
        BY <2>1, <3>4 DEF Applied
      <4>2. QED
        BY <2>1, <3>1, <3>4, <4>1 DEF SubscriptionFollowsWatchers, Agrees
    <3>5. QED BY <3>3, <3>4
  <2>4. QED BY <2>1, <2>2, <2>3 DEF ListingRight, FreshConnection
<1>5. CASE WriterFails
  <2>1. /\ conn' = "broken" /\ writer' = "ended"
        /\ UNCHANGED <<watcherCounts, pending, dropped>>
        /\ changeReq' = changeReq \/ (changeReq # <<>> /\ changeReq' = Tail(changeReq))
    BY <1>5 DEF WriterFails
  <2>2. OnePending' /\ PendingRight' /\ QueueEndsRight'
    BY <2>1, QueueAfterTake
  <2>3. QED
    BY <2>1, <2>2 DEF ListingRight, FreshConnection, SubscriptionFollowsWatchers
<1>6. CASE ConnectionBreaks \/ ConsumeReturns
  <2>1. /\ conn' # "up" /\ (writer' = "start" => upstream' = {})
        /\ UNCHANGED <<watcherCounts, changeReq, pending, dropped>>
    BY <1>6 DEF ConnectionBreaks, ConsumeReturns, countVars
  <2>2. OnePending' /\ PendingRight' /\ QueueEndsRight'
    BY <2>1, QueueAfterTake
  <2>3. QED
    BY <2>1, <2>2 DEF ListingRight, FreshConnection, SubscriptionFollowsWatchers
<1>7. CASE StaleWriterTakesChange
  <2>1. /\ changeReq # <<>> /\ changeReq' = Tail(changeReq)
        /\ UNCHANGED <<conn, writer, toList, upstream, watcherCounts, pending>>
        /\ writer \in {"none", "start"} \/ dropped' = dropped \cup {Head(changeReq).mint}
        /\ dropped \subseteq dropped'
    BY <1>7 DEF StaleWriterTakesChange
  <2>2. OnePending' /\ PendingRight' /\ QueueEndsRight'
    BY <2>1, QueueAfterTake
  <2>3. \A m \in Mints \ dropped' :
           writer \notin {"none", "start"} /\ Settled(m)' => m \notin dropped /\ Settled(m)
    BY <2>1, SettledAfterTail DEF TrackerTypeOK
  <2>4. ListingRight'
    BY <2>1, <2>3 DEF ListingRight
  <2>5. SubscriptionFollowsWatchers'
    BY <2>1, <2>3 DEF SubscriptionFollowsWatchers, Agrees
  <2>6. QED BY <2>1, <2>2, <2>4, <2>5 DEF FreshConnection
<1>8. CASE StaleWriterEnds \/ \E m \in Mints : TradeArrives(m)
  <2>1. UNCHANGED <<conn, writer, toList, upstream, watcherCounts, changeReq,
                    pending, dropped>>
    BY <1>8 DEF StaleWriterEnds, TradeArrives, countVars, connVars
  <2>2. OnePending' /\ PendingRight' /\ QueueEndsRight'
    BY <2>1, QueueAfterTake
  <2>3. \A m \in Mints : Settled(m)' => Settled(m)
    BY <2>1 DEF Settled, InFlight
  <2>4. QED
    BY <2>1, <2>2, <2>3
       DEF ListingRight, FreshConnection, SubscriptionFollowsWatchers, Agrees
<1>9. QED
  BY <1>1, <1>2, <1>3, <1>4, <1>5, <1>6, <1>7, <1>8 DEF ConnectionStep

(* The inductive invariant is kept by every step of the tracker. *)
LEMMA LinkStep ==
  ASSUME LinkInv, [TrackerNext]_vars
  PROVE  LinkInv'
<1>1. TrackerTypeOK'
  BY TrackerTypeStep DEF LinkInv
<1>2. ASSUME NEW c \in Callers, NEW m \in Mints,
             CallAddWatch(c, m) \/ CallRemoveWatch(c, m)
      PROVE  LinkInv'
  BY <1>1, <1>2, LinkCall
<1>3. ASSUME NEW c \in Callers, SendChange(c)
      PROVE  LinkInv'
  BY <1>1, <1>3, LinkSend
<1>4. CASE ConnectionStep
  BY <1>1, <1>4, LinkConnection
<1>5. CASE UNCHANGED vars
  BY <1>1, <1>5
     DEF vars, trackerVars, countVars, connVars, LinkInv, OnePending,
         PendingRight, QueueEndsRight, ListingRight, FreshConnection,
         SubscriptionFollowsWatchers, Right, LastFor, InFlight, Settled, Agrees
<1>6. QED
  BY <1>2, <1>3, <1>4, <1>5 DEF TrackerNext

(* While the writer serves a live connection, the upstream streams exactly *)
(* the watched mints, up to changes under way and dropped ones: the claim  *)
(* of SubscriptionFollowsWatchers, for every instance.                     *)
THEOREM SubscriptionCorrect == TrackerSpec => []SubscriptionFollowsWatchers
<1>1. TrackerInit => LinkInv
  BY LinkInit
<1>2. LinkInv /\ [TrackerNext]_vars => LinkInv'
  BY LinkStep
<1>3. LinkInv => SubscriptionFollowsWatchers
  BY DEF LinkInv
<1>4. QED BY <1>1, <1>2, <1>3, PTL DEF TrackerSpec

(* Metrics of a mint disappear only when its count drops from one to zero. *)
THEOREM MetricsCorrect == TrackerSpec => MetricsLastAsLongAsWatched
<1>1. TrackerTypeOK /\ [TrackerNext]_vars =>
        [\A m \in metrics \ metrics' : watcherCounts[m] = 1 /\ watcherCounts'[m] = 0]_vars
  <2> SUFFICES ASSUME TrackerTypeOK, TrackerNext, NEW m \in metrics \ metrics'
               PROVE  watcherCounts[m] = 1 /\ watcherCounts'[m] = 0
    OBVIOUS
  <2>1. ASSUME NEW c \in Callers, NEW x \in Mints, CallAddWatch(c, x)
        PROVE  FALSE
    BY <2>1 DEF CallAddWatch, CountUp
  <2>2. ASSUME NEW c \in Callers, NEW x \in Mints, CallRemoveWatch(c, x)
        PROVE  watcherCounts[m] = 1 /\ watcherCounts'[m] = 0
    BY <2>2 DEF CallRemoveWatch, CountDown, TrackerTypeOK
  <2>3. ASSUME NEW c \in Callers, SendChange(c)
        PROVE  FALSE
    BY <2>3 DEF SendChange
  <2>4. ConnectionStep => FALSE
    BY DEF ConnectionStep, Dial, WriterLists, WriterSubscribesNext,
           WriterTakesChange, WriterFails, ConnectionBreaks, ConsumeReturns,
           StaleWriterTakesChange, StaleWriterEnds, TradeArrives, countVars
  <2>5. QED BY <2>1, <2>2, <2>3, <2>4 DEF TrackerNext
<1>2. TrackerSpec => []TrackerTypeOK /\ [][TrackerNext]_vars
  BY TrackerTypeCorrect, PTL DEF TrackerSpec
<1>3. QED BY <1>1, <1>2, PTL DEF MetricsLastAsLongAsWatched

-----------------------------------------------------------------------------
(* The tracker keeps its promise.                                          *)

(* Naturals have a first one; it is how a first change is found.  The      *)
(* library has it as < being well-founded.                                 *)
LEMMA Smallest ==
  ASSUME NEW S, S \subseteq Nat, S # {}
  PROVE  \E i \in S : \A j \in S : i <= j
<1> DEFINE R == OpToRel(<, Nat)
<1>1. \A i, j \in Nat : <<j, i>> \in R <=> j < i
  <2>1. R = {ss \in Nat \X Nat : ss[1] < ss[2]}
    BY DEF OpToRel
  <2> HIDE DEF R
  <2>2. QED BY <2>1
<1>2. IsWellFoundedOn(R, Nat)
  BY NatLessThanWellFounded
<1> HIDE DEF R
<1>3. PICK i \in S : \A j \in S : <<j, i>> \notin R
  BY <1>2, WFMin
<1>4. \A j \in S : ~(j < i)
  BY <1>1, <1>3, Zenon
<1>5. QED BY <1>4

(* One caller at a time has a change of a mint between unlock and send. *)
OneInFlight ==
  \A c, d \in Callers : \A ch \in pending[c], e \in pending[d] :
    ch.mint = e.mint => c = d

(* The changes about m alternate, from the channel to the caller. *)
Turns(m) ==
  /\ \A i, j \in About(m) :
       i < j /\ (\A k \in About(m) : k <= i \/ j <= k) => changeReq[i] # changeReq[j]
  /\ \A c \in Callers : \A ch \in pending[c] : ch.mint = m =>
       \A i \in About(m) : (\A k \in About(m) : k <= i) => changeReq[i] # ch

InTurns == OneInFlight /\ \A m \in Mints \ dropped : Turns(m)

(* There are two changes about a mint. *)
LEMMA ChangesAbout ==
  ASSUME NEW m \in Mints
  PROVE  \A ch, e \in Change : ch.mint = m /\ e.mint = m =>
           /\ ch = Subscribe(m) <=> ch.method = "subscribeTokenTrade"
           /\ ch # e => (ch = Subscribe(m) <=> e # Subscribe(m))
BY DEF Change, Subscribe

(* Where the changes about a mint are, and that there is a first. *)
LEMMA AboutFacts ==
  ASSUME changeReq \in Seq(Change), NEW m \in Mints
  PROVE  /\ About(m) \subseteq Nat
         /\ \A i \in About(m) : changeReq[i] \in Change /\ changeReq[i].mint = m
         /\ About(m) # {} => \E i \in About(m) : \A j \in About(m) : i <= j
         /\ Settled(m) <=> ~InFlight(m) /\ About(m) = {}
         /\ \A i \in About(m) : (\A k \in About(m) : k <= i) => LastFor(m, i)
<1>1. DOMAIN changeReq = 1 .. Len(changeReq) /\ Len(changeReq) \in Nat
      /\ \A i \in DOMAIN changeReq : changeReq[i] \in Change
  OBVIOUS
<1>2. About(m) \subseteq Nat
  BY <1>1 DEF About
<1>3. About(m) # {} => \E i \in About(m) : \A j \in About(m) : i <= j
  BY <1>2, Smallest
<1>4. \A i \in About(m) : changeReq[i] \in Change /\ changeReq[i].mint = m
  BY <1>1 DEF About
<1>5. Settled(m) <=> ~InFlight(m) /\ About(m) = {}
  BY DEF About, Settled
<1>6. \A i \in About(m) : (\A k \in About(m) : k <= i) => LastFor(m, i)
  BY <1>1 DEF About, LastFor
<1>7. QED BY <1>2, <1>3, <1>4, <1>5, <1>6

(* The first change about m decides what is next. *)
LEMMA FirstDecides ==
  ASSUME changeReq \in Seq(Change), NEW m \in Mints,
         NEW i \in About(m), \A j \in About(m) : i <= j
  PROVE  SubscribesNext(m) <=> changeReq[i] = Subscribe(m)
<1>1. \A j \in About(m) : (\A k \in About(m) : j <= k) => j = i
  BY AboutFacts
<1>2. QED BY <1>1 DEF SubscribesNext

(* With none in the channel, the one in flight does. *)
LEMMA InFlightDecides ==
  ASSUME TrackerTypeOK, OnePending, OneInFlight, NEW m \in Mints, About(m) = {},
         NEW c \in Callers, NEW ch \in pending[c], ch.mint = m
  PROVE  SubscribesNext(m) <=> ch = Subscribe(m)
<1>1. \A d \in Callers : \A e \in pending[d] : e.mint = m => e = ch
  BY DEF OnePending, OneInFlight
<1>2. Subscribe(m).mint = m
  BY DEF Subscribe
<1>3. QED BY <1>1, <1>2 DEF SubscribesNext

(* A step that leaves counts, channel and callers alone. *)
LEMMA TurnsSame ==
  ASSUME UNCHANGED <<watcherCounts, changeReq, pending>>, NEW m \in Mints
  PROVE  /\ OneInFlight' <=> OneInFlight
         /\ Turns(m)' <=> Turns(m)
         /\ Promise!StaysDue(m)
<1>1. /\ About(m)' = About(m) /\ (InFlight(m)' <=> InFlight(m))
      /\ SubscribesNext(m)' <=> SubscribesNext(m)
  BY DEF About, InFlight, SubscribesNext, Subscribe
<1>2. Settled(m)' <=> Settled(m)
  BY DEF Settled, InFlight
<1>3. Promise!StaysDue(m)
  BY <1>1, <1>2 DEF Promise!StaysDue, Promise!Alike, Tracked, Due, DueToSubscribe
<1>4. QED BY <1>1, <1>3 DEF OneInFlight, Turns

(* What a call does to a mint it is about, and to the others. *)
LEMMA TurnsCall ==
  ASSUME LinkInv, InTurns, TrackerTypeOK', NEW c \in Callers, NEW m \in Mints,
         CallAddWatch(c, m) \/ CallRemoveWatch(c, m)
  PROVE  /\ InTurns'
         /\ \A x \in Mints : Promise!Flips(x) \/ Promise!Idles(x)
<1> USE DEF InTurns
<1>1. /\ UNCHANGED <<changeReq, dropped, upstream>>
      /\ ~InFlight(m) /\ pending[c] = {}
      /\ \A x \in Mints \ {m} : watcherCounts'[x] = watcherCounts[x]
      /\ \A d \in Callers \ {c} : pending'[d] = pending[d]
  BY CallEffect DEF connVars, LinkInv
<1>2. CASE /\ pending'[c] = {}
           /\ watcherCounts'[m] > 0 <=> watcherCounts[m] > 0
  <2>1. \A d \in Callers : pending'[d] = pending[d]
    BY <1>1, <1>2
  <2>2. ASSUME NEW x \in Mints
        PROVE  /\ About(x)' = About(x) /\ (InFlight(x)' <=> InFlight(x))
               /\ SubscribesNext(x)' <=> SubscribesNext(x)
               /\ Turns(x)' <=> Turns(x)
    BY <1>1, <2>1 DEF About, InFlight, SubscribesNext, Turns
  <2>3. \A x \in Mints : Settled(x)' <=> Settled(x)
    BY <1>1, <2>2 DEF Settled
  <2>4. \A x \in Mints : Promise!Idles(x)
    BY <1>1, <1>2, <2>2, <2>3
       DEF Promise!Idles, Promise!StaysDue, Promise!Alike, Tracked, Due, DueToSubscribe
  <2>5. QED BY <1>1, <2>1, <2>2, <2>4 DEF OneInFlight
<1>3. ASSUME NEW ch \in Change, pending'[c] = {ch}, ch.mint = m, Right(ch)',
             watcherCounts'[m] > 0 <=> ~(watcherCounts[m] > 0)
      PROVE  InTurns' /\ \A x \in Mints : Promise!Flips(x) \/ Promise!Idles(x)
  <2>1. changeReq \in Seq(Change) /\ changeReq' \in Seq(Change)
    BY DEF LinkInv, TrackerTypeOK
  <2>2. ASSUME NEW x \in Mints, x # m
        PROVE  /\ About(x)' = About(x) /\ (InFlight(x)' <=> InFlight(x))
               /\ SubscribesNext(x)' <=> SubscribesNext(x)
               /\ Turns(x)' <=> Turns(x)
    <3>1. \A d \in Callers : \A e : e.mint = x => (e \in pending'[d] <=> e \in pending[d])
      BY <1>1, <1>3, <2>2
    <3>2. Subscribe(x).mint = x
      BY DEF Subscribe
    <3>3. QED BY <1>1, <3>1, <3>2 DEF About, InFlight, SubscribesNext, Turns
  <2>3. \A x \in Mints \ {m} : Promise!Idles(x)
    <3>1. \A x \in Mints \ {m} : Settled(x)' <=> Settled(x)
      BY <1>1, <2>2 DEF Settled
    <3>2. QED BY <1>1, <2>2, <3>1
             DEF Promise!Idles, Promise!StaysDue, Promise!Alike, Tracked, Due, DueToSubscribe
  <2>4. OneInFlight'
    BY <1>1, <1>3 DEF OneInFlight, InFlight
  <2>5. m \notin dropped => Turns(m)'
    <3> SUFFICES ASSUME m \notin dropped PROVE Turns(m)'
      OBVIOUS
    <3>1. \A i, j \in About(m)' :
            i < j /\ (\A k \in About(m)' : k <= i \/ j <= k) => changeReq'[i] # changeReq'[j]
      BY <1>1 DEF Turns, About
    <3>2. ASSUME NEW i \in About(m), \A k \in About(m) : k <= i
          PROVE  changeReq[i] # ch
      <4>1. LastFor(m, i) /\ i \in DOMAIN changeReq /\ changeReq[i].mint = m
        BY <2>1, <3>2, AboutFacts DEF About
      <4>2. Right(changeReq[i])
        BY <1>1, <4>1 DEF LinkInv, QueueEndsRight
      <4>3. QED BY <1>3, <4>1, <4>2 DEF Right
    <3>3. \A d \in Callers : \A e \in pending'[d] : e.mint = m => e = ch
      BY <1>1, <1>3 DEF InFlight
    <3>4. About(m)' = About(m)
      BY <1>1 DEF About
    <3>5. QED BY <1>1, <3>1, <3>2, <3>3, <3>4 DEF Turns
  <2>6. Promise!Flips(m)
    <3>1. m \in Due'
      BY <1>3 DEF Due, Settled, InFlight
    <3>2. About(m)' = About(m)
      BY <1>1 DEF About
    <3>3. CASE About(m) = {}
      <4>1. SubscribesNext(m)' <=> ch = Subscribe(m)
        <5>1. \A d \in Callers : \A e \in pending'[d] : e.mint = m => e = ch
          BY <1>1, <1>3 DEF InFlight
        <5>2. Subscribe(m).mint = m
          BY DEF Subscribe
        <5>3. QED BY <1>3, <3>2, <3>3, <5>1, <5>2 DEF SubscribesNext
      <4>2. m \in DueToSubscribe' <=> m \in Tracked'
        BY <1>3, <4>1, ChangesAbout DEF Right, DueToSubscribe, Tracked
      <4>3. m \notin Due
        BY <1>1, <2>1, <3>3, AboutFacts DEF Due
      <4>4. QED BY <1>1, <1>3, <3>1, <4>2, <4>3 DEF Promise!Flips, Promise!Alike, Tracked
    <3>4. CASE About(m) # {}
      <4>1. m \in Due
        BY <2>1, <3>4, AboutFacts DEF Due
      <4>2. SubscribesNext(m)' <=> SubscribesNext(m)
        BY <1>1, <3>2, <3>4 DEF SubscribesNext
      <4>3. QED BY <1>1, <1>3, <3>1, <4>1, <4>2
               DEF Promise!Flips, Promise!Alike, Tracked, DueToSubscribe
    <3>5. QED BY <3>3, <3>4
  <2>7. QED BY <1>1, <2>2, <2>3, <2>4, <2>5, <2>6
<1>4. QED BY <1>2, <1>3, CallEffect DEF LinkInv

(* A change that is sent has its turn in the channel as it had before. *)
LEMMA TurnsSend ==
  ASSUME LinkInv, InTurns, TrackerTypeOK', NEW c \in Callers, SendChange(c)
  PROVE  /\ InTurns'
         /\ \A x \in Mints \ dropped' : Promise!Idles(x)
<1> USE DEF InTurns
<1>1. PICK ch \in pending[c] : SendChange(c)!(ch)
  BY DEF SendChange
<1>2. /\ pending' = [pending EXCEPT ![c] = {}]
      /\ UNCHANGED <<watcherCounts, upstream>>
      /\ \/ changeReq' = Append(changeReq, ch) /\ dropped' = dropped
         \/ changeReq' = changeReq /\ dropped' = dropped \cup {ch.mint}
  BY <1>1 DEF connVars
<1>3. /\ ch \in Change /\ changeReq \in Seq(Change) /\ changeReq' \in Seq(Change)
      /\ TrackerTypeOK /\ OnePending
  BY DEF LinkInv, TrackerTypeOK
<1>4. /\ pending'[c] = {} /\ pending[c] = {ch}
      /\ \A d \in Callers \ {c} : pending'[d] = pending[d]
  BY <1>2, <1>3 DEF TrackerTypeOK, OnePending
<1>5. OneInFlight'
  BY <1>4 DEF OneInFlight
<1>6. ASSUME NEW x \in Mints \ dropped', x # ch.mint
      PROVE  Turns(x)' /\ Promise!Idles(x)
  <2>1. About(x)' = About(x) /\ \A i \in About(x) : changeReq'[i] = changeReq[i]
    <3>1. CASE changeReq' = changeReq
      BY <3>1 DEF About
    <3>2. CASE changeReq' = Append(changeReq, ch)
      BY <1>3, <1>6, <3>2, AppendFacts DEF About
    <3>3. QED BY <1>2, <3>1, <3>2
  <2>2. \A d \in Callers : \A e : e.mint = x => (e \in pending'[d] <=> e \in pending[d])
    BY <1>4, <1>6
  <2>3. x \notin dropped
    BY <1>2, <1>6
  <2>4. Turns(x)'
    BY <2>1, <2>2, <2>3 DEF Turns
  <2>5. Subscribe(x).mint = x
    BY DEF Subscribe
  <2>6. (InFlight(x)' <=> InFlight(x)) /\ (SubscribesNext(x)' <=> SubscribesNext(x))
    BY <2>1, <2>2, <2>5 DEF InFlight, SubscribesNext
  <2>7. Settled(x)' <=> Settled(x)
    BY <1>3, <2>1, <2>6, AboutFacts DEF Settled, About
  <2>8. QED
    BY <1>2, <2>4, <2>6, <2>7
       DEF Promise!Idles, Promise!StaysDue, Promise!Alike, Tracked, Due, DueToSubscribe
<1>7. ASSUME NEW x \in Mints \ dropped', x = ch.mint
      PROVE  Turns(x)' /\ Promise!Idles(x)
  <2> DEFINE n == Len(changeReq) + 1
  <2>1. changeReq' = Append(changeReq, ch) /\ x \notin dropped
    BY <1>2, <1>7
  <2>2. /\ About(x)' = About(x) \cup {n} /\ n \in Nat /\ changeReq'[n] = ch
        /\ \A i \in About(x) : i \in Nat /\ i < n /\ changeReq'[i] = changeReq[i]
    BY <1>3, <1>7, <2>1, AppendFacts DEF About
  <2> HIDE DEF n
  <2>3. \A d \in Callers : \A e \in pending'[d] : e.mint # x
    BY <1>4, <1>7 DEF OneInFlight
  <2>4. Turns(x)'
    <3>1. ASSUME NEW i \in About(x)', NEW j \in About(x)', i < j,
                 \A k \in About(x)' : k <= i \/ j <= k
          PROVE  changeReq'[i] # changeReq'[j]
      <4>1. i \in About(x)
        BY <2>2, <3>1
      <4>2. CASE j = n
        <5>1. \A k \in About(x) : k <= i
          BY <2>2, <3>1, <4>1, <4>2
        <5>2. changeReq[i] # ch
          BY <1>7, <2>1, <4>1, <5>1 DEF Turns
        <5>3. QED BY <2>2, <4>1, <4>2, <5>2
      <4>3. CASE j \in About(x)
        BY <2>1, <2>2, <3>1, <4>1, <4>3 DEF Turns
      <4>4. QED BY <2>2, <4>2, <4>3
    <3>2. QED BY <2>3, <3>1 DEF Turns
  <2>5. x \in Due /\ x \in Due'
    BY <1>3, <1>7, <2>2, AboutFacts DEF Due, Settled, InFlight, About
  <2>6. SubscribesNext(x)' <=> SubscribesNext(x)
    <3>1. CASE About(x) = {}
      <4>1. SubscribesNext(x) <=> ch = Subscribe(x)
        BY <1>3, <1>7, <3>1, InFlightDecides
      <4>2. SubscribesNext(x)' <=> ch = Subscribe(x)
        BY <2>2, <3>1 DEF SubscribesNext
      <4>3. QED BY <4>1, <4>2
    <3>2. CASE About(x) # {}
      <4>1. PICK i \in About(x) : \A j \in About(x) : i <= j
        BY <1>3, <3>2, AboutFacts
      <4>2. SubscribesNext(x) <=> changeReq[i] = Subscribe(x)
        BY <1>3, <4>1, FirstDecides
      <4>3. i \in About(x)' /\ \A j \in About(x)' : i <= j
        BY <2>2, <4>1
      <4>4. \A j \in About(x)' : (\A k \in About(x)' : j <= k) => j = i
        BY <2>2, <4>3
      <4>5. SubscribesNext(x)' <=> changeReq'[i] = Subscribe(x)
        BY <4>3, <4>4 DEF SubscribesNext, Subscribe
      <4>6. QED BY <2>2, <4>2, <4>5
    <3>3. QED BY <3>1, <3>2
  <2>7. QED
    BY <1>2, <2>4, <2>5, <2>6
       DEF Promise!Idles, Promise!StaysDue, Promise!Alike, Tracked, DueToSubscribe
<1>8. QED BY <1>2, <1>5, <1>6, <1>7

(* When the head of the channel is gone, its mint goes on to the next. *)
LEMMA TurnsTail ==
  ASSUME LinkInv, InTurns, changeReq # <<>>, changeReq' = Tail(changeReq),
         UNCHANGED <<watcherCounts, pending>>
  PROVE  /\ OneInFlight'
         /\ \A x \in Mints \ dropped : Turns(x)'
         /\ \A x \in Mints : x # Head(changeReq).mint => Promise!StaysDue(x)
         /\ LET x == Head(changeReq).mint
            IN x \notin dropped =>
                 /\ Promise!Passes(x)
                 /\ x \in DueToSubscribe <=> Head(changeReq) = Subscribe(x)
<1> USE DEF InTurns
<1>1. changeReq \in Seq(Change) /\ changeReq' \in Seq(Change) /\ TrackerTypeOK /\ OnePending
  BY TailFacts DEF LinkInv, TrackerTypeOK
<1>2. /\ Head(changeReq) = changeReq[1] /\ changeReq[1] \in Change
      /\ changeReq[1].mint \in Mints
  <2>1. Head(changeReq) = changeReq[1] /\ changeReq[1] \in Change
    BY <1>1, TailFacts
  <2>2. QED BY <2>1 DEF Change
<1>3. ASSUME NEW x \in Mints
      PROVE  /\ \A i \in About(x) : i \in Nat /\ (i = 1 \/ i - 1 \in About(x)')
             /\ \A i \in About(x)' : /\ i \in Nat /\ i >= 1 /\ i + 1 \in About(x)
                                    /\ changeReq'[i] = changeReq[i + 1]
             /\ 1 \in About(x) <=> changeReq[1].mint = x
  <2>1. /\ DOMAIN changeReq = 1..Len(changeReq) /\ Len(changeReq) \in Nat
        /\ Len(changeReq) > 0
        /\ DOMAIN changeReq' = 1..(Len(changeReq) - 1)
        /\ \A i \in 1..(Len(changeReq) - 1) : changeReq'[i] = changeReq[i + 1]
    BY <1>1, TailFacts
  <2>2. \A i \in About(x)' : /\ i \in Nat /\ i >= 1 /\ i + 1 \in About(x)
                            /\ changeReq'[i] = changeReq[i + 1]
    BY <2>1 DEF About
  <2>3. ASSUME NEW i \in About(x) PROVE i \in Nat /\ (i = 1 \/ i - 1 \in About(x)')
    <3>1. i \in 1..Len(changeReq) /\ changeReq[i].mint = x
      BY <2>1 DEF About
    <3>2. CASE i # 1
      <4>1. i - 1 \in 1..(Len(changeReq) - 1) /\ (i - 1) + 1 = i
        BY <2>1, <3>1, <3>2
      <4>2. changeReq'[i - 1].mint = x
        BY <2>1, <3>1, <4>1
      <4>3. QED BY <2>1, <3>1, <4>1, <4>2 DEF About
    <3>3. QED BY <3>1, <3>2
  <2>4. QED BY <2>1, <2>2, <2>3 DEF About
<1>4. ASSUME NEW x \in Mints \ dropped PROVE Turns(x)'
  <2>1. ASSUME NEW i \in About(x)', NEW j \in About(x)', i < j,
               \A k \in About(x)' : k <= i \/ j <= k
        PROVE  changeReq'[i] # changeReq'[j]
    <3>1. ASSUME NEW k \in About(x) PROVE k <= i + 1 \/ j + 1 <= k
      <4>1. i \in Nat /\ i >= 1 /\ j \in Nat /\ k \in Nat
        BY <1>3, <2>1
      <4>2. k = 1 \/ k - 1 <= i \/ j <= k - 1
        BY <1>3, <2>1
      <4>3. QED BY <4>1, <4>2
    <3>2. i + 1 \in About(x) /\ j + 1 \in About(x) /\ i + 1 < j + 1
      BY <1>3, <2>1
    <3>3. changeReq[i + 1] # changeReq[j + 1]
      BY <3>1, <3>2 DEF Turns
    <3>4. QED BY <1>3, <2>1, <3>3
  <2>2. ASSUME NEW d \in Callers, NEW ch \in pending'[d], ch.mint = x,
               NEW i \in About(x)', \A k \in About(x)' : k <= i
        PROVE  changeReq'[i] # ch
    <3>1. \A k \in About(x) : k <= i + 1
      BY <1>3, <2>2
    <3>2. i + 1 \in About(x)
      BY <1>3, <2>2
    <3>3. changeReq[i + 1] # ch
      BY <2>2, <3>1, <3>2 DEF Turns
    <3>4. QED BY <1>3, <2>2, <3>3
  <2>3. QED BY <2>1, <2>2 DEF Turns
<1>5. ASSUME NEW x \in Mints, x # changeReq[1].mint
      PROVE  Promise!StaysDue(x)
  <2>1. 1 \notin About(x) /\ (About(x)' = {} <=> About(x) = {})
    BY <1>3, <1>5
  <2>2. SubscribesNext(x)' <=> SubscribesNext(x)
    <3>1. CASE About(x) = {}
      BY <2>1, <3>1 DEF SubscribesNext, Subscribe
    <3>2. CASE About(x) # {}
      <4>1. PICK i \in About(x)' : \A j \in About(x)' : i <= j
        <5>1. About(x)' # {} /\ About(x)' \subseteq Nat
          BY <1>3, <2>1, <3>2
        <5>2. QED BY <5>1, Smallest
      <4>2. i + 1 \in About(x) /\ \A j \in About(x) : i + 1 <= j
        BY <1>3, <2>1, <4>1
      <4>3. SubscribesNext(x) <=> changeReq[i + 1] = Subscribe(x)
        BY <1>1, <4>2, FirstDecides
      <4>4. \A j \in About(x)' : (\A k \in About(x)' : j <= k) => j = i
        BY <1>3, <4>1
      <4>5. SubscribesNext(x)' <=> changeReq'[i] = Subscribe(x)
        BY <2>1, <3>2, <4>1, <4>4 DEF SubscribesNext, Subscribe
      <4>6. QED BY <1>3, <4>1, <4>3, <4>5
    <3>3. QED BY <3>1, <3>2
  <2>3. Settled(x)' <=> Settled(x)
    <3>1. InFlight(x)' <=> InFlight(x)
      BY DEF InFlight
    <3>2. Settled(x)' <=> ~InFlight(x)' /\ About(x)' = {}
      BY DEF Settled, About
    <3>3. Settled(x) <=> ~InFlight(x) /\ About(x) = {}
      BY <1>1, AboutFacts
    <3>4. QED BY <2>1, <3>1, <3>2, <3>3
  <2>4. QED
    BY <2>2, <2>3 DEF Promise!StaysDue, Promise!Alike, Tracked, Due, DueToSubscribe
<1>6. ASSUME NEW x \in Mints \ dropped, x = changeReq[1].mint
      PROVE  /\ Promise!Passes(x)
             /\ x \in DueToSubscribe <=> changeReq[1] = Subscribe(x)
  <2>1. 1 \in About(x) /\ \A j \in About(x) : 1 <= j
    BY <1>3, <1>6
  <2>2. SubscribesNext(x) <=> changeReq[1] = Subscribe(x)
    BY <1>1, <2>1, FirstDecides
  <2>3. x \in Due
    BY <1>1, <2>1, AboutFacts DEF Due
  <2>4. Settled(x)' <=> ~InFlight(x) /\ About(x)' = {}
    BY DEF Settled, About, InFlight
  <2>5. CASE About(x)' # {}
    <3>1. PICK i \in About(x)' : \A j \in About(x)' : i <= j
      <4>1. About(x)' \subseteq Nat
        BY <1>3
      <4>2. QED BY <2>5, <4>1, Smallest
    <3>2. \A j \in About(x)' : (\A k \in About(x)' : j <= k) => j = i
      BY <1>3, <3>1
    <3>3. SubscribesNext(x)' <=> changeReq'[i] = Subscribe(x)
      BY <2>5, <3>1, <3>2 DEF SubscribesNext, Subscribe
    <3>4. /\ i + 1 \in About(x) /\ 1 < i + 1 /\ changeReq'[i] = changeReq[i + 1]
          /\ \A k \in About(x) : k <= 1 \/ i + 1 <= k
      <4>1. i \in Nat /\ i >= 1 /\ i + 1 \in About(x) /\ changeReq'[i] = changeReq[i + 1]
        BY <1>3
      <4>2. ASSUME NEW k \in About(x) PROVE k <= 1 \/ i + 1 <= k
        <5>1. k \in Nat /\ (k = 1 \/ i <= k - 1)
          BY <1>3, <3>1
        <5>2. QED BY <4>1, <5>1
      <4>3. 1 < i + 1
        BY <4>1
      <4>4. QED BY <4>1, <4>2, <4>3
    <3>5. changeReq[1] # changeReq[i + 1]
      BY <2>1, <3>4 DEF Turns
    <3>6. /\ changeReq[1] \in Change /\ changeReq[i + 1] \in Change
          /\ changeReq[1].mint = x /\ changeReq[i + 1].mint = x
      BY <1>1, <2>1, <3>4, AboutFacts
    <3>7. SubscribesNext(x) <=> ~SubscribesNext(x)'
      BY <2>2, <3>3, <3>4, <3>5, <3>6, ChangesAbout
    <3>8. QED
      BY <2>2, <2>3, <2>4, <2>5, <3>7
         DEF Promise!Passes, Promise!Alike, Tracked, Due, DueToSubscribe
  <2>6. CASE About(x)' = {} /\ InFlight(x)
    <3>1. PICK d \in Callers : \E e \in pending[d] : e.mint = x
      BY <2>6 DEF InFlight
    <3>2. PICK ch \in pending[d] : ch.mint = x
      BY <3>1
    <3>3. \A k \in About(x) : k <= 1
      BY <1>3, <2>6
    <3>4. changeReq[1] # ch
      BY <2>1, <3>2, <3>3 DEF Turns
    <3>5. SubscribesNext(x)' <=> ch = Subscribe(x)
      <4>1. \A c \in Callers : \A e \in pending[c] : e.mint = x => e = ch
        BY <1>1, <3>2 DEF OnePending, OneInFlight
      <4>2. Subscribe(x).mint = x
        BY DEF Subscribe
      <4>3. SubscribesNext(x)' <=> \E c \in Callers : Subscribe(x) \in pending[c]
        BY <2>6 DEF SubscribesNext, Subscribe
      <4>4. QED BY <3>2, <4>1, <4>2, <4>3
    <3>6. ch \in Change /\ changeReq[1] \in Change
      BY <1>1, <1>2, <3>2 DEF TrackerTypeOK
    <3>7. SubscribesNext(x) <=> ~SubscribesNext(x)'
      BY <1>6, <2>2, <3>2, <3>4, <3>5, <3>6, ChangesAbout
    <3>8. QED
      BY <2>2, <2>3, <2>4, <2>6, <3>7
         DEF Promise!Passes, Promise!Alike, Tracked, Due, DueToSubscribe
  <2>7. CASE About(x)' = {} /\ ~InFlight(x)
    <3>1. \A k \in About(x) : k <= 1
      BY <1>3, <2>7
    <3>2. LastFor(x, 1) /\ 1 \in DOMAIN changeReq
      BY <1>1, <2>1, <3>1, AboutFacts DEF About
    <3>3. Right(changeReq[1])
      BY <2>7, <3>2 DEF LinkInv, QueueEndsRight
    <3>4. x \in DueToSubscribe <=> x \in Tracked
      BY <1>2, <1>6, <2>2, <3>3, ChangesAbout DEF Right, Tracked, DueToSubscribe
    <3>5. x \notin Due' /\ Tracked' = Tracked
      BY <2>4, <2>7 DEF Due, Tracked
    <3>6. QED
      BY <2>2, <2>3, <3>4, <3>5 DEF Promise!Passes, Promise!Alike, DueToSubscribe
  <2>8. QED BY <2>5, <2>6, <2>7
<1>7. OneInFlight'
  BY DEF OneInFlight
<1>8. QED BY <1>2, <1>4, <1>5, <1>6, <1>7

(* The invariant of the refinement, inductive as LinkInv is. *)
PromiseInv == LinkInv /\ InTurns

Serving == conn = "up" /\ writer = "loop"

(* What a step of the abstract specification asks of each mint. *)
Moves(x) ==
  \/ Promise!Flips(x) \/ Promise!Follows(x) \/ Promise!Misses(x)
  \/ Promise!Lists(x) \/ Promise!Breaks(x) \/ Promise!Idles(x)

(* The rest of it, for a step in which nothing is made good. *)
LEMMA PromiseStep ==
  ASSUME LinkInv', dropped \subseteq dropped',
         \A x \in Mints \ dropped' : Moves(x),
         Serving /\ ~Serving' => upstream' = {}
  PROVE  Promise!Next
<1>1. Serving' => \A x \in Mints \ (dropped' \cup Due') : x \in Tracked' <=> x \in upstream'
  BY DEF LinkInv, SubscriptionFollowsWatchers, Agrees, Due, Tracked, Serving
<1>2. \A x \in Mints \ (dropped \cup dropped') : Moves(x)
  OBVIOUS
<1>3. QED
  BY <1>1, <1>2 DEF Promise!Next, Promise!StartsRight, Promise!Alike, Moves, Serving

(* A step of the connection. *)
LEMMA PromiseConnection ==
  ASSUME PromiseInv, LinkInv', ConnectionStep
  PROVE  InTurns' /\ Promise!Next
<1> USE DEF PromiseInv, InTurns
<1>1. ASSUME UNCHANGED <<watcherCounts, changeReq, pending>>
      PROVE  /\ OneInFlight' /\ \A x \in Mints : Turns(x)' <=> Turns(x)
             /\ dropped' = dropped => InTurns'
             /\ \A x \in Mints : Promise!StaysDue(x)
             /\ upstream' = upstream => \A x \in Mints : Moves(x)
  <2>1. OneInFlight'
    BY <1>1 DEF OneInFlight
  <2>2. \A x \in Mints : (Turns(x)' <=> Turns(x)) /\ Promise!StaysDue(x)
    BY <1>1, TurnsSame
  <2>3. upstream' = upstream => \A x \in Mints : Moves(x)
    BY <2>2 DEF Moves, Promise!Idles, Promise!Alike
  <2>4. QED BY <2>1, <2>2, <2>3
<1>2. CASE Dial \/ ConnectionBreaks
  <2>1. /\ ~Serving' /\ upstream' = {} /\ dropped' = dropped
        /\ UNCHANGED <<watcherCounts, changeReq, pending>>
    BY <1>2 DEF Dial, ConnectionBreaks, countVars, Serving
  <2>2. \A x \in Mints : Moves(x)
    BY <1>1, <2>1 DEF Moves, Promise!Breaks, Serving
  <2>3. QED BY <1>1, <2>1, <2>2, PromiseStep
<1>3. CASE WriterLists
  <2>1. /\ writer = "start" /\ ~Serving
        /\ dropped' = {m \in dropped : \E i \in DOMAIN changeReq : changeReq[i].mint = m}
        /\ UNCHANGED <<watcherCounts, changeReq, pending, upstream>>
    BY <1>3 DEF WriterLists, countVars, Serving
  <2>2. /\ OneInFlight' /\ \A x \in Mints : Moves(x)
        /\ \A x \in Mints : Turns(x)' <=> Turns(x)
    BY <1>1, <2>1
  <2>3. ASSUME NEW x \in dropped \ dropped'
        PROVE  x \in Mints /\ About(x) = {} /\ About(x)' = {}
    BY <2>1, <2>3 DEF About, LinkInv, TrackerTypeOK
  <2>4. InTurns'
    BY <2>1, <2>2, <2>3 DEF Turns
  <2>5. ASSUME NEW x \in dropped \ dropped'
        PROVE  Promise!Recovers(x)
    <3>1. x \in Due' => (x \in Tracked' <=> x \in DueToSubscribe')
      <4> SUFFICES ASSUME InFlight(x) PROVE x \in Tracked' <=> x \in DueToSubscribe'
        BY <2>1, <2>3 DEF Due, Settled, About, InFlight
      <4>1. PICK c \in Callers : \E e \in pending[c] : e.mint = x
        BY DEF InFlight
      <4>2. PICK ch \in pending[c] : ch.mint = x
        BY <4>1
      <4>3. SubscribesNext(x) <=> ch = Subscribe(x)
        BY <2>3, <4>2, InFlightDecides DEF LinkInv
      <4>4. SubscribesNext(x)' <=> SubscribesNext(x)
        BY <2>1 DEF SubscribesNext, About, Subscribe
      <4>5. ch \in Change /\ Right(ch)
        BY <4>2 DEF LinkInv, TrackerTypeOK, PendingRight
      <4>6. QED
        BY <2>1, <2>3, <4>2, <4>3, <4>4, <4>5, ChangesAbout DEF Right, Tracked, DueToSubscribe
    <3>2. Tracked' = Tracked /\ upstream' = upstream
      BY <2>1 DEF Tracked
    <3>3. QED BY <2>1, <3>1, <3>2 DEF Promise!Recovers, Promise!Alike, Serving
  <2>6. Serving' => \A x \in Mints \ (dropped' \cup Due') : x \in Tracked' <=> x \in upstream'
    BY DEF LinkInv, SubscriptionFollowsWatchers, Agrees, Due, Tracked, Serving
  <2>7. Promise!Next
    BY <2>1, <2>2, <2>5, <2>6
       DEF Promise!Next, Promise!StartsRight, Promise!Alike, Moves, Serving
  <2>8. QED BY <2>4, <2>7
<1>4. CASE WriterSubscribesNext
  <2>1. PICK m \in toList : WriterSubscribesNext!2!(m)
    BY <1>4 DEF WriterSubscribesNext
  <2>2. /\ ~Serving /\ writer = "listing" /\ dropped' = dropped
        /\ upstream' = IF conn = "up" THEN upstream \cup {m} ELSE upstream
        /\ UNCHANGED <<watcherCounts, changeReq, pending>>
    BY <1>4, <2>1 DEF WriterSubscribesNext, Written, countVars, Serving
  <2>3. ASSUME NEW x \in Mints \ dropped PROVE Moves(x)
    <3>1. Promise!StaysDue(x)
      BY <1>1, <2>2
    <3>2. CASE conn = "up" /\ x = m
      <4>1. x \in Tracked \cup Due
        BY <2>2, <3>2 DEF LinkInv, ListingRight, Tracked, Due
      <4>2. QED BY <2>2, <3>1, <3>2, <4>1 DEF Moves, Promise!Lists, Serving
    <3>3. CASE ~(conn = "up" /\ x = m)
      BY <2>2, <3>1, <3>3 DEF Moves, Promise!Idles, Promise!Alike
    <3>4. QED BY <3>2, <3>3
  <2>4. QED BY <1>1, <2>2, <2>3, PromiseStep
<1>5. ASSUME changeReq # <<>>, changeReq' = Tail(changeReq),
             UNCHANGED <<watcherCounts, pending>>, dropped \subseteq dropped',
             \/ ~Serving /\ upstream' = upstream
             \/ Serving /\ Serving' /\ upstream' = Applied(Head(changeReq))
             \/ /\ Head(changeReq).mint \in dropped'
                /\ (Serving' <=> Serving) /\ upstream' = upstream
      PROVE  InTurns' /\ Promise!Next
  <2> DEFINE h == Head(changeReq).mint
  <2>1. /\ OneInFlight' /\ \A x \in Mints \ dropped : Turns(x)'
        /\ \A x \in Mints : x # h => Promise!StaysDue(x)
        /\ h \notin dropped =>
             /\ Promise!Passes(h)
             /\ h \in DueToSubscribe <=> Head(changeReq) = Subscribe(h)
    BY <1>5, TurnsTail
  <2>2. Head(changeReq) \in Change /\ h \in Mints
    <3>1. changeReq \in Seq(Change)
      BY DEF LinkInv, TrackerTypeOK
    <3>2. Head(changeReq) \in Change
      BY <1>5, <3>1, TailFacts
    <3>3. QED BY <3>2 DEF Change
  <2>3. Head(changeReq) = Subscribe(h) <=> Head(changeReq).method = "subscribeTokenTrade"
    BY <2>2, ChangesAbout
  <2> HIDE DEF h
  <2>4. ASSUME NEW x \in Mints \ dropped', x # h PROVE Moves(x)
    <3>1. Promise!Alike(x, upstream, upstream')
      <4>1. CASE upstream' = upstream
        BY <4>1 DEF Promise!Alike
      <4>2. CASE upstream' = Applied(Head(changeReq))
        BY <2>4, <4>2 DEF Promise!Alike, Applied, h
      <4>3. QED BY <1>5, <4>1, <4>2
    <3>2. QED BY <2>1, <2>4, <3>1 DEF Moves, Promise!Idles
  <2>5. ASSUME h \notin dropped' PROVE Moves(h)
    <3>1. CASE ~Serving /\ upstream' = upstream
      BY <1>5, <2>1, <2>5, <3>1 DEF Moves, Promise!Misses, Promise!Alike, Serving
    <3>2. CASE Serving /\ upstream' = Applied(Head(changeReq))
      <4>1. Promise!Alike(h, DueToSubscribe, upstream')
        BY <1>5, <2>1, <2>3, <2>5, <3>2 DEF Promise!Alike, Applied, h
      <4>2. QED BY <1>5, <2>1, <2>5, <3>2, <4>1 DEF Moves, Promise!Follows, Serving
    <3>3. h \in dropped' <=> Head(changeReq).mint \in dropped'
      BY DEF h
    <3>4. QED BY <1>5, <2>5, <3>1, <3>2, <3>3
  <2>6. QED BY <1>5, <2>1, <2>2, <2>4, <2>5, PromiseStep
<1>6. CASE WriterTakesChange
  BY <1>5, <1>6 DEF WriterTakesChange, Written, Serving
<1>7. CASE WriterFails
  <2>1. /\ ~Serving /\ upstream' = upstream /\ dropped' = dropped
        /\ UNCHANGED <<watcherCounts, pending>>
    BY <1>7 DEF WriterFails, Serving
  <2>2. CASE changeReq' = changeReq
    BY <1>1, <2>1, <2>2, PromiseStep
  <2>3. CASE changeReq # <<>> /\ changeReq' = Tail(changeReq)
    BY <1>5, <2>1, <2>3
  <2>4. QED BY <1>7, <2>2, <2>3 DEF WriterFails
<1>8. CASE StaleWriterTakesChange
  BY <1>5, <1>8 DEF StaleWriterTakesChange, Serving
<1>9. CASE ConsumeReturns \/ StaleWriterEnds \/ \E m \in Mints : TradeArrives(m)
  <2>1. /\ UNCHANGED <<watcherCounts, changeReq, pending, upstream, dropped>>
        /\ Serving' <=> Serving
    BY <1>9 DEF ConsumeReturns, StaleWriterEnds, TradeArrives, countVars, connVars, Serving
  <2>2. QED BY <1>1, <2>1, PromiseStep
<1>10. QED
  BY <1>2, <1>3, <1>4, <1>6, <1>7, <1>8, <1>9 DEF ConnectionStep

(* A tracker that has not begun promises nothing yet. *)
LEMMA PromiseInit ==
  ASSUME TrackerInit
  PROVE  PromiseInv /\ Promise!Init
<1>1. /\ watcherCounts = [m \in Mints |-> 0] /\ changeReq = <<>>
      /\ pending = [c \in Callers |-> {}] /\ upstream = {} /\ dropped = {}
      /\ conn = "down"
  BY DEF TrackerInit, NewTradeTracker
<1>2. DOMAIN changeReq = {}
  BY <1>1, EmptySequence
<1>3. \A m \in Mints : About(m) = {} /\ ~InFlight(m) /\ Settled(m)
  BY <1>1, <1>2 DEF About, InFlight, Settled
<1>4. InTurns
  BY <1>1, <1>3 DEF InTurns, OneInFlight, Turns
<1>5. Tracked = {} /\ Due = {}
  BY <1>1, <1>3 DEF Tracked, Due
<1>6. DueToSubscribe = {}
  BY <1>1, <1>3 DEF DueToSubscribe, SubscribesNext
<1>7. QED BY <1>1, <1>4, <1>5, <1>6, LinkInit DEF PromiseInv, Promise!Init

(* Every step of the tracker is one of the abstract specification. *)
LEMMA PromiseKept ==
  ASSUME PromiseInv, [TrackerNext]_vars
  PROVE  /\ PromiseInv'
         /\ Promise!Next \/ UNCHANGED Promise!promiseVars
<1>1. LinkInv' /\ TrackerTypeOK'
  BY LinkStep DEF PromiseInv, LinkInv
<1>2. ASSUME NEW c \in Callers, NEW m \in Mints,
             CallAddWatch(c, m) \/ CallRemoveWatch(c, m)
      PROVE  InTurns' /\ Promise!Next
  <2>1. InTurns' /\ \A x \in Mints : Promise!Flips(x) \/ Promise!Idles(x)
    BY <1>1, <1>2, TurnsCall DEF PromiseInv
  <2>2. dropped' = dropped /\ (Serving' <=> Serving)
    BY <1>2, CallEffect DEF PromiseInv, LinkInv, connVars, Serving
  <2>3. \A x \in Mints \ dropped' : Moves(x)
    BY <2>1 DEF Moves
  <2>4. QED BY <1>1, <2>1, <2>2, <2>3, PromiseStep
<1>3. ASSUME NEW c \in Callers, SendChange(c)
      PROVE  InTurns' /\ Promise!Next
  <2>1. InTurns' /\ \A x \in Mints \ dropped' : Promise!Idles(x)
    BY <1>1, <1>3, TurnsSend DEF PromiseInv
  <2>2. dropped \subseteq dropped' /\ (Serving' <=> Serving)
    BY <1>3 DEF SendChange, connVars, Serving
  <2>3. \A x \in Mints \ dropped' : Moves(x)
    BY <2>1 DEF Moves
  <2>4. QED BY <1>1, <2>1, <2>2, <2>3, PromiseStep
<1>4. CASE ConnectionStep
  BY <1>1, <1>4, PromiseConnection DEF PromiseInv
<1>5. CASE UNCHANGED vars
  <2>1. UNCHANGED <<watcherCounts, changeReq, pending, upstream, dropped, conn, writer>>
    BY <1>5 DEF vars, trackerVars, countVars, connVars
  <2>2. OneInFlight' /\ \A x \in Mints : Turns(x)' <=> Turns(x)
    BY <2>1, TurnsSame DEF PromiseInv, InTurns, OneInFlight
  <2>3. UNCHANGED <<Tracked, Due, DueToSubscribe>>
    BY <2>1 DEF Tracked, Due, Settled, InFlight, DueToSubscribe, SubscribesNext, About
  <2>4. QED BY <1>1, <2>1, <2>2, <2>3 DEF PromiseInv, InTurns, Promise!promiseVars
<1>6. QED
  BY <1>1, <1>2, <1>3, <1>4, <1>5 DEF TrackerNext, PromiseInv

(* The tracker implements OneSubscription: the upstream sees the changes   *)
(* of a mint in turns and in order, whatever the interleaving of calls,    *)
(* sends and reconnects; the claim of StreamsInTurn, for every instance.   *)
THEOREM StreamsCorrect == TrackerSpec => StreamsInTurn
<1>1. TrackerInit => PromiseInv /\ Promise!Init
  BY PromiseInit
<1>2. PromiseInv /\ [TrackerNext]_vars =>
        PromiseInv' /\ [Promise!Next]_(Promise!promiseVars)
  BY PromiseKept
<1>3. QED
  BY <1>1, <1>2, PTL DEF TrackerSpec, StreamsInTurn, Promise!Spec

=============================================================================
