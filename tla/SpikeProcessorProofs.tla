------------------------ MODULE SpikeProcessorProofs ------------------------
(***************************************************************************)
(* Proofs about ProcessEvent for any goroutines, mints, trades and window: *)
(* its types, that a recent signature counts once, that alerts have rows   *)
(* of their own and are spaced unless raced, and what prune keeps of a     *)
(* list that is out of order.                                              *)
(***************************************************************************)
EXTENDS SpikeProcessor, TLAPS, SequenceTheorems

(* What every input is made of. *)
LEMMA InputFields ==
  /\ AnyEvent \in Inputs
  /\ \A e \in Inputs : /\ e.mint \in Mints /\ e.at \in Nat
                       /\ e.wallet \in Wallets /\ e.volume \in Nat
                       /\ e.sig \in Signatures \cup {NoSignature}
<1>1. AnyEvent \in Inputs
  BY SpikeAssumption DEF AnyEvent
<1>2. QED BY <1>1, SpikeAssumption

-----------------------------------------------------------------------------
(* The volume window.                                                      *)

(* A list is in order but for a disorder of d. *)
Sorted(list, d) ==
  \A k, l \in DOMAIN list : k < l => list[k].at <= list[l].at + d

In(list, trade) == \E k \in DOMAIN list : list[k] = trade

(* The suffix that prune keeps, in terms of positions. *)
LEMMA SuffixOf ==
  ASSUME NEW list \in Seq(Trade), NEW i \in 0 .. Len(list),
         NEW kept, kept = SubSeq(list, i + 1, Len(list))
  PROVE  /\ kept \in Seq(Trade)
         /\ DOMAIN kept = 1 .. Len(list) - i
         /\ \A k \in DOMAIN kept : k + i \in DOMAIN list /\ kept[k] = list[k + i]
<1>1. Len(list) \in Nat /\ DOMAIN list = 1 .. Len(list)
  BY LenProperties
<1>2. \A k \in i + 1 .. Len(list) : list[k] \in Trade
  BY <1>1, ElementOfSeq
<1>3. /\ kept \in Seq(Trade)
      /\ Len(kept) = IF i + 1 <= Len(list) THEN Len(list) - (i + 1) + 1 ELSE 0
      /\ \A k \in 1 .. Len(list) - (i + 1) + 1 : kept[k] = list[(i + 1) + k - 1]
  BY <1>1, <1>2, SubSeqProperties
<1>4. DOMAIN kept = 1 .. Len(list) - i
  BY <1>1, <1>3, LenProperties
<1>5. QED BY <1>1, <1>3, <1>4

(* Pruning loses nothing younger than an hour less the disorder, and does  *)
(* not add to the disorder.                                                *)
LEMMA PruningKeeps ==
  ASSUME NEW list \in Seq(Trade), NEW now \in Int, NEW d \in Nat,
         Sorted(list, d), NEW kept \in Prunings(list, now)
  PROVE  /\ kept \in Seq(Trade)
         /\ Sorted(kept, d)
         /\ \A trade : In(list, trade) =>
                         In(kept, trade) \/ trade.at < now - Hour + d
<1>1. PICK i \in 0 .. Len(list) :
        /\ kept = SubSeq(list, i + 1, Len(list))
        /\ i > 0 => ~Recent(list[i], now)
  BY DEF Prunings, SearchResults
<1>2. /\ kept \in Seq(Trade)
      /\ DOMAIN kept = 1 .. Len(list) - i
      /\ \A k \in DOMAIN kept : k + i \in DOMAIN list /\ kept[k] = list[k + i]
  BY <1>1, SuffixOf
<1>3. /\ Len(list) \in Nat /\ DOMAIN list = 1 .. Len(list)
      /\ \A k \in DOMAIN list : list[k].at \in Nat
  <2>1. Len(list) \in Nat /\ DOMAIN list = 1 .. Len(list)
    BY LenProperties
  <2>2. \A k \in DOMAIN list : list[k] \in Trade
    BY <2>1, ElementOfSeq
  <2>3. QED BY <2>1, <2>2 DEF Trade
<1>4. ASSUME NEW k \in DOMAIN kept, NEW l \in DOMAIN kept, k < l
      PROVE  kept[k].at <= kept[l].at + d
  <2>1. /\ k + i \in DOMAIN list /\ kept[k] = list[k + i]
        /\ l + i \in DOMAIN list /\ kept[l] = list[l + i]
    BY <1>2
  <2>2. k + i < l + i
    BY <1>2, <1>3, <1>4
  <2>3. list[k + i].at <= list[l + i].at + d
    BY <2>1, <2>2 DEF Sorted
  <2>4. QED BY <2>1, <2>3
<1>5. ASSUME NEW k \in DOMAIN list
      PROVE  In(kept, list[k]) \/ list[k].at < now - Hour + d
  <2>1. CASE k > i
    <3>1. k - i \in DOMAIN kept /\ kept[k - i] = list[k]
      BY <1>2, <1>3, <2>1
    <3>2. QED BY <3>1 DEF In
  <2>2. CASE k <= i
    <3>1. i \in DOMAIN list /\ list[i].at < now - Hour
      BY <1>1, <1>3, <2>2, VolumeWindowAssumption DEF Recent
    <3>2. list[k].at <= list[i].at + d
      BY <1>3, <2>2, <3>1 DEF Sorted
    <3>3. QED BY <1>3, <3>1, <3>2, VolumeWindowAssumption
  <2>3. QED BY <1>3, <2>1, <2>2
<1>6. QED BY <1>2, <1>4, <1>5 DEF In, Sorted

-----------------------------------------------------------------------------
(* Type correctness.                                                       *)

(* The clean-up of the cache, for any size of it. *)
LEMMA CleanedType ==
  ASSUME NEW cache \in [Signatures -> {"never", "recent", "expired"}]
  PROVE  /\ Cleaned(cache) \in [Signatures -> {"never", "recent", "expired"}]
         /\ \A s \in Signatures : Cleaned(cache)[s] = "recent" <=> cache[s] = "recent"
<1>1. CASE Cleaned(cache) = cache
  BY <1>1
<1>2. CASE Cleaned(cache) = [s \in Signatures |->
                               IF cache[s] = "expired" THEN "never" ELSE cache[s]]
  BY <1>2
<1>3. QED BY <1>1, <1>2 DEF Cleaned

LEMMA TypeInit ==
  ASSUME Init
  PROVE  TypeOK
BY InputFields, SpikeAssumption, EmptySeq DEF Init, TypeOK, Everywhere, Never, Steps

LEMMA TypeStep ==
  ASSUME TypeOK, [Next]_vars
  PROVE  TypeOK'
<1> USE DEF TypeOK
<1>1. ASSUME NEW g \in Goroutines, NEW e \in Inputs, SkipsSeen(g, e)
      PROVE  TypeOK'
  <2>1. delivered' \in 0 .. MaxEvents
    BY <1>1, SpikeAssumption DEF SkipsSeen, Delivers
  <2>2. QED BY <1>1, <2>1 DEF SkipsSeen, Delivers, tradeHistory
<1>2. ASSUME NEW g \in Goroutines, NEW e \in Inputs, TakesIn(g, e)
      PROVE  TypeOK'
  <2>1. seen' \in [Signatures -> {"never", "recent", "expired"}]
        /\ letIn' \in [Signatures -> Nat]
    <3>1. CASE UNCHANGED <<seen, letIn>>
      BY <3>1
    <3>2. CASE /\ e.sig \in Signatures
               /\ seen' = Cleaned([seen EXCEPT ![e.sig] = "recent"])
               /\ letIn' = [letIn EXCEPT ![e.sig] = @ + 1]
      <4>1. [seen EXCEPT ![e.sig] = "recent"]
              \in [Signatures -> {"never", "recent", "expired"}]
        OBVIOUS
      <4>2. seen' \in [Signatures -> {"never", "recent", "expired"}]
        BY <3>2, <4>1, CleanedType
      <4>3. letIn[e.sig] + 1 \in Nat
        BY <3>2
      <4>4. QED BY <3>2, <4>2, <4>3
    <3>3. QED BY <1>2, <3>1, <3>2 DEF TakesIn, LetIn
  <2>2. step' \in [Goroutines -> Steps] /\ event' \in [Goroutines -> Inputs]
    BY <1>2 DEF TakesIn, Goes, Steps
  <2>3. delivered' \in 0 .. MaxEvents
    BY <1>2, SpikeAssumption DEF TakesIn, Delivers
  <2>4. QED BY <1>2, <2>1, <2>2, <2>3 DEF TakesIn, Delivers, tradeHistory
<1>3. ASSUME NEW g \in Goroutines, AddEvent(g)
      PROVE  TypeOK'
  <2> DEFINE m == event[g].mint
             trade == TradeOf(event[g])
  <2>1. /\ m \in Mints /\ trade \in Trade /\ trade.at = event[g].at
        /\ event[g].at \in Nat
    <3>1. /\ event[g] \in Inputs /\ event[g].mint \in Mints /\ event[g].at \in Nat
          /\ event[g].wallet \in Wallets /\ event[g].volume \in Nat
      BY InputFields
    <3>2. delivered \in Nat
      BY SpikeAssumption
    <3>3. QED BY <3>1, <3>2 DEF TradeOf, Trade
  <2>2. PICK kept \in Prunings(Append(events[m], trade), event[g].at) :
          events' = [events EXCEPT ![m] = kept]
    BY <1>3 DEF AddEvent
  <2>3. kept \in Seq(Trade)
    <3>1. Append(events[m], trade) \in Seq(Trade)
      BY <2>1, AppendProperties
    <3>2. PICK i \in 0 .. Len(Append(events[m], trade)) :
            kept = SubSeq(Append(events[m], trade), i + 1,
                          Len(Append(events[m], trade)))
      BY <2>2 DEF Prunings, SearchResults
    <3>3. QED BY <3>1, <3>2, SuffixOf
  <2>4. events' \in [Mints -> Seq(Trade)]
    BY <2>2, <2>3
  <2>5. /\ added' \in [Mints -> SUBSET Trade] /\ newest' \in [Mints -> Nat]
        /\ disorder' \in [Mints -> Nat]
    <3>1. RecordTrade(m, trade)
      BY <1>3 DEF AddEvent
    <3>2. /\ Later(newest[m], trade.at) \in Nat
          /\ Later(disorder[m], newest[m] - trade.at) \in Nat
      BY <2>1 DEF Later
    <3>3. QED BY <2>1, <3>1, <3>2 DEF RecordTrade
  <2>6. step' \in [Goroutines -> Steps] /\ event' \in [Goroutines -> Inputs]
        /\ detected' \in [Goroutines -> BOOLEAN]
    <3>1. Returns(g) \/ (Goes(g, "evaluate") /\ UNCHANGED <<event, detected>>)
      BY <1>3 DEF AddEvent
    <3>2. QED BY <3>1, InputFields DEF Goes, Returns, Steps
  <2>7. QED BY <1>3, <2>4, <2>5, <2>6 DEF AddEvent
<1>4. ASSUME NEW g \in Goroutines, Evaluate(g)
      PROVE  TypeOK'
  <2> DEFINE m == event[g].mint
  <2>1. m \in Mints
    BY InputFields
  <2>2. PICK kept \in Prunings(events[m], event[g].at) :
          /\ events' = [events EXCEPT ![m] = kept]
          /\ detected' = [detected EXCEPT ![g] = Detected(kept, event[g].at)]
    BY <1>4 DEF Evaluate
  <2>3. PICK i \in 0 .. Len(events[m]) :
          kept = SubSeq(events[m], i + 1, Len(events[m]))
    BY <2>2 DEF Prunings, SearchResults
  <2>4. kept \in Seq(Trade)
    BY <2>1, <2>3, SuffixOf
  <2>5. Detected(kept, event[g].at) \in BOOLEAN
    BY DEF Detected
  <2>6. events' \in [Mints -> Seq(Trade)] /\ detected' \in [Goroutines -> BOOLEAN]
    BY <2>2, <2>4, <2>5
  <2>7. QED BY <1>4, <2>6 DEF Evaluate, historyVars, tradeHistory, Goes, Steps
<1>5. ASSUME NEW g \in Goroutines, StoreSnapshot(g) \/ Suppressed(g)
      PROVE  TypeOK'
  BY <1>5, InputFields DEF StoreSnapshot, Suppressed, Goes, Returns, Steps,
     Continues, tradeHistory
<1>6. ASSUME NEW g \in Goroutines, PassesThrottle(g)
      PROVE  TypeOK'
  <2>1. raced' \in SUBSET (Nat \X Mints)
    BY <1>6, InputFields, SpikeAssumption DEF PassesThrottle
  <2>2. QED BY <1>6, <2>1 DEF PassesThrottle, Goes, Steps, Continues, tradeHistory
<1>7. ASSUME NEW g \in Goroutines, MarksThrottle(g)
      PROVE  TypeOK'
  BY <1>7, InputFields DEF MarksThrottle, Goes, Steps, Continues, tradeHistory
<1>8. ASSUME NEW g \in Goroutines, InsertSpike(g)
      PROVE  TypeOK'
  <2>1. SpikeID(event[g]) \in Mints \X Nat
    BY InputFields DEF SpikeID
  <2>2. QED BY <1>8, <2>1, InputFields DEF InsertSpike, Goes, Returns, Steps,
               Continues, tradeHistory
<1>9. ASSUME NEW g \in Goroutines, Alerts(g)
      PROVE  TypeOK'
  <2>1. [mint |-> event[g].mint, at |-> event[g].at, run |-> run]
          \in [mint : Mints, at : Nat, run : Nat]
    BY InputFields, SpikeAssumption
  <2>2. alerts' \in Seq([mint : Mints, at : Nat, run : Nat])
    BY <1>9, <2>1, AppendProperties DEF Alerts
  <2>3. QED BY <1>9, <2>2, InputFields DEF Alerts, Returns, Goes, Steps,
               Continues, tradeHistory
<1>10. ASSUME NEW s \in Signatures, SignatureExpires(s)
       PROVE  TypeOK'
  BY <1>10 DEF SignatureExpires, jobVars, tradeHistory
<1>11. CASE Restart
  BY <1>11, InputFields, SpikeAssumption, EmptySeq DEF Restart, Everywhere, Never, Steps
<1>12. CASE UNCHANGED vars
  BY <1>12 DEF vars, memoryVars, jobVars, historyVars, tradeHistory
<1>13. QED BY <1>1, <1>2, <1>3, <1>4, <1>5, <1>6, <1>7, <1>8, <1>9, <1>10, <1>11,
              <1>12 DEF Next, ProcessStep

(***************************************************************************)
(* The processor's data keep their types: every list of trades holds       *)
(* trades, every row of spike_events an id.                                *)
(***************************************************************************)
THEOREM SpikeTypeCorrect == Spec => []TypeOK
<1>1. QED BY TypeInit, TypeStep, PTL DEF Spec

-----------------------------------------------------------------------------
(* One count per recent signature.                                         *)

SignatureInv ==
  \A s \in Signatures :
    letIn[s] <= 1 /\ (seen[s] # "recent" => letIn[s] = 0)

LEMMA SignatureStep ==
  ASSUME TypeOK, SignatureInv, [Next]_vars
  PROVE  SignatureInv'
<1>1. CASE UNCHANGED <<seen, letIn>>
  BY <1>1 DEF SignatureInv
<1>2. ASSUME NEW e \in Inputs, LetIn(e.sig)
      PROVE  SignatureInv'
  <2>1. CASE /\ e.sig \in Signatures /\ seen[e.sig] # "recent"
             /\ seen' = Cleaned([seen EXCEPT ![e.sig] = "recent"])
             /\ letIn' = [letIn EXCEPT ![e.sig] = @ + 1]
    <3> DEFINE cache == [seen EXCEPT ![e.sig] = "recent"]
    <3>1. cache \in [Signatures -> {"never", "recent", "expired"}]
      BY DEF TypeOK
    <3>2. \A s \in Signatures : seen'[s] = "recent" <=> cache[s] = "recent"
      BY <2>1, <3>1, CleanedType
    <3>3. letIn'[e.sig] = 1
      BY <2>1 DEF TypeOK, SignatureInv
    <3>4. \A s \in Signatures \ {e.sig} : letIn'[s] = letIn[s]
      BY <2>1 DEF TypeOK
    <3>5. seen'[e.sig] = "recent"
      BY <2>1, <3>2 DEF TypeOK
    <3>6. \A s \in Signatures \ {e.sig} : seen'[s] = "recent" <=> seen[s] = "recent"
      BY <3>2 DEF TypeOK
    <3>7. QED BY <3>3, <3>4, <3>5, <3>6 DEF SignatureInv
  <2>2. QED BY <1>1, <1>2, <2>1 DEF LetIn
<1>3. ASSUME NEW s \in Signatures, SignatureExpires(s)
      PROVE  SignatureInv'
  BY <1>3 DEF SignatureExpires, SignatureInv, TypeOK
<1>4. CASE Restart
  BY <1>4 DEF Restart, Everywhere, SignatureInv
<1>5. ASSUME NEW g \in Goroutines, ProcessStep(g)
      PROVE  SignatureInv'
  BY <1>1, <1>2, <1>5 DEF ProcessStep, SkipsSeen, TakesIn, AddEvent, Evaluate,
     StoreSnapshot, Suppressed, PassesThrottle, MarksThrottle, InsertSpike, Alerts,
     Continues, historyVars
<1>6. CASE UNCHANGED vars
  BY <1>1, <1>6 DEF vars, memoryVars, historyVars
<1>7. QED BY <1>3, <1>4, <1>5, <1>6 DEF Next

(***************************************************************************)
(* While a signature is recent, at most one event of it is let in, through *)
(* any number of goroutines and any clean-up of the cache: the letting in  *)
(* marks it recent, and no clean-up forgets a recent entry.                *)
(***************************************************************************)
THEOREM SignaturesCountOnce == Spec => []CountedOnce
<1>1. Init => SignatureInv
  BY DEF Init, Everywhere, SignatureInv
<1>2. SignatureInv => CountedOnce
  BY DEF SignatureInv, CountedOnce
<1>3. QED BY SpikeTypeCorrect, SignatureStep, <1>1, <1>2, PTL DEF Spec

-----------------------------------------------------------------------------
(* What prune keeps.                                                       *)

(* A trade about to be evaluated has been added, so no trade is newer than *)
(* the newest; the list is in order but for the disorder.                  *)
TradesInv ==
  /\ \A m \in Mints :
       /\ Sorted(events[m], disorder[m])
       /\ \A k \in DOMAIN events[m] : events[m][k].at <= newest[m]
  /\ \A g \in Goroutines :
       step[g] = "evaluate" => event[g].at <= newest[event[g].mint]
  /\ \A m \in Mints : \A trade \in added[m] :
       In(events[m], trade) \/ trade.at < newest[m] - Hour + disorder[m]

LEMMA TradesKeptIfInv ==
  ASSUME TypeOK, TradesInv
  PROVE  RecentTradesKept
<1> SUFFICES ASSUME NEW m \in Mints, NEW trade \in added[m],
                    trade.at >= newest[m] - Hour + disorder[m]
             PROVE  trade \in Kept(m)
  BY DEF RecentTradesKept
<1>1. trade.at \in Nat /\ newest[m] \in Nat /\ disorder[m] \in Nat
  BY DEF TypeOK, Trade
<1>2. In(events[m], trade)
  BY <1>1, VolumeWindowAssumption DEF TradesInv
<1>3. QED BY <1>2 DEF In, Kept

(* A list that prune has shortened. *)
LEMMA PruneStep ==
  ASSUME TypeOK, TradesInv, NEW m \in Mints, NEW list \in Seq(Trade),
         NEW now \in Nat, NEW kept \in Prunings(list, now),
         now <= newest'[m], newest'[m] \in Nat, disorder'[m] \in Nat,
         Sorted(list, disorder'[m]),
         \A k \in DOMAIN list : list[k].at <= newest'[m]
  PROVE  /\ Sorted(kept, disorder'[m])
         /\ \A k \in DOMAIN kept : kept[k].at <= newest'[m]
         /\ \A trade : In(list, trade) =>
              In(kept, trade) \/ trade.at < newest'[m] - Hour + disorder'[m]
<1>1. /\ kept \in Seq(Trade)
      /\ Sorted(kept, disorder'[m])
      /\ \A trade : In(list, trade) =>
           In(kept, trade) \/ trade.at < now - Hour + disorder'[m]
  BY PruningKeeps
<1>2. PICK i \in 0 .. Len(list) : kept = SubSeq(list, i + 1, Len(list))
  BY DEF Prunings, SearchResults
<1>3. \A k \in DOMAIN kept : kept[k].at <= newest'[m]
  BY <1>2, SuffixOf
<1>4. ASSUME NEW trade, In(list, trade)
      PROVE  In(kept, trade) \/ trade.at < newest'[m] - Hour + disorder'[m]
  <2>1. trade.at \in Nat
    <3>1. PICK k \in DOMAIN list : list[k] = trade
      BY <1>4 DEF In
    <3>2. trade \in Trade
      BY <3>1, LenProperties, ElementOfSeq
    <3>3. QED BY <3>2 DEF Trade
  <2>2. QED BY <1>1, <1>4, <2>1, VolumeWindowAssumption
<1>5. QED BY <1>1, <1>3, <1>4

LEMMA AddEventKeepsTrades ==
  ASSUME TypeOK, TradesInv, NEW g \in Goroutines, AddEvent(g)
  PROVE  TradesInv'
<1> DEFINE m == event[g].mint
           now == event[g].at
           trade == TradeOf(event[g])
           list == Append(events[m], trade)
<1>1. m \in Mints /\ now \in Nat /\ trade.at = now /\ trade \in Trade
  <2>1. /\ event[g].mint \in Mints /\ event[g].at \in Nat
        /\ event[g].wallet \in Wallets /\ event[g].volume \in Nat
    BY InputFields DEF TypeOK
  <2>2. delivered \in Nat
    BY SpikeAssumption DEF TypeOK
  <2>3. QED BY <2>1, <2>2 DEF TradeOf, Trade
<1>2. PICK kept \in Prunings(list, now) : events' = [events EXCEPT ![m] = kept]
  BY <1>1 DEF AddEvent
<1>3. /\ newest' = [newest EXCEPT ![m] = Later(@, now)]
      /\ disorder' = [disorder EXCEPT ![m] = Later(@, newest[m] - now)]
      /\ added' = [added EXCEPT ![m] = @ \cup {trade}]
  BY <1>1 DEF AddEvent, RecordTrade
<1>4. /\ events[m] \in Seq(Trade) /\ newest[m] \in Nat /\ disorder[m] \in Nat
      /\ newest'[m] \in Nat /\ disorder'[m] \in Nat
      /\ newest'[m] >= newest[m] /\ newest'[m] >= now
      /\ disorder'[m] >= disorder[m] /\ disorder'[m] >= newest[m] - now
  <2>1. events[m] \in Seq(Trade) /\ newest[m] \in Nat /\ disorder[m] \in Nat
    BY <1>1 DEF TypeOK
  <2>2. /\ newest'[m] = Later(newest[m], now)
        /\ disorder'[m] = Later(disorder[m], newest[m] - now)
    BY <1>1, <1>3 DEF TypeOK
  <2>3. QED BY <1>1, <2>1, <2>2 DEF Later
<1>5. /\ list \in Seq(Trade) /\ DOMAIN list = 1 .. Len(events[m]) + 1
      /\ DOMAIN events[m] = 1 .. Len(events[m]) /\ Len(events[m]) \in Nat
      /\ \A k \in DOMAIN events[m] : list[k] = events[m][k]
      /\ list[Len(events[m]) + 1] = trade
  BY <1>1, <1>4, AppendProperties, LenProperties
<1> HIDE DEF m, now, trade, list
<1>6. \A k \in DOMAIN list : list[k].at \in Nat
  <2>1. \A k \in DOMAIN list : list[k] \in Trade
    BY <1>5, ElementOfSeq, LenProperties
  <2>2. QED BY <2>1 DEF Trade
<1>7. ASSUME NEW k \in DOMAIN list
      PROVE  list[k].at <= newest'[m]
  <2>1. CASE k \in DOMAIN events[m]
    BY <1>1, <1>4, <1>5, <1>6, <2>1 DEF TradesInv
  <2>2. CASE k = Len(events[m]) + 1
    BY <1>1, <1>4, <1>5, <2>2
  <2>3. QED BY <1>5, <2>1, <2>2
<1>8. Sorted(list, disorder'[m])
  <2> SUFFICES ASSUME NEW k \in DOMAIN list, NEW l \in DOMAIN list, k < l
               PROVE  list[k].at <= list[l].at + disorder'[m]
    BY DEF Sorted
  <2>1. k \in DOMAIN events[m] /\ list[k] = events[m][k]
    BY <1>5
  <2>2. CASE l \in DOMAIN events[m]
    <3>1. list[k].at <= list[l].at + disorder[m]
      BY <1>1, <1>5, <2>1, <2>2 DEF TradesInv, Sorted
    <3>2. QED BY <1>4, <1>6, <3>1
  <2>3. CASE l = Len(events[m]) + 1
    <3>1. list[k].at <= newest[m] /\ list[l].at = now
      BY <1>1, <1>5, <2>1, <2>3 DEF TradesInv
    <3>2. QED BY <1>1, <1>4, <1>6, <3>1
  <2>4. QED BY <1>5, <2>2, <2>3
<1>9. /\ Sorted(kept, disorder'[m])
      /\ \A k \in DOMAIN kept : kept[k].at <= newest'[m]
      /\ \A t : In(list, t) =>
           In(kept, t) \/ t.at < newest'[m] - Hour + disorder'[m]
  BY <1>1, <1>2, <1>4, <1>5, <1>7, <1>8, PruneStep
<1>10. events'[m] = kept
  BY <1>1, <1>2 DEF TypeOK
<1>11. \A x \in Mints \ {m} : /\ events'[x] = events[x] /\ newest'[x] = newest[x]
                              /\ disorder'[x] = disorder[x] /\ added'[x] = added[x]
  BY <1>1, <1>2, <1>3 DEF TypeOK
<1>12. ASSUME NEW t \in added'[m]
       PROVE  In(events'[m], t) \/ t.at < newest'[m] - Hour + disorder'[m]
  <2>1. CASE In(list, t)
    BY <1>9, <1>10, <2>1
  <2>2. CASE ~In(list, t)
    <3>1. t # trade /\ t \in added[m] /\ ~In(events[m], t)
      <4>1. ~In(events[m], t) /\ t # trade
        BY <1>5, <2>2 DEF In
      <4>2. added'[m] = added[m] \cup {trade}
        BY <1>1, <1>3 DEF TypeOK
      <4>3. QED BY <1>12, <4>1, <4>2
    <3>2. t.at < newest[m] - Hour + disorder[m] /\ t.at \in Nat
      BY <1>1, <3>1 DEF TradesInv, TypeOK, Trade
    <3>3. QED BY <1>4, <3>2, VolumeWindowAssumption
  <2>3. QED BY <2>1, <2>2
<1>13. ASSUME NEW h \in Goroutines, step'[h] = "evaluate"
       PROVE  event'[h].at <= newest'[event'[h].mint]
  <2>1. CASE h = g
    <3>1. event'[g] = event[g]
      BY <1>13, <2>1 DEF AddEvent, Returns, Goes, TypeOK
    <3>2. QED BY <1>4, <2>1, <3>1 DEF m, now
  <2>2. CASE h # g
    <3>1. event'[h] = event[h] /\ step'[h] = step[h]
      BY <2>2 DEF AddEvent, Returns, Goes, TypeOK
    <3>2. event[h].at <= newest[event[h].mint]
      BY <1>13, <3>1 DEF TradesInv
    <3>3. /\ event[h].mint \in Mints /\ event[h].at \in Nat
      BY InputFields DEF TypeOK
    <3>4. newest[event[h].mint] \in Nat
      BY <3>3 DEF TypeOK
    <3>5. newest[event[h].mint] <= newest'[event[h].mint]
                   /\ newest'[event[h].mint] \in Nat
      BY <1>4, <1>11, <3>3, <3>4
    <3>6. QED BY <3>1, <3>2, <3>3, <3>4, <3>5
  <2>3. QED BY <2>1, <2>2
<1>14. QED BY <1>1, <1>9, <1>10, <1>11, <1>12, <1>13 DEF TradesInv

LEMMA EvaluateKeepsTrades ==
  ASSUME TypeOK, TradesInv, NEW g \in Goroutines, Evaluate(g)
  PROVE  TradesInv'
<1> DEFINE m == event[g].mint
           now == event[g].at
<1>1. m \in Mints /\ now \in Nat
  BY InputFields DEF TypeOK
<1>2. PICK kept \in Prunings(events[m], now) : events' = [events EXCEPT ![m] = kept]
  BY DEF Evaluate
<1>3. /\ newest' = newest /\ disorder' = disorder /\ added' = added
      /\ event' = event /\ step' = [step EXCEPT ![g] = "snapshot"]
  BY DEF Evaluate, historyVars, tradeHistory, Goes
<1>4. now <= newest[m]
  BY DEF Evaluate, TradesInv
<1> HIDE DEF m, now
<1>5. /\ events[m] \in Seq(Trade) /\ newest[m] \in Nat /\ disorder[m] \in Nat
  BY <1>1 DEF TypeOK
<1>6. /\ Sorted(events[m], disorder[m])
      /\ \A k \in DOMAIN events[m] : events[m][k].at <= newest[m]
  BY <1>1 DEF TradesInv
<1>7. /\ Sorted(kept, disorder'[m])
      /\ \A k \in DOMAIN kept : kept[k].at <= newest'[m]
      /\ \A t : In(events[m], t) =>
           In(kept, t) \/ t.at < newest'[m] - Hour + disorder'[m]
  BY <1>1, <1>2, <1>3, <1>4, <1>5, <1>6, PruneStep
<1>8. /\ events'[m] = kept
      /\ \A x \in Mints \ {m} : events'[x] = events[x]
  BY <1>1, <1>2 DEF TypeOK
<1>9. \A h \in Goroutines : step'[h] = "evaluate" => step[h] = "evaluate"
  BY <1>3 DEF TypeOK
<1>10. QED BY <1>1, <1>3, <1>7, <1>8, <1>9 DEF TradesInv

LEMMA TradesStep ==
  ASSUME TypeOK, TradesInv, [Next]_vars
  PROVE  TradesInv'
<1>1. ASSUME UNCHANGED <<events, tradeHistory>>,
             \A g \in Goroutines : step'[g] = "evaluate" =>
               step[g] = "evaluate" /\ event'[g] = event[g]
      PROVE  TradesInv'
  BY <1>1 DEF TradesInv, tradeHistory
<1>2. ASSUME NEW g \in Goroutines, ProcessStep(g), ~AddEvent(g), ~Evaluate(g)
      PROVE  TradesInv'
  <2>1. UNCHANGED <<events, tradeHistory>>
    BY <1>2 DEF ProcessStep, SkipsSeen, TakesIn, Delivers, StoreSnapshot, Suppressed,
       PassesThrottle, MarksThrottle, InsertSpike, Alerts, Continues, tradeHistory
  <2>2. \A h \in Goroutines : h # g => step'[h] = step[h] /\ event'[h] = event[h]
    BY <1>2 DEF ProcessStep, SkipsSeen, TakesIn, Delivers, StoreSnapshot, Suppressed,
       PassesThrottle, MarksThrottle, InsertSpike, Alerts, Goes, Returns, TypeOK
  <2>3. step'[g] # "evaluate"
    BY <1>2 DEF ProcessStep, SkipsSeen, TakesIn, Delivers, StoreSnapshot, Suppressed,
       PassesThrottle, MarksThrottle, InsertSpike, Alerts, Goes, Returns, TypeOK
  <2>4. QED BY <1>1, <2>1, <2>2, <2>3
<1>3. ASSUME NEW s \in Signatures, SignatureExpires(s)
      PROVE  TradesInv'
  BY <1>1, <1>3 DEF SignatureExpires, jobVars, tradeHistory
<1>4. CASE Restart
  BY <1>4 DEF Restart, Everywhere, TradesInv, Sorted, In
<1>5. CASE UNCHANGED vars
  BY <1>1, <1>5 DEF vars, memoryVars, jobVars, historyVars, tradeHistory
<1>6. QED BY <1>2, <1>3, <1>4, <1>5, AddEventKeepsTrades, EvaluateKeepsTrades DEF Next

(***************************************************************************)
(* A trade no older than an hour, less how late trades have come, before   *)
(* the newest of its mint is in the list: pruning by bisection loses       *)
(* nothing that matters to a window shorter than that.                     *)
(***************************************************************************)
THEOREM TradesKept == Spec => []RecentTradesKept
<1>1. Init => TradesInv
  BY DEF Init, Everywhere, TradesInv, Sorted, In
<1>2. QED BY SpikeTypeCorrect, TradesStep, TradesKeptIfInv, <1>1, PTL DEF Spec

-----------------------------------------------------------------------------
(* Alerts and their rows.                                                  *)

(* A goroutine about to alert has stored a row nobody else alerts for. *)
RowInv ==
  /\ AlertsHaveTheirOwnRow
  /\ \A g \in Goroutines : step[g] = "alert" =>
       /\ SpikeID(event[g]) \in spikeRows
       /\ \A i \in DOMAIN alerts : SpikeID(alerts[i]) # SpikeID(event[g])
       /\ \A h \in Goroutines \ {g} :
            step[h] = "alert" => SpikeID(event[h]) # SpikeID(event[g])

(* The sequence of alerts when one is appended. *)
LEMMA AlertAppended ==
  ASSUME TypeOK, NEW g \in Goroutines, Alerts(g)
  PROVE  /\ DOMAIN alerts = 1 .. Len(alerts) /\ Len(alerts) \in Nat
         /\ DOMAIN alerts' = 1 .. Len(alerts) + 1
         /\ \A i \in DOMAIN alerts : alerts'[i] = alerts[i]
         /\ alerts'[Len(alerts) + 1] =
              [mint |-> event[g].mint, at |-> event[g].at, run |-> run]
<1>1. [mint |-> event[g].mint, at |-> event[g].at, run |-> run]
        \in [mint : Mints, at : Nat, run : Nat]
  BY InputFields, SpikeAssumption DEF TypeOK
<1>2. alerts \in Seq([mint : Mints, at : Nat, run : Nat])
  BY DEF TypeOK
<1>3. QED BY <1>1, <1>2, AppendProperties, LenProperties DEF Alerts

LEMMA AlertKeepsRows ==
  ASSUME TypeOK, RowInv, NEW g \in Goroutines, Alerts(g)
  PROVE  RowInv'
<1> DEFINE id == SpikeID(event[g])
           last == Len(alerts) + 1
<1>1. /\ DOMAIN alerts' = DOMAIN alerts \cup {last} /\ last \notin DOMAIN alerts
      /\ \A i \in DOMAIN alerts : alerts'[i] = alerts[i]
      /\ SpikeID(alerts'[last]) = id
  <2>1. /\ DOMAIN alerts = 1 .. Len(alerts) /\ Len(alerts) \in Nat
        /\ DOMAIN alerts' = 1 .. Len(alerts) + 1
        /\ \A i \in DOMAIN alerts : alerts'[i] = alerts[i]
        /\ alerts'[last] =
             [mint |-> event[g].mint, at |-> event[g].at, run |-> run]
    BY AlertAppended, Zenon
  <2>2. DOMAIN alerts' = DOMAIN alerts \cup {last} /\ last \notin DOMAIN alerts
    BY <2>1
  <2>3. SpikeID(alerts'[last]) = id
    BY <2>1 DEF SpikeID
  <2>4. QED BY <2>1, <2>2, <2>3
<1>2. /\ id \in spikeRows /\ spikeRows' = spikeRows
      /\ \A i \in DOMAIN alerts : SpikeID(alerts[i]) # id
      /\ \A h \in Goroutines \ {g} : step[h] = "alert" => SpikeID(event[h]) # id
  BY DEF Alerts, RowInv
<1>3. /\ step'[g] = "idle"
      /\ \A h \in Goroutines \ {g} : step'[h] = step[h] /\ event'[h] = event[h]
  BY DEF Alerts, Returns, Goes, TypeOK
<1> HIDE DEF id, last
<1>4. AlertsHaveTheirOwnRow'
  <2> SUFFICES ASSUME NEW i \in DOMAIN alerts', NEW j \in DOMAIN alerts'
               PROVE  /\ SpikeID(alerts'[i]) \in spikeRows'
                      /\ SpikeID(alerts'[i]) = SpikeID(alerts'[j]) => i = j
    BY DEF AlertsHaveTheirOwnRow, SpikeID
  <2>1. \A k, l \in DOMAIN alerts :
          /\ SpikeID(alerts[k]) \in spikeRows
          /\ SpikeID(alerts[k]) = SpikeID(alerts[l]) => k = l
    BY DEF RowInv, AlertsHaveTheirOwnRow
  <2>2. QED BY <1>1, <1>2, <2>1
<1>5. ASSUME NEW h \in Goroutines, step'[h] = "alert"
      PROVE  /\ SpikeID(event'[h]) \in spikeRows'
             /\ \A i \in DOMAIN alerts' : SpikeID(alerts'[i]) # SpikeID(event'[h])
             /\ \A k \in Goroutines \ {h} :
                  step'[k] = "alert" => SpikeID(event'[k]) # SpikeID(event'[h])
  <2>1. h # g /\ step[h] = "alert" /\ event'[h] = event[h]
    BY <1>3, <1>5
  <2>2. /\ SpikeID(event[h]) \in spikeRows
        /\ \A i \in DOMAIN alerts : SpikeID(alerts[i]) # SpikeID(event[h])
        /\ \A k \in Goroutines \ {h} :
             step[k] = "alert" => SpikeID(event[k]) # SpikeID(event[h])
    BY <2>1 DEF RowInv
  <2>3. QED BY <1>1, <1>2, <1>3, <2>1, <2>2
<1>6. QED BY <1>4, <1>5 DEF RowInv, SpikeID

LEMMA RowStep ==
  ASSUME TypeOK, RowInv, [Next]_vars
  PROVE  RowInv'
<1>1. ASSUME UNCHANGED <<alerts, spikeRows>>,
             \A g \in Goroutines : step'[g] = "alert" =>
               step[g] = "alert" /\ event'[g] = event[g]
      PROVE  RowInv'
  BY <1>1 DEF RowInv, AlertsHaveTheirOwnRow, SpikeID
<1>2. ASSUME NEW g \in Goroutines, InsertSpike(g)
      PROVE  RowInv'
  <2>1. alerts' = alerts
    BY <1>2 DEF InsertSpike
  <2>2. \A h \in Goroutines \ {g} : step'[h] = step[h] /\ event'[h] = event[h]
    BY <1>2 DEF InsertSpike, Goes, Returns, TypeOK
  <2>3. CASE /\ SpikeID(event[g]) \notin spikeRows
             /\ spikeRows' = spikeRows \cup {SpikeID(event[g])}
             /\ Goes(g, "alert")
             /\ UNCHANGED <<event, detected>>
    <3>1. /\ \A i \in DOMAIN alerts : SpikeID(alerts[i]) # SpikeID(event[g])
          /\ \A h \in Goroutines \ {g} :
               step[h] = "alert" => SpikeID(event[h]) # SpikeID(event[g])
      BY <2>3 DEF RowInv, AlertsHaveTheirOwnRow
    <3>2. QED BY <2>1, <2>2, <2>3, <3>1 DEF RowInv, AlertsHaveTheirOwnRow, SpikeID
  <2>4. CASE Returns(g) /\ UNCHANGED spikeRows
    <3>1. step'[g] = "idle"
      BY <2>4 DEF Returns, Goes, TypeOK
    <3>2. QED BY <1>1, <2>1, <2>2, <2>4, <3>1
  <2>5. QED BY <1>2, <2>3, <2>4 DEF InsertSpike
<1>3. ASSUME NEW g \in Goroutines, ProcessStep(g), ~InsertSpike(g), ~Alerts(g)
      PROVE  RowInv'
  <2>1. UNCHANGED <<alerts, spikeRows>>
    BY <1>3 DEF ProcessStep, SkipsSeen, TakesIn, Delivers, AddEvent, Evaluate,
       StoreSnapshot, Suppressed, PassesThrottle, MarksThrottle, historyVars
  <2>2. \A h \in Goroutines : h # g => step'[h] = step[h] /\ event'[h] = event[h]
    BY <1>3 DEF ProcessStep, SkipsSeen, TakesIn, Delivers, AddEvent, Evaluate,
       StoreSnapshot, Suppressed, PassesThrottle, MarksThrottle, Goes, Returns, TypeOK
  <2>3. step'[g] # "alert"
    BY <1>3 DEF ProcessStep, SkipsSeen, TakesIn, Delivers, AddEvent, Evaluate,
       StoreSnapshot, Suppressed, PassesThrottle, MarksThrottle, Goes, Returns, TypeOK
  <2>4. QED BY <1>1, <2>1, <2>2, <2>3
<1>4. ASSUME NEW s \in Signatures, SignatureExpires(s)
      PROVE  RowInv'
  BY <1>1, <1>4 DEF SignatureExpires, jobVars
<1>5. CASE Restart
  BY <1>1, <1>5 DEF Restart, Everywhere
<1>6. CASE UNCHANGED vars
  BY <1>1, <1>6 DEF vars, jobVars, historyVars
<1>7. QED BY <1>2, <1>3, <1>4, <1>5, <1>6, AlertKeepsRows DEF Next

(***************************************************************************)
(* Whatever the goroutines do together and however often the process is    *)
(* started again, every alert has a row of spike_events to itself.         *)
(***************************************************************************)
THEOREM AlertsKeepRows == Spec => []AlertsHaveTheirOwnRow
<1>1. Init => RowInv
  BY DEF Init, Everywhere, RowInv, AlertsHaveTheirOwnRow
<1>2. RowInv => AlertsHaveTheirOwnRow
  BY DEF RowInv
<1>3. QED BY SpikeTypeCorrect, RowStep, <1>1, <1>2, PTL DEF Spec

-----------------------------------------------------------------------------
(* The throttle, where it has not been raced.                              *)

(* Past the throttle: the mark is written, the alert not yet sent. *)
Held(g) == step[g] \in {"insert", "alert"}

Raced(m) == <<run, m>> \in raced

(* What the throttle of a mint knows of the alerts of this run.            *)
AlertsBehind ==
  \A i \in DOMAIN alerts :
    /\ alerts[i].run <= run
    /\ alerts[i].run = run /\ ~Raced(alerts[i].mint)
         => alerts[i].at <= lastSpikeAt[alerts[i].mint]

HeldBehind ==
  \A g \in Goroutines : Held(g) /\ ~Raced(event[g].mint) =>
    /\ event[g].at <= lastSpikeAt[event[g].mint]
    /\ \A i \in DOMAIN alerts :
         alerts[i].run = run /\ alerts[i].mint = event[g].mint
           => Apart(alerts[i].at, event[g].at)
    /\ \A h \in Goroutines \ {g} :
         Held(h) /\ event[h].mint = event[g].mint => Apart(event[h].at, event[g].at)

MarkAhead ==
  \A g \in Goroutines : step[g] = "mark" /\ ~Raced(event[g].mint) =>
    /\ \/ lastSpikeAt[event[g].mint] = Never
       \/ event[g].at - lastSpikeAt[event[g].mint] >= MinEmit
    /\ \A h \in Goroutines \ {g} :
         ~(step[h] = "mark" /\ event[h].mint = event[g].mint)

SpacingInv ==
  /\ AlertsSpacedUnlessRaced /\ AlertsBehind /\ HeldBehind /\ MarkAhead

(* The types the arithmetic of this section needs. *)
LEMMA SpacingTypes ==
  ASSUME TypeOK
  PROVE  /\ run \in Nat /\ MinEmit \in Nat \ {0}
         /\ \A m \in Mints : lastSpikeAt[m] \in Int /\ lastSpikeAt[m] >= Never
         /\ \A g \in Goroutines : event[g].mint \in Mints /\ event[g].at \in Nat
         /\ \A i \in DOMAIN alerts : /\ alerts[i].mint \in Mints /\ alerts[i].at \in Nat
                                     /\ alerts[i].run \in Nat
<1>1. run \in Nat /\ MinEmit \in Nat \ {0}
  BY SpikeAssumption DEF TypeOK
<1>2. \A m \in Mints : lastSpikeAt[m] \in Int /\ lastSpikeAt[m] >= Never
  BY DEF TypeOK, Never
<1>3. \A g \in Goroutines : event[g].mint \in Mints /\ event[g].at \in Nat
  BY InputFields DEF TypeOK
<1>4. \A i \in DOMAIN alerts : alerts[i] \in [mint : Mints, at : Nat, run : Nat]
  <2>1. alerts \in Seq([mint : Mints, at : Nat, run : Nat])
    BY DEF TypeOK
  <2>2. QED BY <2>1, LenProperties, ElementOfSeq
<1>5. QED BY <1>1, <1>2, <1>3, <1>4

(* A step in which nobody comes closer to an alert. *)
LEMMA NobodyAdvances ==
  ASSUME SpacingInv, UNCHANGED <<alerts, run, lastSpikeAt>>, raced \subseteq raced',
         \A g \in Goroutines :
           /\ step'[g] = "mark" => step[g] = "mark" /\ event'[g] = event[g]
           /\ Held(g)' => Held(g) /\ event'[g] = event[g]
  PROVE  SpacingInv'
<1>1. \A m : ~Raced(m)' => ~Raced(m)
  BY DEF Raced
<1>2. AlertsSpacedUnlessRaced'
  BY DEF SpacingInv, AlertsSpacedUnlessRaced, Apart
<1>3. AlertsBehind'
  BY <1>1 DEF SpacingInv, AlertsBehind
<1>4. HeldBehind'
  BY <1>1 DEF SpacingInv, HeldBehind, Apart
<1>5. MarkAhead'
  BY <1>1 DEF SpacingInv, MarkAhead
<1>6. QED BY <1>2, <1>3, <1>4, <1>5 DEF SpacingInv

LEMMA PassingKeepsSpacing ==
  ASSUME TypeOK, SpacingInv, NEW g \in Goroutines, PassesThrottle(g)
  PROVE  SpacingInv'
<1>1. /\ UNCHANGED <<alerts, run, lastSpikeAt, event>> /\ raced \subseteq raced'
      /\ step[g] = "throttle" /\ step' = [step EXCEPT ![g] = "mark"]
  BY DEF PassesThrottle, Continues, Goes
<1>2. /\ step'[g] = "mark"
      /\ \A h \in Goroutines \ {g} : step'[h] = step[h]
  BY <1>1 DEF TypeOK
<1>3. /\ \A m : ~Raced(m)' => ~Raced(m)
      /\ \A h \in Goroutines : Held(h)' => Held(h)
  BY <1>1, <1>2 DEF Raced, Held
<1>4. AlertsSpacedUnlessRaced'
  BY <1>1 DEF SpacingInv, AlertsSpacedUnlessRaced, Apart
<1>5. AlertsBehind'
  BY <1>1, <1>3 DEF SpacingInv, AlertsBehind
<1>6. HeldBehind'
  BY <1>1, <1>3 DEF SpacingInv, HeldBehind, Apart
<1>7. ASSUME NEW h \in Goroutines, step'[h] = "mark", ~Raced(event[h].mint)'
      PROVE  /\ \/ lastSpikeAt'[event'[h].mint] = Never
                \/ event'[h].at - lastSpikeAt'[event'[h].mint] >= MinEmit
             /\ \A k \in Goroutines \ {h} :
                  ~(step'[k] = "mark" /\ event'[k].mint = event'[h].mint)
  <2>1. ~Raced(event[h].mint) /\ event' = event
    BY <1>1, <1>3, <1>7
  <2>2. AboutToMark(event[g].mint) => Raced(event[g].mint)'
    BY <1>1 DEF PassesThrottle, Raced
  <2>3. ~Throttled(event[g].mint, event[g].at)
    BY DEF PassesThrottle
  <2>4. CASE h = g
    <3>1. ~AboutToMark(event[g].mint)
      BY <1>1, <1>7, <2>2, <2>4
    <3>2. \A k \in Goroutines \ {h} :
            ~(step[k] = "mark" /\ event[k].mint = event[h].mint)
      BY <2>4, <3>1 DEF AboutToMark
    <3>3. \/ lastSpikeAt[event[g].mint] = Never
          \/ event[g].at - lastSpikeAt[event[g].mint] >= MinEmit
      BY <2>3, SpacingTypes DEF Throttled
    <3>4. QED BY <1>1, <1>2, <2>4, <3>2, <3>3
  <2>5. CASE h # g
    <3>1. step[h] = "mark"
      BY <1>2, <1>7, <2>5
    <3>2. event[h].mint # event[g].mint
      BY <1>1, <1>7, <2>1, <2>2, <3>1 DEF AboutToMark
    <3>3. /\ \/ lastSpikeAt[event[h].mint] = Never
             \/ event[h].at - lastSpikeAt[event[h].mint] >= MinEmit
          /\ \A k \in Goroutines \ {h} :
               ~(step[k] = "mark" /\ event[k].mint = event[h].mint)
      BY <2>1, <3>1 DEF SpacingInv, MarkAhead
    <3>4. QED BY <1>1, <1>2, <3>2, <3>3
  <2>6. QED BY <2>4, <2>5
<1>8. QED BY <1>4, <1>5, <1>6, <1>7 DEF SpacingInv, MarkAhead

LEMMA MarkingKeepsSpacing ==
  ASSUME TypeOK, SpacingInv, NEW g \in Goroutines, MarksThrottle(g)
  PROVE  SpacingInv'
<1> DEFINE m == event[g].mint
           at == event[g].at
<1>1. /\ UNCHANGED <<alerts, run, event, raced>>
      /\ step[g] = "mark" /\ step'[g] = "insert"
      /\ \A h \in Goroutines \ {g} : step'[h] = step[h]
  BY DEF MarksThrottle, Continues, Goes, TypeOK
<1>2. /\ m \in Mints /\ at \in Nat
      /\ lastSpikeAt'[m] = at
      /\ \A x \in Mints \ {m} : lastSpikeAt'[x] = lastSpikeAt[x]
  BY SpacingTypes DEF MarksThrottle, TypeOK
<1>3. /\ \A x : Raced(x)' <=> Raced(x)
      /\ Held(g)'
      /\ \A h \in Goroutines \ {g} : Held(h)' <=> Held(h)
  BY <1>1 DEF Raced, Held
<1>4. ASSUME ~Raced(m)
      PROVE  /\ lastSpikeAt[m] = Never \/ at - lastSpikeAt[m] >= MinEmit
             /\ \A h \in Goroutines \ {g} : ~(step[h] = "mark" /\ event[h].mint = m)
  BY <1>1, <1>4 DEF SpacingInv, MarkAhead
<1> HIDE DEF m, at
<1>5. ASSUME ~Raced(m), NEW old \in Nat, old <= lastSpikeAt[m]
      PROVE  old <= at /\ Apart(old, at)
  <2>1. lastSpikeAt[m] # Never
    BY <1>5 DEF Never
  <2>2. at - lastSpikeAt[m] >= MinEmit
    BY <1>4, <1>5, <2>1
  <2>3. QED BY <1>2, <1>5, <2>2, SpacingTypes DEF Apart
<1>6. AlertsSpacedUnlessRaced'
  BY <1>1 DEF SpacingInv, AlertsSpacedUnlessRaced, Apart
<1>7. AlertsBehind'
  <2> SUFFICES ASSUME NEW i \in DOMAIN alerts
               PROVE  /\ alerts[i].run <= run
                      /\ alerts[i].run = run /\ ~Raced(alerts[i].mint)
                           => alerts[i].at <= lastSpikeAt'[alerts[i].mint]
    BY <1>1, <1>3 DEF AlertsBehind
  <2>1. /\ alerts[i].run <= run
        /\ alerts[i].run = run /\ ~Raced(alerts[i].mint)
             => alerts[i].at <= lastSpikeAt[alerts[i].mint]
    BY DEF SpacingInv, AlertsBehind
  <2>2. QED BY <1>2, <1>5, <2>1, SpacingTypes
<1>8. ASSUME NEW h \in Goroutines, Held(h)', ~Raced(event[h].mint)
      PROVE  /\ event[h].at <= lastSpikeAt'[event[h].mint]
             /\ \A i \in DOMAIN alerts :
                  alerts[i].run = run /\ alerts[i].mint = event[h].mint
                    => Apart(alerts[i].at, event[h].at)
             /\ \A k \in Goroutines \ {h} :
                  Held(k)' /\ event[k].mint = event[h].mint
                    => Apart(event[k].at, event[h].at)
  <2>1. \A k \in Goroutines \ {g} : Held(k) /\ ~Raced(event[k].mint) =>
          /\ event[k].at <= lastSpikeAt[event[k].mint]
          /\ \A i \in DOMAIN alerts :
               alerts[i].run = run /\ alerts[i].mint = event[k].mint
                 => Apart(alerts[i].at, event[k].at)
          /\ \A l \in Goroutines \ {k} :
               Held(l) /\ event[l].mint = event[k].mint
                 => Apart(event[l].at, event[k].at)
    BY DEF SpacingInv, HeldBehind
  <2>2. \A k \in Goroutines \ {g} : Held(k) /\ event[k].mint = m /\ ~Raced(m) =>
          event[k].at <= at /\ Apart(event[k].at, at) /\ Apart(at, event[k].at)
    BY <1>5, <2>1, SpacingTypes DEF Apart
  <2>3. CASE h = g
    <3>1. \A i \in DOMAIN alerts :
            alerts[i].run = run /\ alerts[i].mint = m => Apart(alerts[i].at, at)
      BY <1>5, <1>8, <2>3, SpacingTypes DEF SpacingInv, AlertsBehind, m
    <3>2. QED BY <1>2, <1>3, <1>8, <2>2, <2>3, <3>1 DEF m, at
  <2>4. CASE h # g
    <3>1. Held(h)
      BY <1>3, <1>8, <2>4
    <3>2. event[h].at <= lastSpikeAt'[event[h].mint]
      BY <1>2, <1>8, <2>1, <2>2, <2>4, <3>1, SpacingTypes
    <3>3. ASSUME NEW k \in Goroutines \ {h}, Held(k)', event[k].mint = event[h].mint
          PROVE  Apart(event[k].at, event[h].at)
      <4>1. CASE k = g
        BY <1>8, <2>2, <2>4, <3>1, <3>3, <4>1 DEF m, at
      <4>2. CASE k # g
        BY <1>3, <1>8, <2>1, <2>4, <3>1, <3>3, <4>2
      <4>3. QED BY <4>1, <4>2
    <3>4. QED BY <1>8, <2>1, <2>4, <3>1, <3>2, <3>3
  <2>5. QED BY <2>3, <2>4
<1>9. HeldBehind'
  BY <1>1, <1>3, <1>8 DEF HeldBehind, Apart
<1>10. MarkAhead'
  <2> SUFFICES ASSUME NEW h \in Goroutines, step'[h] = "mark", ~Raced(event[h].mint)
               PROVE  /\ \/ lastSpikeAt'[event[h].mint] = Never
                         \/ event[h].at - lastSpikeAt'[event[h].mint] >= MinEmit
                      /\ \A k \in Goroutines \ {h} :
                           ~(step'[k] = "mark" /\ event[k].mint = event[h].mint)
    BY <1>1, <1>3 DEF MarkAhead
  <2>1. h # g /\ step[h] = "mark"
    BY <1>1
  <2>2. event[h].mint # m /\ event[h].mint \in Mints
    BY <1>4, <2>1, SpacingTypes
  <2>3. QED BY <1>1, <1>2, <2>1, <2>2 DEF SpacingInv, MarkAhead
<1>11. QED BY <1>6, <1>7, <1>9, <1>10 DEF SpacingInv

LEMMA AlertKeepsSpacing ==
  ASSUME TypeOK, SpacingInv, NEW g \in Goroutines, Alerts(g)
  PROVE  SpacingInv'
<1> DEFINE last == Len(alerts) + 1
           m == event[g].mint
           at == event[g].at
<1>1. /\ DOMAIN alerts' = DOMAIN alerts \cup {last} /\ last \notin DOMAIN alerts
      /\ \A i \in DOMAIN alerts : alerts'[i] = alerts[i]
      /\ alerts'[last].mint = m /\ alerts'[last].at = at /\ alerts'[last].run = run
  <2>1. /\ DOMAIN alerts = 1 .. Len(alerts) /\ Len(alerts) \in Nat
        /\ DOMAIN alerts' = 1 .. Len(alerts) + 1
        /\ \A i \in DOMAIN alerts : alerts'[i] = alerts[i]
        /\ alerts'[last] =
             [mint |-> event[g].mint, at |-> event[g].at, run |-> run]
    BY AlertAppended, Zenon
  <2>2. DOMAIN alerts' = DOMAIN alerts \cup {last} /\ last \notin DOMAIN alerts
    BY <2>1
  <2>3. QED BY <2>1, <2>2
<1>2. /\ UNCHANGED <<run, raced, lastSpikeAt>> /\ Held(g) /\ step'[g] = "idle"
      /\ \A h \in Goroutines \ {g} : step'[h] = step[h] /\ event'[h] = event[h]
  BY DEF Alerts, Returns, Continues, Goes, TypeOK, Held
<1>3. /\ \A x : Raced(x)' <=> Raced(x)
      /\ ~Held(g)'
      /\ \A h \in Goroutines \ {g} : Held(h)' <=> Held(h)
  BY <1>2 DEF Raced, Held
<1>4. ~Raced(m) =>
        /\ at <= lastSpikeAt[m]
        /\ \A i \in DOMAIN alerts :
             alerts[i].run = run /\ alerts[i].mint = m => Apart(alerts[i].at, at)
        /\ \A h \in Goroutines \ {g} :
             Held(h) /\ event[h].mint = m => Apart(event[h].at, at)
  BY <1>2 DEF SpacingInv, HeldBehind
<1> HIDE DEF last, m, at
<1>5. AlertsSpacedUnlessRaced'
  <2> SUFFICES ASSUME NEW i \in DOMAIN alerts', NEW j \in DOMAIN alerts', i # j,
                      alerts'[i].mint = alerts'[j].mint,
                      alerts'[i].run = alerts'[j].run,
                      <<alerts'[i].run, alerts'[i].mint>> \notin raced'
               PROVE  Apart(alerts'[i].at, alerts'[j].at)
    BY DEF AlertsSpacedUnlessRaced, Apart
  <2>1. CASE i \in DOMAIN alerts /\ j \in DOMAIN alerts
    BY <1>1, <1>2, <2>1 DEF SpacingInv, AlertsSpacedUnlessRaced
  <2>2. CASE i \in DOMAIN alerts /\ j = last
    BY <1>1, <1>2, <1>4, <2>2 DEF Raced
  <2>3. CASE i = last /\ j \in DOMAIN alerts
    <3>1. Apart(alerts[j].at, at)
      BY <1>1, <1>2, <1>4, <2>3 DEF Raced
    <3>2. QED BY <1>1, <2>3, <3>1 DEF Apart
  <2>4. QED BY <1>1, <2>1, <2>2, <2>3
<1>6. AlertsBehind'
  <2> SUFFICES ASSUME NEW i \in DOMAIN alerts'
               PROVE  /\ alerts'[i].run <= run
                      /\ alerts'[i].run = run /\ ~Raced(alerts'[i].mint)
                           => alerts'[i].at <= lastSpikeAt[alerts'[i].mint]
    BY <1>2, <1>3 DEF AlertsBehind
  <2>1. CASE i \in DOMAIN alerts
    BY <1>1, <2>1 DEF SpacingInv, AlertsBehind
  <2>2. CASE i = last
    BY <1>1, <1>4, <2>2, SpacingTypes
  <2>3. QED BY <1>1, <2>1, <2>2
<1>7. HeldBehind'
  <2> SUFFICES ASSUME NEW h \in Goroutines, Held(h)', ~Raced(event'[h].mint)
               PROVE  /\ event'[h].at <= lastSpikeAt[event'[h].mint]
                      /\ \A i \in DOMAIN alerts' :
                           alerts'[i].run = run /\ alerts'[i].mint = event'[h].mint
                             => Apart(alerts'[i].at, event'[h].at)
                      /\ \A k \in Goroutines \ {h} :
                           Held(k)' /\ event'[k].mint = event'[h].mint
                             => Apart(event'[k].at, event'[h].at)
    BY <1>2, <1>3 DEF HeldBehind, Apart
  <2>1. h # g /\ Held(h) /\ event'[h] = event[h]
    BY <1>2, <1>3
  <2>2. /\ event[h].at <= lastSpikeAt[event[h].mint]
        /\ \A i \in DOMAIN alerts :
             alerts[i].run = run /\ alerts[i].mint = event[h].mint
               => Apart(alerts[i].at, event[h].at)
        /\ \A k \in Goroutines \ {h} :
             Held(k) /\ event[k].mint = event[h].mint
               => Apart(event[k].at, event[h].at)
    BY <1>2, <2>1 DEF SpacingInv, HeldBehind
  <2>3. event[h].mint = m => Apart(at, event[h].at)
    BY <1>2, <2>1, <2>2 DEF m, at
  <2>4. QED BY <1>1, <1>2, <1>3, <2>1, <2>2, <2>3
<1>8. MarkAhead'
  BY <1>2, <1>3 DEF SpacingInv, MarkAhead
<1>9. QED BY <1>5, <1>6, <1>7, <1>8 DEF SpacingInv

LEMMA SpacingStep ==
  ASSUME TypeOK, SpacingInv, [Next]_vars
  PROVE  SpacingInv'
<1>1. ASSUME NEW g \in Goroutines, ProcessStep(g), ~PassesThrottle(g),
             ~MarksThrottle(g), ~Alerts(g)
      PROVE  SpacingInv'
  <2>1. UNCHANGED <<alerts, run, lastSpikeAt, raced>>
    BY <1>1 DEF ProcessStep, SkipsSeen, TakesIn, Delivers, AddEvent, Evaluate,
       StoreSnapshot, Suppressed, InsertSpike, Continues, historyVars
  <2>2. \A h \in Goroutines : h # g => step'[h] = step[h] /\ event'[h] = event[h]
    BY <1>1 DEF ProcessStep, SkipsSeen, TakesIn, Delivers, AddEvent, Evaluate,
       StoreSnapshot, Suppressed, InsertSpike, Goes, Returns, TypeOK
  <2>3. /\ step'[g] # "mark"
        /\ step'[g] \in {"insert", "alert"} =>
             step[g] \in {"insert", "alert"} /\ event'[g] = event[g]
    BY <1>1 DEF ProcessStep, SkipsSeen, TakesIn, Delivers, AddEvent, Evaluate,
       StoreSnapshot, Suppressed, InsertSpike, Goes, Returns, TypeOK
  <2>4. QED BY <2>1, <2>2, <2>3, NobodyAdvances DEF Held
<1>2. ASSUME NEW s \in Signatures, SignatureExpires(s)
      PROVE  SpacingInv'
  BY <1>2, NobodyAdvances DEF SignatureExpires, jobVars, Held
<1>3. CASE Restart
  <2>1. /\ run' = run + 1 /\ alerts' = alerts /\ raced' = raced
        /\ \A g \in Goroutines : step'[g] = "idle"
    BY <1>3 DEF Restart, Everywhere
  <2>2. \A i \in DOMAIN alerts : alerts[i].run <= run' /\ alerts[i].run # run'
    BY <2>1, SpacingTypes DEF SpacingInv, AlertsBehind
  <2>3. AlertsSpacedUnlessRaced'
    BY <2>1 DEF SpacingInv, AlertsSpacedUnlessRaced, Apart
  <2>4. AlertsBehind'
    BY <2>1, <2>2 DEF AlertsBehind
  <2>5. HeldBehind' /\ MarkAhead'
    BY <2>1 DEF HeldBehind, MarkAhead, Held
  <2>6. QED BY <2>3, <2>4, <2>5 DEF SpacingInv
<1>4. CASE UNCHANGED vars
  BY <1>4, NobodyAdvances DEF vars, memoryVars, jobVars, historyVars, Held
<1>5. QED BY <1>1, <1>2, <1>3, <1>4, PassingKeepsSpacing, MarkingKeepsSpacing,
             AlertKeepsSpacing DEF Next

(***************************************************************************)
(* Unless two goroutines have read the throttle of a mint together, the    *)
(* alerts of the mint within one run are the throttle's interval apart,    *)
(* in whatever order the trades come and whatever inserts fail.            *)
(***************************************************************************)
THEOREM AlertsSpaced == Spec => []AlertsSpacedUnlessRaced
<1>1. Init => SpacingInv
  BY DEF Init, Everywhere, SpacingInv, AlertsSpacedUnlessRaced, AlertsBehind,
     HeldBehind, MarkAhead, Held
<1>2. SpacingInv => AlertsSpacedUnlessRaced
  BY DEF SpacingInv
<1>3. QED BY SpikeTypeCorrect, SpacingStep, <1>1, <1>2, PTL DEF Spec
=============================================================================
