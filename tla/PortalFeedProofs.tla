-------------------------- MODULE PortalFeedProofs --------------------------
(***************************************************************************)
(* Proofs about the PumpPortal feed, for any mints, arrivals, answers and  *)
(* capacity: the types of its variables, and that what has been shown of a *)
(* mint is never shown with less later.                                    *)
(***************************************************************************)
EXTENDS PortalFeed, FiniteSetTheorems, TLAPS

-----------------------------------------------------------------------------
(* Types.  What FeedTypeOK says of the two slots, None or an event, is     *)
(* easier to keep as what each place implies.                              *)

LEMMA EventsAreNotNone ==
  ASSUME NEW e \in Events
  PROVE  e # None
<1>1. DOMAIN e = {"no", "mint", "stream", "fields"}
  BY DEF Events
<1>2. DOMAIN None = {}
  BY DEF None
<1>3. QED BY <1>1, <1>2

Slots ==
  /\ IF client["portal"] = "deliver" THEN offer \in Events ELSE offer = None
  /\ IF feed = "complete" THEN event \in Events ELSE event = None

Streams ==
  /\ configured \in SUBSET Sources /\ cancelled \in BOOLEAN
  /\ client \in [Sources -> ClientSteps]
  /\ line \in [Sources -> {"none", "up", "reset", "silent"}]
  /\ wsRR = [s \in Sources |-> 0]

Feed ==
  /\ feed \in {"select", "complete", "ended"}
  /\ errsNil \in BOOLEAN
  /\ arrived \in 0 .. MaxEvents

Caches ==
  /\ identity \in [Mints -> SUBSET Fields]
  /\ pairs \in [Mints -> {NoEntry} \cup SUBSET {"name", "symbol"}]
  /\ recent \in [StreamNames -> Seq(Events)]
  /\ \A s \in StreamNames : Len(recent[s]) <= MaxSize
  /\ shown \in Seq(Events)

Types == Slots /\ Streams /\ Feed /\ Caches

LEMMA TypesSuffice ==
  ASSUME Types
  PROVE  FeedTypeOK
<1> USE DEF Types
<1>1. Sources = {"portal"} /\ Len(Endpoints["portal"]) = 1
  BY FeedAssumption, StreamsAssumption
<1>2. \A s \in Sources : wsRR[s] \in 0 .. Len(Endpoints[s]) - 1
  BY <1>1 DEF Streams
<1>3. StreamsTypeOK
  BY <1>2 DEF Streams, StreamsTypeOK
<1>4. /\ offer \in Events \cup {None} /\ event \in Events \cup {None}
      /\ offer = None <=> client["portal"] # "deliver"
      /\ event = None <=> feed # "complete"
  BY EventsAreNotNone DEF Slots
<1>5. QED BY <1>3, <1>4 DEF Feed, Caches, FeedTypeOK

LEMMA TypesBegin ==
  ASSUME Init
  PROVE  Types
<1>1. Slots /\ Streams
  BY FeedAssumption DEF Init, StreamsInit, Slots, Streams, ClientSteps
<1>2. Feed
  <2>1. 0 \in 0 .. MaxEvents
    BY FeedAssumption
  <2>2. feed = "select" /\ errsNil = FALSE /\ arrived = 0
    BY DEF Init
  <2>3. QED BY <2>1, <2>2 DEF Feed
<1>3. Caches
  <2>1. <<>> \in Seq(Events) /\ Len(<<>>) = 0
    OBVIOUS
  <2>2. identity \in [Mints -> SUBSET Fields]
    BY DEF Init
  <2>3. pairs \in [Mints -> {NoEntry} \cup SUBSET {"name", "symbol"}]
    BY DEF Init
  <2>4. recent \in [StreamNames -> Seq(Events)]
        /\ \A s \in StreamNames : Len(recent[s]) <= MaxSize
    BY <2>1, FeedAssumption DEF Init
  <2>5. QED BY <2>1, <2>2, <2>3, <2>4 DEF Init, Caches
<1>4. QED BY <1>1, <1>2, <1>3 DEF Types

(* RecentBuffer.Add keeps to its capacity. *)
LEMMA AddedFits ==
  ASSUME NEW items \in Seq(Events), Len(items) <= MaxSize, NEW e \in Events
  PROVE  Added(items, e) \in Seq(Events) /\ Len(Added(items, e)) <= MaxSize
<1> DEFINE longer == <<e>> \o items
<1>1. longer \in Seq(Events) /\ Len(longer) = Len(items) + 1
  OBVIOUS
<1>2. MaxSize \in Nat \ {0}
  BY FeedAssumption
<1>3. CASE Len(longer) > MaxSize
  <2>1. SubSeq(longer, 1, MaxSize) \in Seq(Events) /\ Len(SubSeq(longer, 1, MaxSize)) = MaxSize
    BY <1>1, <1>2, <1>3
  <2>2. QED BY <1>3, <2>1, <1>2 DEF Added
<1>4. CASE ~(Len(longer) > MaxSize)
  BY <1>1, <1>2, <1>4 DEF Added
<1>5. QED BY <1>3, <1>4

(* A complete event is shown. *)
LEMMA ShowsKeepsTypes ==
  ASSUME Types, NEW e \in Events, Shows(e),
         pairs' \in [Mints -> {NoEntry} \cup SUBSET {"name", "symbol"}]
  PROVE  Types'
<1> USE DEF Types
<1>1. Slots' /\ Streams' /\ Feed'
  BY DEF Shows, streamVars, Slots, Streams, Feed
<1>2. e.mint \in Mints /\ e.stream \in StreamNames /\ e.fields \in SUBSET Fields
  BY DEF Events
<1>3. identity' \in [Mints -> SUBSET Fields]
  BY <1>2 DEF Shows, Identity, Caches
<1>4. shown' \in Seq(Events)
  BY DEF Shows, Caches
<1>5. /\ recent' \in [StreamNames -> Seq(Events)]
      /\ \A s \in StreamNames : Len(recent'[s]) <= MaxSize
  <2>1. /\ Added(recent[e.stream], e) \in Seq(Events)
        /\ Len(Added(recent[e.stream], e)) <= MaxSize
    BY <1>2, AddedFits DEF Caches
  <2>2. recent' = [recent EXCEPT ![e.stream] = Added(recent[e.stream], e)]
    BY DEF Shows
  <2>3. QED BY <1>2, <2>1, <2>2 DEF Caches
<1>6. QED BY <1>1, <1>3, <1>4, <1>5 DEF Caches

(* What a step of completion shows: the event in hand with more fields. *)
LEMMA CompletesWhole ==
  ASSUME Types, FeedCompletes
  PROVE  /\ feed = "complete" /\ event \in Events
         /\ \E more \in SUBSET Fields :
              Shows([event EXCEPT !.fields = @ \cup more])
         /\ pairs' \in [Mints -> {NoEntry} \cup SUBSET {"name", "symbol"}]
<1> USE DEF Types
<1>1. feed = "complete"
  BY DEF FeedCompletes, ShowsCreated, ShowsFromCache, ShowsUnenriched, ShowsFromLookup, Migrating
<1>2. event \in Events
  BY <1>1 DEF Slots
<1>3. event.mint \in Mints /\ event.fields \in SUBSET Fields
  BY <1>2 DEF Events
<1>4. pairs \in [Mints -> {NoEntry} \cup SUBSET {"name", "symbol"}]
  BY DEF Caches
<1>5. CASE ShowsCreated \/ ShowsUnenriched
  <2>1. [event EXCEPT !.fields = @ \cup {}] = event
    BY <1>2 DEF Events
  <2>2. Shows(event) /\ pairs' = pairs
    BY <1>5 DEF ShowsCreated, ShowsUnenriched
  <2>3. Shows([event EXCEPT !.fields = @ \cup {}])
    BY <2>1, <2>2
  <2>4. QED BY <1>1, <1>2, <1>4, <2>2, <2>3
<1>6. CASE ShowsFromCache
  <2>1. pairs[event.mint] \in SUBSET Fields
    BY <1>3, <1>4, <1>6 DEF ShowsFromCache, Migrating, Fields
  <2>2. QED BY <1>1, <1>2, <1>4, <1>6, <2>1 DEF ShowsFromCache
<1>7. ASSUME NEW found \in Answers, ShowsFromLookup(found)
      PROVE  /\ \E more \in SUBSET Fields : Shows([event EXCEPT !.fields = @ \cup more])
             /\ pairs' \in [Mints -> {NoEntry} \cup SUBSET {"name", "symbol"}]
  <2> DEFINE e == [event EXCEPT !.fields = @ \cup found]
  <2>1. found \in SUBSET Fields
    BY FeedAssumption DEF Fields
  <2>2. e.mint = event.mint /\ e.fields = event.fields \cup found
    BY <1>2 DEF Events
  <2>3. e.fields \ {"uri"} \in SUBSET {"name", "symbol"}
    BY <1>3, <2>1, <2>2 DEF Fields
  <2>4. Shows(e) /\ pairs' = [pairs EXCEPT ![e.mint] = e.fields \ {"uri"}]
    BY <1>7 DEF ShowsFromLookup
  <2>5. QED BY <1>3, <1>4, <2>1, <2>2, <2>3, <2>4
<1>8. QED BY <1>1, <1>2, <1>5, <1>6, <1>7 DEF FeedCompletes

(* More fields make another event. *)
LEMMA Completed ==
  ASSUME NEW e \in Events, NEW more \in SUBSET Fields
  PROVE  LET c == [e EXCEPT !.fields = @ \cup more]
         IN c \in Events /\ c.mint = e.mint /\ c.fields = e.fields \cup more
BY DEF Events

(* A step of the client, and what it holds out. *)
LEMMA ClientKeepsTypes ==
  ASSUME Types, ClientStep
  PROVE  Types'
<1> USE DEF Types
<1>1. "portal" \in Sources /\ Sources = {"portal"} /\ Len(Endpoints["portal"]) = 1
  BY FeedAssumption, StreamsAssumption
<1>2. wsRR' = wsRR \/ NextEndpoint("portal")
  BY DEF ClientStep, ClientRuns, DialFails, DialSucceeds, Dials, RetryTimerFires, SeesCancel,
         Subscribes, SubscribeFails, Answered, AnswerFails, ReadFails, OfferGivenUp, ClosesErrs,
         ClosesEvents, Proceeds, Hangs, LineBreaks, Cancel
<1>3. wsRR' = [s \in Sources |-> 0]
  BY <1>1, <1>2 DEF NextEndpoint, Streams
<1>4. /\ configured' = configured /\ cancelled' \in BOOLEAN
  BY DEF ClientStep, ClientRuns, DialFails, DialSucceeds, Dials, RetryTimerFires, SeesCancel,
         Subscribes, SubscribeFails, Answered, AnswerFails, ReadFails, OfferGivenUp, ClosesErrs,
         ClosesEvents, Proceeds, Hangs, LineBreaks, Cancel, Streams
<1>5. /\ client' = client
         \/ \E to \in ClientSteps \ {"deliver"} : client' = [client EXCEPT !["portal"] = to]
  BY DEF ClientStep, ClientRuns, DialFails, DialSucceeds, Dials, RetryTimerFires, SeesCancel,
         Subscribes, AfterSubscribing, SubscribeFails, Answered, AnswerFails, ReadFails,
         OfferGivenUp, ClosesErrs, ClosesEvents, Proceeds, Hangs, Goes, LineBreaks, Cancel,
         ClientSteps
<1>6. /\ line' = line
         \/ \E how \in {"none", "up", "reset", "silent"} : line' = [line EXCEPT !["portal"] = how]
  BY DEF ClientStep, ClientRuns, DialFails, DialSucceeds, Dials, RetryTimerFires, SeesCancel,
         Subscribes, SubscribeFails, Answered, AnswerFails, ReadFails, OfferGivenUp, ClosesErrs,
         ClosesEvents, Proceeds, Hangs, LineBreaks, Cancel
<1>7. Streams'
  BY <1>3, <1>4, <1>5, <1>6 DEF Streams
<1>8. client'["portal"] = "deliver" => client["portal"] = "deliver"
  BY <1>1, <1>5 DEF Streams
<1>9. Slots' /\ Feed' /\ Caches'
  BY <1>8 DEF ClientStep, cacheVars, Slots, Feed, Caches
<1>10. QED BY <1>7, <1>9

LEMMA TypesStep ==
  ASSUME Types, [Next]_vars
  PROVE  Types'
<1> USE DEF Types
<1>1. "portal" \in Sources
  BY FeedAssumption
<1>2. ASSUME NEW m \in Mints, NEW s \in StreamNames, NEW f \in Arrivals, Arrives(m, s, f)
      PROVE  Types'
  <2>1. arrived' \in 1 .. MaxEvents
    BY <1>2, FeedAssumption DEF Arrives, Feed
  <2>2. offer' \in Events
    BY <1>2, <2>1, FeedAssumption DEF Arrives, Events
  <2>3. Streams' /\ client'["portal"] = "deliver"
    BY <1>1, <1>2 DEF Arrives, EventArrives, Proceeds, Goes, Streams, ClientSteps
  <2>4. Feed' /\ Caches'
    BY <1>2, <2>1 DEF Arrives, cacheVars, Feed, Caches
  <2>5. Slots'
    BY <1>2, <2>2, <2>3 DEF Arrives, Slots
  <2>6. QED BY <2>3, <2>4, <2>5
<1>3. CASE Receives
  <2>1. offer \in Events
    BY <1>3 DEF Receives, Taken, Proceeds, Slots
  <2>2. identity[offer.mint] \in SUBSET Fields
    BY <2>1 DEF Events, Caches
  <2>3. event' \in Events
    BY <1>3, <2>1, <2>2, Completed DEF Receives, Remembered
  <2>4. Streams' /\ client'["portal"] = "read"
    BY <1>1, <1>3 DEF Receives, Taken, Proceeds, Goes, Streams, ClientSteps
  <2>5. Feed' /\ Caches'
    BY <1>3 DEF Receives, cacheVars, Feed, Caches
  <2>6. Slots'
    BY <1>3, <2>3, <2>4 DEF Receives, Slots
  <2>7. QED BY <2>4, <2>5, <2>6
<1>4. CASE FeedCompletes
  BY <1>4, CompletesWhole, Completed, ShowsKeepsTypes
<1>5. ASSUME NEW m \in Mints, PairExpires(m) PROVE Types'
  <2>1. pairs' \in [Mints -> {NoEntry} \cup SUBSET {"name", "symbol"}]
    BY <1>5 DEF PairExpires, Caches
  <2>2. QED BY <1>5, <2>1 DEF PairExpires, streamVars, Slots, Streams, Feed, Caches
<1>6. CASE FindsErrsClosed \/ FeedEnds
  BY <1>6 DEF FindsErrsClosed, FeedEnds, streamVars, cacheVars, Slots, Streams, Feed, Caches
<1>7. CASE UNCHANGED vars
  BY <1>7 DEF vars, feedVars, streamVars, cacheVars, Slots, Streams, Feed, Caches
<1>8. QED
  BY <1>2, <1>3, <1>4, <1>5, <1>6, <1>7, ClientKeepsTypes DEF Next

(* The variables of the feed keep their types, the buffer its capacity,    *)
(* and an event is in a slot exactly while somebody has it in hand.        *)
THEOREM FeedTypeCorrect == Spec => []FeedTypeOK
<1>1. Init => Types
  BY TypesBegin
<1>2. Types /\ [Next]_vars => Types'
  BY TypesStep
<1>3. Types => FeedTypeOK
  BY TypesSuffice
<1>4. QED BY <1>1, <1>2, <1>3, PTL DEF Spec

-----------------------------------------------------------------------------
(* What is shown.                                                          *)

(* The identity cache has all that was shown of a mint, the event in hand  *)
(* all that the cache has.                                                 *)
Covered ==
  /\ \A i \in DOMAIN shown : shown[i].fields \subseteq identity[shown[i].mint]
  /\ feed = "complete" => identity[event.mint] \subseteq event.fields

FeedInv == Types /\ Covered /\ NothingForgotten

LEMMA CoveredWhenShown ==
  ASSUME FeedInv, NEW e \in Events, identity[e.mint] \subseteq e.fields, Shows(e)
  PROVE  Covered' /\ NothingForgotten'
<1> USE DEF FeedInv, Types
<1>1. /\ shown \in Seq(Events) /\ shown' = Append(shown, e)
      /\ identity \in [Mints -> SUBSET Fields] /\ e.mint \in Mints
  BY DEF Shows, Caches, Events
<1>2. /\ DOMAIN shown' = 1 .. Len(shown) + 1 /\ DOMAIN shown = 1 .. Len(shown)
      /\ Len(shown) \in Nat
      /\ shown'[Len(shown) + 1] = e
      /\ \A i \in DOMAIN shown : shown'[i] = shown[i] /\ shown[i].mint \in Mints
  <2>1. Len(shown) \in Nat /\ DOMAIN shown = 1 .. Len(shown)
    BY <1>1
  <2>2. /\ Len(shown') = Len(shown) + 1
        /\ \A i \in 1 .. Len(shown) : shown'[i] = shown[i]
        /\ shown'[Len(shown) + 1] = e
        /\ shown' \in Seq(Events)
    BY <1>1
  <2>3. DOMAIN shown' = 1 .. Len(shown) + 1
    BY <2>1, <2>2
  <2>4. ASSUME NEW i \in DOMAIN shown PROVE shown[i].mint \in Mints
    <3>1. shown[i] \in Events
      BY <1>1, <2>1
    <3>2. QED BY <3>1 DEF Events
  <2>5. QED BY <2>1, <2>2, <2>3, <2>4
<1>3. /\ identity'[e.mint] = e.fields
      /\ \A m \in Mints : identity[m] \subseteq identity'[m]
  BY <1>1 DEF Shows, Identity
<1>4. ASSUME NEW i \in DOMAIN shown' PROVE shown'[i].fields \subseteq identity'[shown'[i].mint]
  <2>1. CASE i = Len(shown) + 1
    BY <1>2, <1>3, <2>1
  <2>2. CASE i \in DOMAIN shown
    BY <1>2, <1>3, <2>2 DEF Covered
  <2>3. QED BY <1>2, <2>1, <2>2
<1>5. Covered'
  BY <1>4 DEF Covered, Shows
<1>6. ASSUME NEW i \in DOMAIN shown', NEW j \in DOMAIN shown', i < j, shown'[i].mint = shown'[j].mint
      PROVE  shown'[i].fields \subseteq shown'[j].fields
  <2>1. i \in DOMAIN shown
    BY <1>2, <1>6
  <2>2. CASE j = Len(shown) + 1
    BY <1>2, <1>6, <2>1, <2>2 DEF Covered
  <2>3. CASE j \in DOMAIN shown
    BY <1>2, <1>6, <2>1, <2>3 DEF NothingForgotten
  <2>4. QED BY <1>2, <2>2, <2>3
<1>7. QED BY <1>5, <1>6 DEF NothingForgotten

LEMMA CoveredStep ==
  ASSUME FeedInv, [Next]_vars
  PROVE  Covered' /\ NothingForgotten'
<1> USE DEF FeedInv, Types
<1>1. CASE Receives
  <2>1. offer \in Events
    BY <1>1 DEF Receives, Taken, Proceeds, Slots
  <2>2. identity[offer.mint] \in SUBSET Fields
    BY <2>1 DEF Events, Caches
  <2>3. event'.mint = offer.mint /\ event'.fields = offer.fields \cup identity[offer.mint]
    BY <1>1, <2>1, <2>2, Completed DEF Receives, Remembered
  <2>4. QED BY <1>1, <2>3 DEF Receives, cacheVars, Covered, NothingForgotten
<1>2. CASE FeedCompletes
  <2>1. feed = "complete" /\ event \in Events
    BY <1>2, CompletesWhole
  <2>2. PICK more \in SUBSET Fields : Shows([event EXCEPT !.fields = @ \cup more])
    BY <1>2, CompletesWhole
  <2>3. identity[event.mint] \subseteq event.fields
    BY <2>1 DEF Covered
  <2>4. QED BY <2>1, <2>2, <2>3, Completed, CoveredWhenShown
<1>3. ASSUME UNCHANGED <<shown, identity>>,
             feed' = "complete" => feed = "complete" /\ event' = event
      PROVE  Covered' /\ NothingForgotten'
  BY <1>3 DEF Covered, NothingForgotten
<1>4. CASE ClientStep
  BY <1>3, <1>4 DEF ClientStep, cacheVars
<1>5. CASE \/ \E m \in Mints, s \in StreamNames, f \in Arrivals : Arrives(m, s, f)
           \/ \E m \in Mints : PairExpires(m)
           \/ FindsErrsClosed \/ FeedEnds
  BY <1>3, <1>5 DEF Arrives, PairExpires, FindsErrsClosed, FeedEnds, cacheVars
<1>6. CASE UNCHANGED vars
  BY <1>3, <1>6 DEF vars, feedVars, cacheVars
<1>7. QED BY <1>1, <1>2, <1>4, <1>5, <1>6 DEF Next

(***************************************************************************)
(* Whatever comes without a name, fails to be looked up or expires in the  *)
(* enricher's cache, no field of a mint that was shown is missing from a   *)
(* later event of the mint (main.go:222).                                  *)
(***************************************************************************)
THEOREM NamesStayShown == Spec => []NothingForgotten
<1>1. ASSUME Init PROVE FeedInv
  <2>1. DOMAIN shown = {} /\ feed # "complete"
    BY <1>1 DEF Init
  <2>2. QED BY <1>1, <2>1, TypesBegin DEF FeedInv, Covered, NothingForgotten
<1>2. FeedInv /\ [Next]_vars => FeedInv'
  BY TypesStep, CoveredStep DEF FeedInv
<1>3. FeedInv => NothingForgotten
  BY DEF FeedInv
<1>4. QED BY <1>1, <1>2, <1>3, PTL DEF Spec

-----------------------------------------------------------------------------
(* What the API lists.                                                     *)

(* The events of a stream in a sequence, by position, and those from p on. *)
Positions(seq, s) == {p \in DOMAIN seq : seq[p].stream = s}
From(seq, s, p) == {q \in Positions(seq, s) : q >= p}

LEMMA PositionsFinite ==
  ASSUME NEW seq \in Seq(Events), NEW s
  PROVE  /\ IsFiniteSet(Positions(seq, s)) /\ Cardinality(Positions(seq, s)) \in Nat
         /\ \A p : /\ IsFiniteSet(From(seq, s, p)) /\ Cardinality(From(seq, s, p)) \in Nat
                  /\ Cardinality(From(seq, s, p)) <= Cardinality(Positions(seq, s))
         /\ \A p \in Positions(seq, s) : Cardinality(From(seq, s, p)) >= 1
<1>1. IsFiniteSet(DOMAIN seq)
  BY FS_Interval
<1>2. IsFiniteSet(Positions(seq, s))
  BY <1>1, FS_Subset DEF Positions
<1>3. \A p : /\ IsFiniteSet(From(seq, s, p))
            /\ Cardinality(From(seq, s, p)) <= Cardinality(Positions(seq, s))
  BY <1>2, FS_Subset DEF From
<1>4. ASSUME NEW p \in Positions(seq, s) PROVE Cardinality(From(seq, s, p)) >= 1
  <2>1. p \in From(seq, s, p)
    BY DEF From, Positions
  <2>2. Cardinality(From(seq, s, p)) # 0
    BY <1>3, <2>1, FS_EmptySet
  <2>3. QED BY <1>3, <2>2, FS_CardinalityType
<1>5. QED BY <1>2, <1>3, <1>4, FS_CardinalityType

(* The events longer are those of seq and, at the position last, e. *)
Extends(longer, seq, e, last) ==
  /\ seq \in Seq(Events) /\ e \in Events
  /\ longer = Append(seq, e) /\ last = Len(seq) + 1

(* One more event is the last of its own stream. *)
IsNewest(longer, seq, s, last) ==
  /\ last \notin Positions(seq, s)
  /\ \A p \in Positions(seq, s) : longer[p] = seq[p]
  /\ Positions(longer, s) = Positions(seq, s) \cup {last}
  /\ From(longer, s, last) = {last}
  /\ \A p \in Positions(seq, s) :
       From(longer, s, p) = From(seq, s, p) \cup {last} /\ last \notin From(seq, s, p)

(* It is nothing to another stream. *)
IsAnothers(longer, seq, s) ==
  /\ Positions(longer, s) = Positions(seq, s)
  /\ \A p \in Positions(seq, s) :
       From(longer, s, p) = From(seq, s, p) /\ longer[p] = seq[p]

(* Which of the two it is depends on the stream of the event alone. *)
LEMMA PositionsAppended ==
  ASSUME NEW seq, NEW e, NEW s, NEW longer, NEW last, Extends(longer, seq, e, last)
  PROVE  /\ e.stream = s => IsNewest(longer, seq, s, last)
         /\ e.stream # s => IsAnothers(longer, seq, s)
<1>1. /\ DOMAIN longer = DOMAIN seq \cup {last} /\ longer[last] = e /\ last \in Nat
      /\ \A p \in DOMAIN seq : p \in Nat /\ p < last /\ longer[p] = seq[p]
  BY DEF Extends
<1>2. CASE e.stream = s
  <2>1. Positions(longer, s) = Positions(seq, s) \cup {last}
    BY <1>1, <1>2 DEF Positions
  <2>2. /\ last \notin Positions(seq, s)
        /\ \A p \in Positions(seq, s) : p \in Nat /\ p < last /\ longer[p] = seq[p]
    BY <1>1 DEF Positions
  <2>3. QED BY <1>1, <1>2, <2>1, <2>2 DEF IsNewest, From
<1>3. CASE e.stream # s
  <2>1. Positions(longer, s) = Positions(seq, s)
    BY <1>1, <1>3 DEF Positions
  <2>2. QED BY <1>1, <1>3, <2>1 DEF IsAnothers, From, Positions
<1>4. QED BY <1>2, <1>3

(* RecentBuffer.Add puts the item first and moves the others back. *)
LEMMA AddedFirst ==
  ASSUME NEW items \in Seq(Events), NEW e \in Events
  PROVE  LET added == Added(items, e)
         IN /\ Len(added) = (IF Len(items) >= MaxSize THEN MaxSize ELSE Len(items) + 1)
            /\ added[1] = e
            /\ \A k \in 1 .. Len(items) : k + 1 <= Len(added) => added[k + 1] = items[k]
<1> DEFINE longer == <<e>> \o items
<1>1. /\ longer \in Seq(Events) /\ Len(longer) = Len(items) + 1 /\ Len(items) \in Nat
      /\ longer[1] = e /\ \A k \in 1 .. Len(items) : longer[k + 1] = items[k]
  OBVIOUS
<1>2. MaxSize \in Nat \ {0}
  BY FeedAssumption
<1>3. CASE Len(longer) > MaxSize
  <2>1. Added(items, e) = SubSeq(longer, 1, MaxSize)
    BY <1>3 DEF Added
  <2>2. /\ Len(SubSeq(longer, 1, MaxSize)) = MaxSize
        /\ \A k \in 1 .. MaxSize : SubSeq(longer, 1, MaxSize)[k] = longer[k]
    BY <1>1, <1>2, <1>3
  <2>3. QED BY <1>1, <1>2, <1>3, <2>1, <2>2
<1>4. CASE ~(Len(longer) > MaxSize)
  BY <1>1, <1>2, <1>4 DEF Added
<1>5. QED BY <1>3, <1>4

(* The items are the last MaxSize events of a stream, the last one first. *)
KeepsNewest(items, seq, s) ==
  /\ Len(items) = IF Cardinality(Positions(seq, s)) > MaxSize
                    THEN MaxSize ELSE Cardinality(Positions(seq, s))
  /\ \A p \in Positions(seq, s) :
       LET back == Cardinality(From(seq, s, p))
       IN back <= Len(items) => items[back] = seq[p]

RecentInv == \A s \in StreamNames : KeepsNewest(recent[s], shown, s)

LEMMA RecentBegin ==
  ASSUME Init
  PROVE  RecentInv
<1>1. shown = <<>> /\ recent = [s \in StreamNames |-> <<>>]
  BY DEF Init
<1>2. \A s : Positions(shown, s) = {}
  BY <1>1 DEF Positions
<1>3. \A s \in StreamNames : Len(recent[s]) = 0
  BY <1>1
<1>4. \A s : Cardinality(Positions(shown, s)) = 0
  BY <1>2, FS_EmptySet
<1>5. QED BY <1>2, <1>3, <1>4, FeedAssumption DEF RecentInv, KeepsNewest

LEMMA NewestAdded ==
  ASSUME NEW items \in Seq(Events), NEW seq, NEW e, NEW s,
         e.stream = s, KeepsNewest(items, seq, s),
         NEW longer, NEW last, Extends(longer, seq, e, last)
  PROVE  KeepsNewest(Added(items, e), longer, s)
<1> DEFINE added == Added(items, e)
<1>1. IsNewest(longer, seq, s, last)
  BY PositionsAppended, Zenon
<1> USE DEF IsNewest
<1> seq \in Seq(Events) /\ e \in Events /\ longer[last] = e
  BY DEF Extends
<1>2. /\ Len(added) = (IF Len(items) >= MaxSize THEN MaxSize ELSE Len(items) + 1)
      /\ added[1] = e
      /\ \A k \in 1 .. Len(items) : k + 1 <= Len(added) => added[k + 1] = items[k]
  BY AddedFirst
<1> HIDE DEF added
<1>3. /\ IsFiniteSet(Positions(seq, s)) /\ Cardinality(Positions(seq, s)) \in Nat
      /\ \A p \in Positions(seq, s) :
           /\ IsFiniteSet(From(seq, s, p)) /\ Cardinality(From(seq, s, p)) \in Nat
           /\ Cardinality(From(seq, s, p)) >= 1
  BY PositionsFinite
<1>4. Cardinality(Positions(longer, s)) = Cardinality(Positions(seq, s)) + 1
  <2>1. Cardinality(Positions(seq, s) \cup {last}) = Cardinality(Positions(seq, s)) + 1
    BY <1>1, <1>3, FS_AddElement
  <2>2. QED BY <1>1, <2>1
<1>5. Cardinality(From(longer, s, last)) = 1
  BY <1>1, FS_Singleton
<1>6. ASSUME NEW p \in Positions(seq, s)
      PROVE  Cardinality(From(longer, s, p)) = Cardinality(From(seq, s, p)) + 1
  <2>1. Cardinality(From(seq, s, p) \cup {last}) = Cardinality(From(seq, s, p)) + 1
    BY <1>1, <1>3, FS_AddElement
  <2>2. QED BY <1>1, <2>1
<1>7. Len(added) = IF Cardinality(Positions(longer, s)) > MaxSize
                    THEN MaxSize ELSE Cardinality(Positions(longer, s))
  BY <1>2, <1>3, <1>4, FeedAssumption DEF KeepsNewest
<1>8. ASSUME NEW p \in Positions(longer, s), Cardinality(From(longer, s, p)) <= Len(added)
      PROVE  added[Cardinality(From(longer, s, p))] = longer[p]
  <2>1. CASE p = last
    BY <1>1, <1>2, <1>5, <2>1
  <2>2. CASE p \in Positions(seq, s)
    <3> DEFINE back == Cardinality(From(seq, s, p))
    <3>1. back \in Nat /\ back >= 1 /\ Cardinality(From(longer, s, p)) = back + 1
      BY <1>3, <1>6, <2>2
    <3> HIDE DEF back
    <3>2. Len(items) \in Nat /\ back <= Len(items)
      BY <1>2, <1>8, <3>1, FeedAssumption
    <3>3. items[back] = seq[p]
      BY <2>2, <3>2 DEF KeepsNewest, back
    <3>4. back + 1 <= Len(added)
      BY <1>8, <3>1
    <3>5. added[back + 1] = items[back]
      BY <1>2, <3>1, <3>2, <3>4
    <3>6. QED BY <1>1, <2>2, <3>1, <3>3, <3>5
  <2>3. QED BY <1>1, <2>1, <2>2
<1>9. QED BY <1>7, <1>8 DEF KeepsNewest, added

LEMMA RecentStep ==
  ASSUME Types, RecentInv, [Next]_vars
  PROVE  RecentInv'
<1>1. CASE FeedCompletes
  <2>1. PICK e \in Events : Shows(e)
    BY <1>1, CompletesWhole, Completed
  <2>2. /\ recent \in [StreamNames -> Seq(Events)] /\ shown \in Seq(Events)
        /\ e.stream \in StreamNames
    BY DEF Types, Caches, Events
  <2>3. /\ recent' = [recent EXCEPT ![e.stream] = Added(recent[e.stream], e)]
        /\ shown' = Append(shown, e)
    BY <2>1 DEF Shows
  <2> PICK last : Extends(shown', shown, e, last)
    BY <2>2, <2>3 DEF Extends
  <2>4. ASSUME NEW s \in StreamNames PROVE KeepsNewest(recent'[s], shown', s)
    <3>1. CASE s = e.stream
      <4>1. recent[s] \in Seq(Events) /\ KeepsNewest(recent[s], shown, s)
        BY <2>2 DEF RecentInv
      <4>2. KeepsNewest(Added(recent[s], e), shown', s)
        BY <2>2, <3>1, <4>1, NewestAdded
      <4>3. QED BY <2>2, <2>3, <3>1, <4>2
    <3>2. CASE s # e.stream
      <4>1. recent'[s] = recent[s]
        BY <2>2, <2>3, <3>2
      <4>2. IsAnothers(shown', shown, s)
        BY <3>2, PositionsAppended, Zenon
      <4>3. QED BY <4>1, <4>2 DEF IsAnothers, RecentInv, KeepsNewest
    <3>3. QED BY <3>1, <3>2
  <2>5. QED BY <2>4 DEF RecentInv
<1>2. CASE UNCHANGED <<recent, shown>>
  BY <1>2 DEF RecentInv
<1>3. CASE \/ \E m \in Mints, s \in StreamNames, f \in Arrivals : Arrives(m, s, f)
           \/ ClientStep \/ Receives
           \/ \E m \in Mints : PairExpires(m)
           \/ FindsErrsClosed \/ FeedEnds
  BY <1>2, <1>3 DEF Arrives, ClientStep, Receives, PairExpires, FindsErrsClosed, FeedEnds, cacheVars
<1>4. CASE UNCHANGED vars
  BY <1>2, <1>4 DEF vars, feedVars, cacheVars
<1>5. QED BY <1>1, <1>3, <1>4 DEF Next

(* RecentBuffer.List, and what there is to list. *)
LEMMA ListsNewest ==
  ASSUME Types, RecentInv
  PROVE  ListShowsNewest
<1> SUFFICES ASSUME NEW s \in StreamNames, NEW limit \in -1 .. MaxSize + 1
             PROVE  LET list == List(s, limit)
                        most == IF limit <= 0 THEN MaxSize ELSE limit
                    IN /\ Len(list) = Min({most, MaxSize, Cardinality(ShownOn(s))})
                       /\ \A p \in ShownOn(s) :
                            Back(s, p) <= Len(list) => list[Back(s, p)] = shown[p]
  BY DEF ListShowsNewest
<1> DEFINE items == recent[s]
           all == Cardinality(ShownOn(s))
           most == IF limit <= 0 THEN MaxSize ELSE limit
<1>1. items \in Seq(Events) /\ shown \in Seq(Events)
  BY DEF Types, Caches
<1>2. ShownOn(s) = Positions(shown, s) /\ \A p : Back(s, p) = Cardinality(From(shown, s, p))
  BY DEF ShownOn, Back, Positions, From
<1>3. all \in Nat /\ \A p \in ShownOn(s) : Back(s, p) \in Nat /\ Back(s, p) >= 1
  BY <1>1, <1>2, PositionsFinite
<1>4. /\ Len(items) = IF all > MaxSize THEN MaxSize ELSE all
      /\ \A p \in ShownOn(s) : Back(s, p) <= Len(items) => items[Back(s, p)] = shown[p]
  BY <1>2 DEF RecentInv, KeepsNewest
<1>5. /\ Len(List(s, limit)) = IF most > Len(items) THEN Len(items) ELSE most
      /\ \A k \in 1 .. Len(List(s, limit)) : List(s, limit)[k] = items[k]
  <2>1. CASE limit <= 0 \/ limit > Len(items)
    <3>1. List(s, limit) = items
      BY <2>1 DEF List
    <3>2. limit <= 0 => Len(items) <= MaxSize
      BY <1>3, <1>4, FeedAssumption
    <3>3. QED BY <1>1, <2>1, <3>1, <3>2, FeedAssumption
  <2>2. CASE ~(limit <= 0 \/ limit > Len(items))
    <3>1. List(s, limit) = SubSeq(items, 1, limit)
      BY <1>1, <2>2, FeedAssumption DEF List
    <3>2. QED BY <1>1, <2>2, <3>1, FeedAssumption
  <2>3. QED BY <2>1, <2>2
<1>6. most \in 1 .. MaxSize + 1
  BY FeedAssumption
<1> HIDE DEF items, all, most
<1>7. ASSUME NEW n \in {most, MaxSize, all}, \A o \in {most, MaxSize, all} : n <= o
      PROVE  n = Min({most, MaxSize, all})
  BY <1>3, <1>7, <1>6, FeedAssumption DEF Min
<1>8. Len(List(s, limit)) = Min({most, MaxSize, all})
  <2>1. /\ Len(List(s, limit)) \in {most, MaxSize, all}
        /\ \A o \in {most, MaxSize, all} : Len(List(s, limit)) <= o
    BY <1>3, <1>4, <1>5, <1>6, FeedAssumption
  <2>2. QED BY <1>7, <2>1
<1>9. \A p \in ShownOn(s) :
        Back(s, p) <= Len(List(s, limit)) => List(s, limit)[Back(s, p)] = shown[p]
  BY <1>3, <1>4, <1>5, <1>6, FeedAssumption
<1>10. QED BY <1>8, <1>9 DEF all, most

(***************************************************************************)
(* Whatever limit it is asked for, and without one (not positive), the API *)
(* lists the last events shown on a stream, the last one first, for any    *)
(* capacity of the RecentBuffer (client.go:347).                           *)
(***************************************************************************)
THEOREM ListIsNewest == Spec => []ListShowsNewest
<1>1. Init => Types /\ RecentInv
  BY TypesBegin, RecentBegin
<1>2. Types /\ RecentInv /\ [Next]_vars => (Types /\ RecentInv)'
  BY TypesStep, RecentStep
<1>3. Types /\ RecentInv => ListShowsNewest
  BY ListsNewest
<1>4. QED BY <1>1, <1>2, <1>3, PTL DEF Spec

=============================================================================
