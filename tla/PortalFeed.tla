----------------------------- MODULE PortalFeed -----------------------------
(***************************************************************************)
(* The PumpPortal feed: the goroutine of cmd/api/main.go that takes new    *)
(* tokens and migrations from the PumpPortal client, completes them from   *)
(* what it remembers of the mint and from DexScreener                      *)
(* (internal/pumpportal/enricher.go), keeps the latest of each stream in   *)
(* the RecentBuffer, and broadcasts them.  The client goes on meanwhile:   *)
(* it may have read the next event and be holding it out.                  *)
(*                                                                         *)
(* Of an event the model keeps which of its identity fields are not blank, *)
(* and not its market data.  A field that is not blank is never replaced.  *)
(* Only the feed touches the identity cache and the enricher; the handlers *)
(* of the API read the RecentBuffer, whose methods are one step.  The feed *)
(* exists only when PumpPortal has a url and a key.  The client's capture  *)
(* of its first migration in a file is left out.                           *)
(***************************************************************************)
EXTENDS StreamClients, SequencesExt, Tokens

CONSTANTS MaxSize,     \* capacity of the RecentBuffer, per stream
          Arrivals,    \* the sets of fields an event may arrive with
          Answers,     \* those DexScreener may know of a mint
          MaxEvents    \* bound: events

Fields == {"name", "symbol", "uri"}

ASSUME FeedAssumption ==
  /\ Sources = {"portal"}
  /\ MaxSize \in Nat \ {0}
  /\ Arrivals \subseteq SUBSET Fields
  /\ Answers \subseteq SUBSET {"name", "symbol"}
  /\ MaxEvents \in Nat

VARIABLES feed,       \* "select", "complete" or "ended"
          errsNil,    \* portalErrs has been set to nil
          offer,      \* the event the client holds out
          event,      \* the event the feed completes
          identity,   \* portalIdentityCache: the fields known of each mint
          pairs,      \* the enricher's cache: the fields, or NoEntry
          recent,     \* the RecentBuffer, newest first
          arrived,    \* events so far
          shown       \* events broadcast, in order (history)

cacheVars == <<identity, pairs, recent>>
feedVars == <<feed, errsNil, offer, event, cacheVars, arrived, shown>>
vars == <<streamVars, feedVars>>

StreamNames == {"created", "migrated"}
None == <<>>
NoEntry == {"none"}

Events == [no : 1 .. MaxEvents, mint : Mints, stream : StreamNames,
           fields : SUBSET Fields]

FeedTypeOK ==
  /\ StreamsTypeOK
  /\ feed \in {"select", "complete", "ended"}
  /\ errsNil \in BOOLEAN
  /\ offer \in Events \cup {None}
  /\ event \in Events \cup {None}
  /\ offer = None <=> client["portal"] # "deliver"
  /\ event = None <=> feed # "complete"
  /\ identity \in [Mints -> SUBSET Fields]
  /\ pairs \in [Mints -> {NoEntry} \cup SUBSET {"name", "symbol"}]
  /\ DOMAIN recent = StreamNames
  /\ \A s \in StreamNames :
       recent[s] \in Seq(Events) /\ Len(recent[s]) <= MaxSize
  /\ arrived \in 0 .. MaxEvents
  /\ shown \in Seq(Events)

Init ==
  /\ StreamsInit
  /\ configured = Sources
  /\ feed = "select"
  /\ errsNil = FALSE
  /\ offer = None /\ event = None
  /\ identity = [m \in Mints |-> {}]
  /\ pairs = [m \in Mints |-> NoEntry]
  /\ recent = [s \in StreamNames |-> <<>>]
  /\ arrived = 0
  /\ shown = <<>>

-----------------------------------------------------------------------------
(* The client.                                                             *)

(* A message is read; its event is held out to the feed. *)
Arrives(m, stream, fields) ==
  /\ arrived < MaxEvents
  /\ EventArrives("portal")
  /\ arrived' = arrived + 1
  /\ offer' = [no |-> arrived', mint |-> m, stream |-> stream,
               fields |-> fields]
  /\ UNCHANGED <<feed, errsNil, event, cacheVars, shown>>

(* An event given up with the context is gone. *)
ClientStep ==
  /\ ClientRuns("portal") \/ LineBreaks("portal") \/ Cancel
  /\ offer' = IF client'["portal"] = "deliver" THEN offer ELSE None
  /\ UNCHANGED <<feed, errsNil, event, cacheVars, arrived, shown>>

-----------------------------------------------------------------------------
(* The feed.                                                               *)

(* A faulty completion that does not look at the uri. *)
RememberedButUri(e) ==
  [e EXCEPT !.fields = @ \cup (identity[e.mint] \ {"uri"})]

(* Blank fields are filled from the identity cache. *)
Remembered(e) == [e EXCEPT !.fields = @ \cup identity[e.mint]]

Receives ==
  /\ feed = "select"
  /\ Taken("portal")
  /\ feed' = "complete"
  /\ event' = Remembered(offer)
  /\ offer' = None
  /\ UNCHANGED <<errsNil, cacheVars, arrived, shown>>

(* An event with any field at all replaces the cache entry. *)
Identity(e) ==
  IF e.fields = {} THEN identity ELSE [identity EXCEPT ![e.mint] = e.fields]

(* A faulty Add that leaves a full buffer as it is. *)
AddedIfRoom(items, e) ==
  IF Len(items) >= MaxSize THEN items ELSE <<e>> \o items

(* A faulty Add that never drops an item. *)
AddedForGood(items, e) == <<e>> \o items

(* RecentBuffer.Add: newest first, the oldest dropped. *)
Added(items, e) ==
  LET longer == <<e>> \o items
  IN IF Len(longer) > MaxSize THEN SubSeq(longer, 1, MaxSize) ELSE longer

(* RecentBuffer.List. *)
List(stream, limit) ==
  LET items == recent[stream]
  IN IF limit <= 0 \/ limit > Len(items) THEN items
     ELSE SubSeq(items, 1, limit)

(* The completed event is remembered, kept and broadcast. *)
Shows(e) ==
  /\ identity' = Identity(e)
  /\ recent' = [recent EXCEPT ![e.stream] = Added(@, e)]
  /\ shown' = Append(shown, e)
  /\ feed' = "select" /\ event' = None
  /\ UNCHANGED <<streamVars, errsNil, offer, arrived>>

(* Enrich does nothing for a new token. *)
ShowsCreated ==
  /\ feed = "complete" /\ event.stream = "created"
  /\ Shows(event)
  /\ UNCHANGED pairs

Migrating(cached) ==
  /\ feed = "complete" /\ event.stream = "migrated"
  /\ (pairs[event.mint] # NoEntry) = cached

(* mergeEnrichedEvent: a fresh entry fills the fields that are blank. *)
ShowsFromCache ==
  /\ Migrating(TRUE)
  /\ Shows([event EXCEPT !.fields = @ \cup pairs[event.mint]])
  /\ UNCHANGED pairs

(* DexScreener answers with pairs, of which the best may have a name and a *)
(* symbol; the enricher keeps the event so completed.                      *)
ShowsFromLookup(found) ==
  LET e == [event EXCEPT !.fields = @ \cup found]
  IN /\ Migrating(FALSE)
     /\ Shows(e)
     /\ pairs' = [pairs EXCEPT ![e.mint] = e.fields \ {"uri"}]

(* A faulty feed that drops a migration it cannot enrich. *)
DropsUnenriched ==
  /\ Migrating(FALSE)
  /\ feed' = "select" /\ event' = None
  /\ UNCHANGED <<streamVars, errsNil, offer, cacheVars, arrived, shown>>

(* The lookup fails, after four seconds at most, or knows no pair. *)
ShowsUnenriched ==
  /\ Migrating(FALSE)
  /\ Shows(event)
  /\ UNCHANGED pairs

(* Two minutes after it was stored an entry counts for nothing. *)
PairExpires(m) ==
  /\ pairs[m] # NoEntry
  /\ pairs' = [pairs EXCEPT ![m] = NoEntry]
  /\ UNCHANGED <<streamVars, feed, errsNil, offer, event, identity, recent,
                 arrived, shown>>

(* A closed channel is set to nil, and is never ready again. *)
FindsErrsClosed ==
  /\ feed = "select" /\ ~errsNil
  /\ client["portal"] \in {"errsClosed", "ended"}
  /\ errsNil' = TRUE
  /\ UNCHANGED <<streamVars, feed, offer, event, cacheVars, arrived, shown>>

(* The context is done, or the second of the two channels is set to nil.   *)
FeedEnds ==
  /\ feed = "select"
  /\ cancelled \/ (errsNil /\ Ended("portal"))
  /\ feed' = "ended"
  /\ UNCHANGED <<streamVars, errsNil, offer, event, cacheVars, arrived, shown>>

FeedCompletes ==
  \/ ShowsCreated \/ ShowsFromCache \/ ShowsUnenriched
  \/ \E found \in Answers : ShowsFromLookup(found)

Next ==
  \/ \E m \in Mints, s \in StreamNames, f \in Arrivals : Arrives(m, s, f)
  \/ ClientStep
  \/ Receives \/ FeedCompletes
  \/ \E m \in Mints : PairExpires(m)
  \/ FindsErrsClosed \/ FeedEnds

(* The goroutines run, a read ends by its deadline, a lookup by its        *)
(* timeout; the select is fair between ready cases, and the feed comes     *)
(* back to it.                                                             *)
ClientGoesOn == ClientStep /\ client' # client

Spec ==
  /\ Init /\ [][Next]_vars
  /\ WF_vars(ClientGoesOn)
  /\ WF_vars(FeedCompletes)
  /\ SF_vars(Receives)
  /\ SF_vars(FeedEnds)

-----------------------------------------------------------------------------
(* Properties.                                                             *)

(***************************************************************************)
(* What the dashboard has been shown of a mint it is shown again: an event *)
(* that arrives without a name, or a migration whose lookup fails after an *)
(* entry has expired, is never shown with less than an earlier event of    *)
(* the mint (main.go:222).                                                 *)
(***************************************************************************)
NothingForgotten ==
  \A i, j \in DOMAIN shown :
    i < j /\ shown[i].mint = shown[j].mint
      => shown[i].fields \subseteq shown[j].fields

ShownOn(stream) == {p \in DOMAIN shown : shown[p].stream = stream}

(* The n-th last event shown on a stream is as far back as n. *)
Back(stream, p) == Cardinality({q \in ShownOn(stream) : q >= p})

(***************************************************************************)
(* A dashboard that loads its feed from the API sees what one that has     *)
(* listened all along saw last, newest first, whatever limit it asks for;  *)
(* one that is not positive stands for none (client.go:357).               *)
(***************************************************************************)
ListShowsNewest ==
  \A s \in StreamNames : \A limit \in -1 .. MaxSize + 1 :
    LET list == List(s, limit)
        most == IF limit <= 0 THEN MaxSize ELSE limit
    IN /\ Len(list) = Min({most, MaxSize, Cardinality(ShownOn(s))})
       /\ \A p \in ShownOn(s) :
            Back(s, p) <= Len(list) => list[Back(s, p)] = shown[p]

(***************************************************************************)
(* Every event that is read is shown, whatever happens to its lookup,      *)
(* unless the program is cancelled meanwhile (main.go:236).                *)
(***************************************************************************)
EveryEventShown ==
  \A n \in 1 .. MaxEvents :
    arrived = n ~> (cancelled \/ \E i \in DOMAIN shown : shown[i].no = n)

(***************************************************************************)
(* A cancelled program ends feed and client, though the feed may be in a   *)
(* lookup and the client may hold out an event nobody takes any more       *)
(* (client.go:214).                                                        *)
(***************************************************************************)
FeedAndClientEnd == cancelled ~> (feed = "ended" /\ Ended("portal"))

=============================================================================
