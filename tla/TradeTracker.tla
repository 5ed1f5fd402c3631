---------------------------- MODULE TradeTracker ----------------------------
(***************************************************************************)
(* internal/pumpportal/trade_tracker.go: one upstream token-trade          *)
(* subscription per mint, shared by all its watchers.                      *)
(*                                                                         *)
(*   - AddWatch and RemoveWatch change watcherCounts under the mutex,      *)
(*     release it, and only then put a change on the channel changeReq,    *)
(*     with a non-blocking send: the two halves are two steps here         *)
(*     (CountUp or CountDown, then SendChange).                            *)
(*   - Connect keeps one connection; each connection has a writer          *)
(*     goroutine that first subscribes every tracked mint and then applies *)
(*     the changes in channel order.  consume does not wait for its writer *)
(*     to end, so a cancelled writer may still take one change (its select *)
(*     picks at random among the ready cases) and lose it on the closed    *)
(*     connection.                                                         *)
(*                                                                         *)
(* The tracker is taken as enabled (URL and API key configured) and mints  *)
(* as trimmed and non-empty; disabled or empty, every operation returns    *)
(* at once.                                                                *)
(***************************************************************************)
EXTENDS Integers, Sequences, FiniteSets, Tokens

CONSTANTS Callers,     \* goroutines that call AddWatch and RemoveWatch
          QueueCap,    \* capacity of changeReq (128 in the code)
          MaxCalls,    \* bound on the calls of AddWatch and RemoveWatch
          MaxBreaks    \* bound on the connections that break

ASSUME QueueCapNat == QueueCap \in Nat \ {0}
ASSUME BoundsNat == MaxCalls \in Nat /\ MaxBreaks \in Nat

VARIABLES watcherCounts,   \* 0 when the mint has no entry
          metrics,         \* mints that have an entry in the metrics map
          changeReq,       \* the channel of subscription changes
          pending,         \* {ch}: the caller has unlocked, not yet sent ch
          conn,            \* "down", "up", or "broken" (unnoticed so far)
          writer,          \* the writer goroutine of the current connection
          toList,          \* tracked mints the writer has yet to subscribe
          stale,           \* a cancelled writer is still in its select
          upstream,        \* mints PumpPortal streams on this connection
          dropped,         \* mints with a change lost (history variable)
          calls, breaks    \* counters for MaxCalls and MaxBreaks

countVars == <<watcherCounts, metrics, changeReq, pending>>
connVars == <<conn, writer, toList, stale, upstream, breaks>>
trackerVars == <<countVars, connVars, dropped>>
vars == <<trackerVars, calls>>

Change == [method : {"subscribeTokenTrade", "unsubscribeTokenTrade"},
           mint : Mints]
Subscribe(m) == [method |-> "subscribeTokenTrade", mint |-> m]
Unsubscribe(m) == [method |-> "unsubscribeTokenTrade", mint |-> m]

Tracked == {m \in Mints : watcherCounts[m] > 0}

TrackerTypeOK ==
  /\ watcherCounts \in [Mints -> Nat]
  /\ metrics \in SUBSET Mints
  /\ changeReq \in Seq(Change)
  /\ Len(changeReq) <= QueueCap
  /\ pending \in [Callers -> SUBSET Change]
  /\ conn \in {"down", "up", "broken"}
  /\ writer \in {"none", "start", "listing", "loop", "ended"}
  /\ toList \in SUBSET Mints
  /\ stale \in BOOLEAN
  /\ upstream \in SUBSET Mints
  /\ dropped \in SUBSET Mints
  /\ breaks \in 0..MaxBreaks
  /\ calls \in 0..MaxCalls

(* NewTradeTracker, before Connect has dialled. *)
NewTradeTracker ==
  /\ watcherCounts = [m \in Mints |-> 0]
  /\ metrics = {}
  /\ changeReq = <<>>
  /\ pending = [c \in Callers |-> {}]
  /\ conn = "down"
  /\ writer = "none"
  /\ toList = {}
  /\ stale = FALSE
  /\ upstream = {}
  /\ dropped = {}

-----------------------------------------------------------------------------
(* AddWatch and RemoveWatch.                                               *)

(* A faulty AddWatch that takes the first watcher for a later one. *)
CountUpSendsNothing(c, m) ==
  /\ watcherCounts' = [watcherCounts EXCEPT ![m] = @ + 1]
  /\ UNCHANGED <<pending, metrics, changeReq, dropped>>

(* AddWatch up to the unlock: only the first watcher has a change to send. *)
CountUp(c, m) ==
  /\ watcherCounts' = [watcherCounts EXCEPT ![m] = @ + 1]
  /\ pending' = [pending EXCEPT
                   ![c] = IF watcherCounts'[m] > 1 THEN {} ELSE {Subscribe(m)}]
  /\ UNCHANGED <<metrics, changeReq, dropped>>

(* A faulty RemoveWatch that does not look whether the mint is tracked. *)
CountDownUnchecked(c, m) ==
  /\ watcherCounts' = [watcherCounts EXCEPT ![m] = @ - 1]
  /\ UNCHANGED <<metrics, pending, changeReq, dropped>>

(* A faulty RemoveWatch that clears the metrics for whoever leaves. *)
CountDownClearsMetrics(c, m) ==
  /\ watcherCounts[m] > 0
  /\ watcherCounts' = [watcherCounts EXCEPT ![m] = @ - 1]
  /\ metrics' = metrics \ {m}
  /\ pending' = [pending EXCEPT
                   ![c] = IF watcherCounts[m] > 1 THEN {} ELSE {Unsubscribe(m)}]
  /\ UNCHANGED <<changeReq, dropped>>

(* RemoveWatch up to the unlock: an untracked mint is left alone, the last *)
(* watcher takes the metrics along and has a change to send.               *)
CountDown(c, m) ==
  \/ /\ watcherCounts[m] = 0
     /\ UNCHANGED <<watcherCounts, metrics, pending, changeReq, dropped>>
  \/ /\ watcherCounts[m] > 1
     /\ watcherCounts' = [watcherCounts EXCEPT ![m] = @ - 1]
     /\ UNCHANGED <<metrics, pending, changeReq, dropped>>
  \/ /\ watcherCounts[m] = 1
     /\ watcherCounts' = [watcherCounts EXCEPT ![m] = 0]
     /\ metrics' = metrics \ {m}
     /\ pending' = [pending EXCEPT ![c] = {Unsubscribe(m)}]
     /\ UNCHANGED <<changeReq, dropped>>

(* A faulty send that takes no notice of a full channel. *)
SendChangeUnbounded(c) ==
  \E ch \in pending[c] :
    /\ pending' = [pending EXCEPT ![c] = {}]
    /\ changeReq' = Append(changeReq, ch)
    /\ UNCHANGED <<watcherCounts, metrics, dropped, connVars>>

(* A faulty send that spares a change about a mint the channel has one of. *)
SendChangeUnlessQueued(c) ==
  \E ch \in pending[c] :
    /\ pending' = [pending EXCEPT ![c] = {}]
    /\ changeReq' = IF \E i \in DOMAIN changeReq : changeReq[i].mint = ch.mint
                      THEN changeReq ELSE Append(changeReq, ch)
    /\ UNCHANGED <<watcherCounts, metrics, dropped, connVars>>

(* The non-blocking send after the unlock: a full channel drops the change *)
(* with a warning.                                                         *)
SendChange(c) ==
  \E ch \in pending[c] :
    /\ pending' = [pending EXCEPT ![c] = {}]
    /\ \/ /\ Len(changeReq) < QueueCap
          /\ changeReq' = Append(changeReq, ch)
          /\ UNCHANGED dropped
       \/ /\ Len(changeReq) = QueueCap
          /\ dropped' = dropped \cup {ch.mint}
          /\ UNCHANGED changeReq
    /\ UNCHANGED <<watcherCounts, metrics, connVars>>

-----------------------------------------------------------------------------
(* Connect, consume and the writer goroutine.                              *)

(* dial succeeds; consume starts the writer.  A failed dial only waits.    *)
Dial ==
  /\ conn = "down"
  /\ conn' = "up"
  /\ writer' = "start"
  /\ upstream' = {}
  /\ UNCHANGED <<toList, stale, breaks, countVars, dropped>>

(* A subscription write: applied by a live connection, without effect on   *)
(* one that has broken but not yet failed the write.                       *)
Written(S) == upstream' = IF conn = "up" THEN S ELSE upstream

(* A faulty writer that starts with the changes and lists nothing. *)
WriterSkipsListing ==
  /\ writer = "start"
  /\ writer' = "loop"
  /\ UNCHANGED <<toList, conn, stale, upstream, breaks, countVars, dropped>>

(* listTrackedMints copies the tracked mints under the read lock.  A mint  *)
(* whose lost change is still followed or preceded by a queued one stays   *)
(* marked as dropped: the queue may undo what the copy says.               *)
WriterLists ==
  /\ writer = "start"
  /\ toList' = Tracked
  /\ writer' = IF Tracked = {} THEN "loop" ELSE "listing"
  /\ dropped' = {m \in dropped : \E i \in DOMAIN changeReq : changeReq[i].mint = m}
  /\ UNCHANGED <<conn, stale, upstream, breaks, countVars>>

WriterSubscribesNext ==
  /\ writer = "listing"
  /\ \E m \in toList :
       /\ toList' = toList \ {m}
       /\ writer' = IF toList' = {} THEN "loop" ELSE "listing"
       /\ Written(upstream \cup {m})
  /\ UNCHANGED <<conn, stale, breaks, countVars, dropped>>

(* The subscription set after the upstream has applied a change. *)
Applied(ch) ==
  IF ch.method = "subscribeTokenTrade" THEN upstream \cup {ch.mint}
                                       ELSE upstream \ {ch.mint}

WriterTakesChange ==
  /\ writer = "loop"
  /\ changeReq # <<>>
  /\ Written(Applied(Head(changeReq)))
  /\ changeReq' = Tail(changeReq)
  /\ UNCHANGED <<watcherCounts, metrics, pending, conn, writer, toList, stale,
                 breaks, dropped>>

(* A write or ping fails, which happens only on a broken connection: the   *)
(* writer ends; a change it had taken is lost.                             *)
WriterFails ==
  /\ conn = "broken"
  /\ writer \in {"listing", "loop"}
  /\ writer' = "ended"
  /\ toList' = {}
  /\ \/ UNCHANGED changeReq
     \/ writer = "loop" /\ changeReq # <<>> /\ changeReq' = Tail(changeReq)
  /\ UNCHANGED <<watcherCounts, metrics, pending, conn, stale, upstream,
                 breaks, dropped>>

(* The connection dies; nobody here has noticed yet. *)
ConnectionBreaks ==
  /\ conn = "up"
  /\ breaks < MaxBreaks
  /\ conn' = "broken"
  /\ upstream' = {}
  /\ breaks' = breaks + 1
  /\ UNCHANGED <<writer, toList, stale, countVars, dropped>>

(* ReadMessage returns an error (the peer closed, or the 70 s read         *)
(* deadline): consume returns, cancels the writer and the connection is    *)
(* closed.  A writer that had nothing left to list may still be selecting. *)
ConsumeReturns ==
  /\ conn = "broken"
  /\ conn' = "down"
  /\ writer' = "none"
  /\ toList' = {}
  /\ stale' = (stale \/ writer = "loop" \/ (writer = "start" /\ Tracked = {}))
  /\ UNCHANGED <<upstream, breaks, countVars, dropped>>

(* The cancelled writer's select picks the channel: the write fails on the *)
(* closed connection and the writer ends.  The change is made good by the  *)
(* next listing, unless that listing has already been taken.               *)
StaleWriterTakesChange ==
  /\ stale
  /\ changeReq # <<>>
  /\ stale' = FALSE
  /\ changeReq' = Tail(changeReq)
  /\ dropped' = IF writer \in {"none", "start"} THEN dropped
                ELSE dropped \cup {Head(changeReq).mint}
  /\ UNCHANGED <<watcherCounts, metrics, pending, conn, writer, toList,
                 upstream, breaks>>

StaleWriterEnds ==
  /\ stale
  /\ stale' = FALSE
  /\ UNCHANGED <<conn, writer, toList, upstream, breaks, countVars, dropped>>

(* consumeTradePayload: a buy makes or updates the metrics entry of its    *)
(* mint.  The code does not ask whether the mint has a watcher, and a      *)
(* trade may be read after the subscription or the connection is gone.     *)
TradeArrives(m) ==
  /\ conn # "down"
  /\ metrics' = metrics \cup {m}
  /\ UNCHANGED <<watcherCounts, changeReq, pending, connVars, dropped>>

ConnectionStep ==
  \/ Dial
  \/ WriterLists
  \/ WriterSubscribesNext
  \/ WriterTakesChange
  \/ WriterFails
  \/ ConnectionBreaks
  \/ ConsumeReturns
  \/ StaleWriterTakesChange
  \/ StaleWriterEnds
  \/ \E m \in Mints : TradeArrives(m)

-----------------------------------------------------------------------------
(* The tracker by itself: callers whose calls on one mint do not overlap.  *)
(* Overlapping calls, which the HTTP handlers do allow, are composed with  *)
(* this module in WatchApi.                                                *)

InFlight(m) == \E c \in Callers : \E ch \in pending[c] : ch.mint = m

MakesCall(c, m) ==
  /\ calls < MaxCalls
  /\ calls' = calls + 1
  /\ pending[c] = {}
  /\ ~InFlight(m)
  /\ UNCHANGED connVars

CallAddWatch(c, m) == MakesCall(c, m) /\ CountUp(c, m)

CallRemoveWatch(c, m) == MakesCall(c, m) /\ CountDown(c, m)

TrackerInit ==
  /\ NewTradeTracker
  /\ calls = 0
  /\ breaks = 0

TrackerNext ==
  \/ \E c \in Callers, m \in Mints : CallAddWatch(c, m) \/ CallRemoveWatch(c, m)
  \/ (\E c \in Callers : SendChange(c)) /\ UNCHANGED calls
  \/ ConnectionStep /\ UNCHANGED calls

(* The retry loop dials until it succeeds and a broken connection ends at  *)
(* its read deadline; the writer and a caller between unlock and send are  *)
(* runnable goroutines.  Nothing is assumed of the calls, of a connection  *)
(* breaking or of trades arriving.                                         *)
ConnectionFairness ==
  /\ WF_vars(Dial /\ UNCHANGED calls)
  /\ WF_vars(WriterLists /\ UNCHANGED calls)
  /\ WF_vars(WriterSubscribesNext /\ UNCHANGED calls)
  /\ WF_vars(WriterTakesChange /\ UNCHANGED calls)
  /\ WF_vars(ConsumeReturns /\ UNCHANGED calls)

TrackerSpec ==
  /\ TrackerInit /\ [][TrackerNext]_vars
  /\ ConnectionFairness
  /\ \A c \in Callers : WF_vars(SendChange(c) /\ UNCHANGED calls)

-----------------------------------------------------------------------------
(* No change about the mint is on its way to the writer. *)
Settled(m) ==
  /\ ~InFlight(m)
  /\ \A i \in DOMAIN changeReq : changeReq[i].mint # m

Agrees(m) == m \in upstream <=> watcherCounts[m] > 0

(***************************************************************************)
(* While the writer serves a live connection, the upstream streams a mint  *)
(* exactly when it has a watcher, up to changes still on their way and     *)
(* mints with a dropped change.  It rests on the lock and the channel      *)
(* giving changes of one mint one order, and on every connection starting  *)
(* from the watcher counts (trade_tracker.go:216).                         *)
(***************************************************************************)
SubscriptionFollowsWatchers ==
  conn = "up" /\ writer = "loop" =>
    \A m \in Mints \ dropped : Settled(m) => Agrees(m)

(* What the upstream is to do about a mint next is the first change about  *)
(* it in the channel or, with none there, the one still to be sent.        *)
About(m) == {i \in DOMAIN changeReq : changeReq[i].mint = m}

SubscribesNext(m) ==
  \/ \E i \in About(m) :
       changeReq[i] = Subscribe(m) /\ \A j \in About(m) : i <= j
  \/ About(m) = {} /\ \E c \in Callers : Subscribe(m) \in pending[c]

Due == {m \in Mints : ~Settled(m)}
DueToSubscribe == {m \in Mints : SubscribesNext(m)}

Promise == INSTANCE OneSubscription WITH
             watched <- Tracked, streamed <- upstream, due <- Due,
             next <- DueToSubscribe, lost <- dropped,
             serving <- conn = "up" /\ writer = "loop"

(***************************************************************************)
(* One subscription per mint: however calls, sends, writes and broken      *)
(* connections interleave, the upstream sees subscribing and unsubscribing *)
(* of a mint in turns, in the order in which its first watchers came and   *)
(* its last ones went, and is never left behind by a reconnect             *)
(* (trade_tracker.go:65, 212).                                             *)
(***************************************************************************)
StreamsInTurn == Promise!Spec

(***************************************************************************)
(* The shared buy metrics of a mint are erased only by its last watcher    *)
(* leaving (trade_tracker.go:103), never by one of several, by a second    *)
(* remove, or by a reconnect.                                              *)
(***************************************************************************)
MetricsLastAsLongAsWatched ==
  [][\A m \in metrics \ metrics' : watcherCounts[m] = 1 /\ watcherCounts'[m] = 0]_vars

(***************************************************************************)
(* Once calls and failures stop, the upstream subscriptions end up equal   *)
(* to the watched mints, whatever the calls, drops and reconnects before,  *)
(* except for mints whose change was dropped since.                        *)
(***************************************************************************)
SubscriptionsConverge ==
  <>[](\A m \in Mints \ dropped : Agrees(m))

=============================================================================
