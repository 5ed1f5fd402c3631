# Verification of sol-whisperer-v1

TLA+ modules, TLC runs and TLAPS proofs about the backend of sol-whisperer
(`cmd/api`, `internal/...`) and the parts of the web client (`web/src`) that
take part in its protocols. Paths below are relative to the repository root.

- `tlc -workers 2 -config <X>.cfg <M>` runs a check, `tlapm <M>.tla` the proofs.
- `PROJECT.json` lists the components, runs, mutants, findings, hazards and
  theorems, and maps every definition to the lines it stands for.

## 1. Inventory

The program streams token trades from three upstream feeds, detects volume
spikes, and tells browsers and Telegram users about them. A user *watches* a
mint; a watched mint gets its own upstream trade subscription, and its spikes
are delivered to the user personally.

| Component | State | Operations | Talks to |
|---|---|---|---|
| Watch registry (`internal/listener/registry.go`) | three maps under one mutex: keys user:mint, watchers per mint, users per mint | AddWatch, RemoveWatch, HasWatchers, UsersForMint | called by the API handlers, the preload and the spike callback |
| Trade tracker (`internal/pumpportal/trade_tracker.go`) | watch counts, metrics, channel of 128 changes, a connection with a writer and a reader | AddWatch, RemoveWatch, Connect, consume | called by handlers and preload; websocket to PumpPortal; trades to the processor and the hub |
| Watch API and start-up (`cmd/api/main.go`) | none of its own | POST, DELETE, GET listeners; preload | table, registry, tracker, in this order, with no common lock |
| SQLite store (`internal/store/sqlite.go`) | tables of listeners, spikes, snapshots | upsert, delete, list, insert | the only state that survives a restart |
| Dashboard (`web/src/app/App.tsx`, `lib/api.ts`, `lib/ws.ts`) | last listing, feed; a live socket with a reconnect timer | pin, unpin, reconnect | the HTTP API and `/ws/...` |
| Client queue (`internal/ws/priority_queue.go`) | six lists, closed flag, condition variable | Enqueue, RetryP1, Dequeue, Close | one producer side (hub), one writer |
| Hub and session (`internal/ws/hub.go`, `server.go`) | clients, two indexes, token buckets | AddClientForUser, RemoveClient, EnqueueForUser, Broadcast; reader and writer loops | spike callback, portal goroutines |
| Spike processor (`internal/volume/processor.go`) | dedupe cache (mutex), throttle map (no mutex) | ProcessEvent, RunDual | tracker, store, onSpike; called from two goroutines |
| Volume tracker (`internal/volume/tracker.go`) | events of 60 minutes per mint | AddEvent, Evaluate | processor |
| Stream clients (`internal/pumpdev`, `internal/rpc/ws_client.go`, `internal/pumpportal/client.go`) | connection, backoff, subscriptions | Connect, consume | the processor or the portal goroutine |
| Portal feed (`cmd/api/main.go`, `internal/pumpportal/enricher.go`, `RecentBuffer`) | identity cache, pair cache, the latest of two streams | complete, remember, keep, broadcast | portal client, DexScreener, hub; the API lists the buffer |
| Tier manager (`internal/rpc/tier_manager.go`) | two counters per tier | NextWS, NextRPC | the RPC client; labels of payloads |
| Notifier, auth, Jito, config | none | | |

### What is hard, and what makes each component right

- **Registry.** Adds and removes repeat. Right when the three maps agree.
- **Tracker.** The lock is released before the change is sent, the channel may
  be full, connections break and a cancelled writer outlives its connection.
  Right when PumpPortal streams a mint exactly while somebody watches it.
- **Watch API.** Two or three calls per request, nothing atomic; tabs and users
  interleave, statements fail, the process dies between two calls. Right when
  table, registry and tracker tell one story once nothing is under way, and a
  restart recovers it from the table.
- **Queue, hub, session.** A condition variable with a helper goroutine,
  cancellation and timeouts. Right when every accepted message is written or
  dies with its session, order is by class and arrival, and a closed session
  is removed.
- **Processor.** One unguarded map, two goroutines; throttle, insert and
  callback in sequence. Right when a mint's alerts keep the interval.
- **Volume window.** Events of several sources out of order and a binary search
  that assumes order. Right when pruning loses only old events.
- **Spike routing.** Three reads of the registry and one of the hub per user,
  while users unpin and pages go. Right when whoever stayed gets the spike once.
- **Stream clients, RunDual, portal feed.** Reconnect loops over dead
  endpoints, an unbuffered offer that nobody takes any more, channels that
  close one by one. Right when every stream comes back, every event that is
  read is used, and everything ends with the context.
- **Live socket.** Timers and late callbacks of controllers that were closed.
  Right when a page has one way to its feed, and a closed one has none.

`hazards` in `PROJECT.json` gives each of these a line.

## 2. Plan

| # | Module | Composes | Question | State |
|---|---|---|---|---|
| 1 | `Registry` | | maps agree | done |
| 2 | `TradeTracker` | | subscriptions follow watchers, converge | done |
| 3 | `WatchApi` | 1, 2 | table, registry, tracker, crash and restart | done |
| 4 | `PriorityQueue`, `WsSession` | queue in a session | lost wake-up, order, clean-up | done |
| 5 | `VolumeWindow`, `SpikeProcessor` | | pruning, dedupe, the throttle race, failed inserts, restarts | done |
| 6 | `Hub`, `LiveSocket`, `SpikeRouting` | 1 | one spike to everybody who should have it | done |
| 7 | `StreamClients`, `DualConsumer` | | reconnecting, rotation, closing channels, the end | done |
| 8 | `PortalFeed` | 7 | completion from caches, the recent list, the end | done |

Abstract specifications: a *priority FIFO* for the queue (`PriorityFifo`, which
`WsSession` implements), and *one subscription* per mint (`OneSubscription`, which
`TradeTracker` implements with calls on one mint that do not overlap).

Every invariant and action property of the passing runs is a theorem, and so are both
refinements.

## 3. The modules

**Tokens** declares `Mints` for the others, **Accounts** `Users`.

**Registry** is `registry.go`. A method runs under the mutex and is one action.
An absent map entry is 0 or `{}`: the code deletes entries that reach zero and
its readers cannot tell the difference. `user:mint` is a pair; a user id is the
decimal text of a number, so the key is unambiguous.

**TradeTracker** is `trade_tracker.go`.

| In the model | In the code |
|---|---|
| `CountUp`, `CountDown` | AddWatch, RemoveWatch up to the unlock; the decision to send is kept in `pending[c]` |
| `SendChange` | the non-blocking send after the unlock; a full channel puts the mint in `dropped` |
| `Dial`, `ConsumeReturns` | one turn of the loop in Connect |
| `WriterLists`, `WriterSubscribesNext`, `WriterTakesChange`, `WriterFails` | the writer goroutine: list, subscribe one by one, then apply changes in order |
| `StaleWriterTakesChange`, `StaleWriterEnds` | a cancelled writer whose select still has the channel as a ready case |
| `TradeArrives` | consumeTradePayload, reduced to "the mint has a metrics entry" |
| `ConnectionBreaks` | the network; it may break before anyone here notices |

`dropped` and the two counters are not in the code. `dropped` holds the mints
whose change was lost and not made good by a later listing; the properties speak
of the other mints. At most one cancelled writer is kept: it ends within one pass
of its select, and the next connection is dialled a second or more later.
A writer that was still listing when its connection was closed fails its write
and ends without taking anything.

`TrackerSpec` is the tracker by itself, with callers whose calls on one mint do
not overlap, the discipline under which its design works. The HTTP handlers do
not keep it; that is what the composition is for.

**OneSubscription** is what the tracker promises of a mint, without channel, callers
or writer: it is watched or not, streamed or not, changes are due or not, and the next
of them subscribes or does not. While a connection is served, the upstream does what is
next (`Follows`), and next comes the opposite; the last change due asks for what is
wanted. Without one, changes pass without effect (`Misses`), and the connection that is
served next starts with all settled mints right. A mint with a change lost is exempt
until a listing has made up for it (`Recovers`).

**WatchApi** composes both with the handlers. Every call a handler makes is a
step, `pc[c]` is the next call of client `c`, and `Next` interleaves them.
A client is a browser tab with one request outstanding; two clients of one user
are two tabs, or two clicks on a button that is not disabled meanwhile. A tab
unpins only what its last listing shows. `Crash` clears the memory and keeps the
table; the new process lists the table (or fails to and serves anyway) and adds
its rows. The table is a set of rows because of its unique index. History
variables: `blind` (mints a DELETE was sent for with no watch, as a stale tab can)
and `overlapped` (keys two requests worked on at once).

Not modelled here: refused requests, the columns of a listener other than user
and mint, the RPC endpoint in the reply.

**PriorityQueue** holds the six lists of `priority_queue.go` as one value, position
1 to 6 in the order `popNext` searches them, with the operations on it. It has no
state of its own. A message is what one client is sent once.

**PriorityFifo** is what the lists promise: the writer takes, of the waiting
messages of the best rank, the one accepted first; a message over the rate limit
waits in the rank of retries, where a new one displaces the oldest when the rank is
full, and only then.

**WsSession** is one session, `serveWSClient` of `server.go`, around its queue.

| In the model | In the code |
|---|---|
| `writer` | where the loop stands: `select`, in Dequeue before its test (`dequeue`, `woken`), between test and Wait (`checked`), `waiting`, in a write (`write`, `heartbeat`), at its deferred calls (`leave`) |
| `SelectsDone`, `SelectsHeartbeat`, `SelectsDequeue` | the three cases of the select |
| `FindsMessage`, `FindsContextDone`, `FindsNothing`, `Waits` | one turn of Dequeue's loop; its mutex is held from the test to Wait, so the hub cannot act at `checked` |
| `helper`, `HelperBroadcasts` | the goroutine that turns the end of the context into a Broadcast, without the mutex |
| `Enqueue`, `RetryP1` | what the hub does with a message within or over the client's limit |
| `ReaderEnds`, `PeerGoes` | the reader cancels when the connection is closed; a peer may also vanish unnoticed |

Which of the two the hub calls is a free choice here; the token bucket is in
`Hub`. `arrival`, `count` and `written` are history. The 3 seconds of a Dequeue run
out wherever it stands. Between its test and Wait lie a few instructions; a goroutine
stalled there for 3 seconds loses the time-out as it would lose a cancellation, and
`expired` is then `unheard`. If no message follows, that writer is asleep for good
(`AsleepForGood`), which `HeartbeatsGoOn`, `VanishedPeerIsRemoved` and
`ClosedPeerIsRemoved` exempt. A helper that outlives its Dequeue can only wake a later
Wait for nothing and is left out.

**VolumeWindow** is the arithmetic of `tracker.go` on the trades of one mint.
`SearchResults` is what `sort.Search` may return on any list, sorted or not: a
place where the predicate turns true. Pruning is a set of outcomes accordingly,
which has one member when the list is sorted. `Detected` is the verdict of
Evaluate with its quotients multiplied out.

**SpikeProcessor** is ProcessEvent in several goroutines: RunDual's and the one
that reads the trade tracker. `step[g]` is the next thing goroutine `g` does.

| In the model | In the code |
|---|---|
| `SkipsSeen`, `TakesIn` | the signature cache, under its mutex, and what the type of an event decides |
| `AddEvent`, `Evaluate` | the volume tracker's methods, each under its mutex; another goroutine's trade may come between them |
| `StoreSnapshot` | an insert whose failure ends the event |
| `Suppressed`, `PassesThrottle`, `MarksThrottle` | shouldEmitSpike, whose read and write of an unguarded map are two steps |
| `InsertSpike`, `Alerts` | the row, by its primary key, then onSpike |
| `SignatureExpires`, `Restart` | the dedupe window passes; the process starts anew with the table |

Trade times come with the events, in any order, and the cache goes by arrival, so
the two are independent here as they are in the code. A concurrent map access may
also end a Go process, which `Restart` covers. `added`, `newest`, `disorder`,
`letIn`, `raced` and `alerts` are history.

**Hub** is `hub.go`: clients, both indexes, token buckets, closed queues.
`RemoveClient` holds the mutex over all of it; `EnqueueForUser` does not, and is in
`SpikeRouting` call by call. What the queues hold is in `WsSession`.

**LiveSocket** is the dashboard's end, `ws.ts` and the effect that opens and closes
its controller, for several pages. `link` is the life of a connection as both ends
see it: the page may have lost a connection the server still has, and the reverse.
The test of `stopped` in connect is left out: `OneWayPerPage` shows that a closed
controller has no timer left to call it.

**SpikeRouting** is onSpike of `main.go` over `Registry`, `Hub` and `LiveSocket`.
`phase` is where the callback stands: broadcast, the users to tell, one user's
clients, one client, the users to text. Between any two of these, users pin and
unpin, pages load, reload and reconnect, sessions end and other goroutines use up
tokens. `always`, `ever` and `stayed` remember who watched and which clients were
there since the spike; `told`, `texted` and `textedDefault` what was sent. The returns
when a payload cannot be marshalled are left out: its values always can.

**StreamClients** is the loop the three upstream clients share, with the ways they
differ: PumpDev goes on when its subscription fails, RPC waits for an answer and
takes the next endpoint of its tier for every dial (`NextEndpoint` is NextWS). The
events channel is unbuffered, so `deliver` is a client holding out an event until
somebody takes it (`Taken`) or the context ends (`OfferGivenUp`). A line that broke
is `reset`, which a read notices, or `silent`, which only a deadline does. Errors
go to a buffered channel that drops what does not fit, and are left out.

**DualConsumer** adds RunDual: a select over four channels, of which a closed
errors channel is set to nil and a closed events channel is not, and so is ready in
every round.

**PortalFeed** adds the feed of `main.go` to the PumpPortal client. Of an event the
model keeps which identity fields (name, symbol, uri) are not blank; a field is
never replaced by another value in the code, only filled. `ShowsCreated`,
`ShowsFromCache`, `ShowsFromLookup` and `ShowsUnenriched` are the outcomes of
Enrich, each followed by what the feed does with every event: remember it, add it
to the RecentBuffer, broadcast it.

## 4. The runs

| Run | Bounds | States | Shows |
|---|---|---|---|
| `trade_tracker` | 2 mints, 2 callers, channel of 2, 5 calls, 2 broken connections | 400 000 | types, `SubscriptionFollowsWatchers`, `MetricsLastAsLongAsWatched`, the tracker implements `OneSubscription` (`StreamsInTurn`), and under fairness `SubscriptionsConverge` |
| `watch_api` | 1 mint, 2 users with 2 and 1 tabs, channel of 1, 3 requests, 1 crash, no broken connection | 1.5 million | types, `RegistryConsistent`, `StoreAgrees`, `CountCoversWatchers`, `RestartRecovers` |
| `watch_api_unpin` | 2 users, 1 mint, 4 requests | to the first violation | `LastUnpinUnsubscribes` fails |
| `watch_api_order` | 2 users, 1 mint, 4 requests | to the first violation | `WatchedIsSubscribed` fails |
| `ws_session` | 2 personal messages, a P2 and a P3 broadcast, retry buffer of 1 | 124 000 | types, `NoWakeUpLost`, `OnlyEarlyEndLosesHelper`, the lists implement `PriorityFifo` (`ServesInOrder`), `NobodySleepsOnMessages`, `HeartbeatsGoOn`, `VanishedPeerIsRemoved` |
| `ws_session_close` | 2 personal messages and a P2 broadcast | to the first violation | `ClosedPeerIsRemoved` fails |
| `spike_processor` | 1 mint, 2 goroutines, 4 events out of 5 kinds, 2 signatures, 1 restart, an hour of 6 units and an interval of 2 | 1.5 million | types, `RecentTradesKept`, `CountedOnce`, `AlertsSpacedUnlessRaced`, `AlertsHaveTheirOwnRow` |
| `spike_throttle` | the same without a restart | to the first violation | `AlertsAlwaysSpaced` fails |
| `spike_routing` | 1 mint, 2 users with a page each, 2 connections at a time, 1 token per second, no bound on steps | 2.7 million | types, `HubIndexesAgree`, `OneWayPerPage`, `WatchersAreTold` |
| `streams` | PumpDev and RPC, 3 RPC endpoints of which the second works, no bound on steps | 2 600 | types, `OutlivesItsSources`, and under fairness `StreamComesBack`, `EverythingEnds`, for endpoints that answer |
| `streams_mute` | the same, with endpoints that may not answer | 2 800 | `ChannelsClosedOnCancel` fails |
| `portal_feed` | 2 mints, 3 events, a buffer of 2, a lookup that knows the symbol or nothing | 175 000 | types, `NothingForgotten`, `ListShowsNewest`, and under fairness `EveryEventShown`, `FeedAndClientEnd` |

The bounds: a channel of 1 or 2 fills where one of 128 does, by a caller too
many. Two callers and two mints are enough for an overtaking, a shared mint and
an unrelated one; five calls take a mint up to two watchers and down again, with
one call left. Two breaks let a cancelled writer meet the next connection and
that one break too. In `watch_api` the table starts with any rows, so three
requests (one per tab, or three of one) act on every earlier history that the
table remembers; the broken connection is left to `trade_tracker`, since no
property of the run reads it. `ws_session` needs a message that arrives while the writer is anywhere in its
loop, one that displaces another in the retry buffer, and both classes of broadcast
behind it; `onSpike` and the portal goroutines send no other kinds.

In `spike_processor` any event may come twice, a buy and a sell share a signature,
trades come late, and the trade at 7 leaves another exactly an hour behind and a
third a unit less; four events are enough for two goroutines to race, a third alert to be measured against
both, and a duplicate. `spike_routing` is not bounded in time: two users make one
that stays and one that goes, one token runs out with the first message, and a page
can reconnect while the server still has its old session. `streams` is not bounded
either; the dead endpoints on both sides of the live one need the rotation to go on
and to wrap around. In `portal_feed` three events fill the buffer of 2 and push one out, and
are a first event that names a mint, a second that does not, and one of another
mint in between.

Deadlock is not checked: when the bounded calls are
used up and everything has settled, or the session is over, the model stops, as the
service idles.

Every property has a mutant in `PROJECT.json`: a faulty variant kept beside the
definition it replaces, under which TLC finds the property violated.

### Fairness

`SubscriptionsConverge`: weak fairness is assumed of dialling (the
loop in Connect retries forever), of the writer's steps and of a caller between
unlock and send (runnable goroutines), and of `ConsumeReturns` (the 70 s read
deadline ends a dead connection). Nothing is assumed of callers, of the network
or of trades. `WatchApi` states no fairness; its properties are safety properties.

`WsSession`: weak fairness of the writer, the helper and the reader (runnable
goroutines) and of the two timers; strong fairness of `SelectsDone`, because Go's
select chooses at random among ready cases, and of `WriteFails`, because TCP gives up
on a peer that vanished. `SlowTicker` says that the loop does not send heartbeats and
nothing else: the ticker fires every 15 seconds. Every write is assumed to return, one
to a peer that has closed perhaps with success at first. The code sets no write deadline,
so a peer that keeps its connection and reads nothing would block it. Nothing is assumed of messages, or of whether the peer stays.

`DualConsumer`: weak fairness of each client's own steps and of ProcessEvent's
return; strong fairness of `DualCancelled`, because the select chooses at random
among ready cases and a closed channel is ready every time; and strong fairness of a dial of a live endpoint, its subscription and its answer: the
network is up often enough. Reading ends at its 70 s deadline, and a dial at its
handshake timeout. Nothing is assumed of events, or that the program is cancelled.

`PortalFeed`: weak fairness of the client and of the completion of an event (a
lookup has a timeout of four seconds), strong fairness of `Receives` and
`FeedEnds`, for the select.

`SpikeProcessor` and `SpikeRouting` state no fairness: their properties are safety
properties.

### What the violations say

1. `LastUnpinUnsubscribes`: POST increments the tracker's count every time, DELETE
   decrements only when the registry has no watcher left. Two pins of one mint and
   its unpinning leave the count at 1 and the mint subscribed (Memory.md:1221 says
   otherwise).
2. `WatchedIsSubscribed`: u1's DELETE takes the count to 0 and pauses before its
   send; u2's POST sends its subscribe; then u1's unsubscribe arrives. u2 watches a
   mint that is not streamed until the next reconnect (Memory.md:1212).
3. `ClosedPeerIsRemoved`, stalls as long as a time-out aside: the writer tests its
   context and finds it alive; the reader sees the close and cancels; the helper
   broadcasts, without the mutex, to nobody; the writer calls Wait. Its helper is gone and the time-out changes nothing, so only the
   next message for this client wakes it. Until then no heartbeat is sent and the
   session stays registered (Memory.md:203).
4. `AlertsAlwaysSpaced`: RunDual's goroutine and the trade tracker's each evaluate a
   buy of one mint; both read lastSpikeAt before either writes it, and both alert
   (Memory.md:138).
5. `ChannelsClosedOnCancel`: an endpoint accepts the subscription and stays silent;
   the answer is read without a deadline and without the context, so a cancellation
   does not reach the client (ws_client.go:41).

What does hold in these directions: `CountCoversWatchers` (without a blind DELETE the
tracker never counts fewer than the watchers), `VanishedPeerIsRemoved`,
`AlertsSpacedUnlessRaced` and `AlertsHaveTheirOwnRow` (the primary key keeps a race
from alerting twice for one trade time), and `EverythingEnds` with endpoints that
answer. `StoreAgrees` says that table and registry agree unless two requests of one
user for one mint overlapped; then they may be left apart until a restart.

## 5. The proofs

For any sets of callers, users and mints (users and callers finite) and any bounds:

| Theorem | Statement |
|---|---|
| `TrackerTypeCorrect` | `TrackerSpec => []TrackerTypeOK` |
| `SubscriptionCorrect` | `TrackerSpec => []SubscriptionFollowsWatchers` |
| `MetricsCorrect` | `TrackerSpec => MetricsLastAsLongAsWatched` |
| `StreamsCorrect` | `TrackerSpec => StreamsInTurn`, that is, `TrackerSpec => Promise!Spec` |
| `TypeCorrect` | `Spec => []TypeOK` (WatchApi) |
| `RegistryCorrect` | `Spec => []RegistryConsistent` |
| `CountsCorrect` | `Spec => []CountCoversWatchers` |
| `StoreCorrect` | `Spec => []StoreAgrees` |
| `RestartCorrect` | `Spec => RestartRecovers` |
| `SpikeTypeCorrect` | `Spec => []TypeOK` (SpikeProcessor) |
| `TradesKept` | `Spec => []RecentTradesKept` |
| `SignaturesCountOnce` | `Spec => []CountedOnce` |
| `AlertsSpaced` | `Spec => []AlertsSpacedUnlessRaced` |
| `AlertsKeepRows` | `Spec => []AlertsHaveTheirOwnRow` |
| `RoutingTypeCorrect` | `Spec => []RoutingTypeOK` (SpikeRouting) |
| `HubStaysConsistent` | `Spec => []HubIndexesAgree` |
| `PagesHaveOneWay` | `Spec => []OneWayPerPage` |
| `SpikesReachWatchers` | `Spec => []WatchersAreTold` |
| `SessionTypeCorrect` | `Spec => []SessionTypeOK` (WsSession) |
| `NoWakeUpIsLost` | `Spec => []NoWakeUpLost` |
| `HelperIsThere` | `Spec => []OnlyEarlyEndLosesHelper` |
| `ListsImplementFifo` | `Spec => ServesInOrder`, that is, `Spec => Fifo!Spec` |
| `ConsumerTypeCorrect` | `Spec => []TypeOK` (DualConsumer) |
| `ConsumerOutlivesSources` | `Spec => []OutlivesItsSources` |
| `FeedTypeCorrect` | `Spec => []FeedTypeOK` (PortalFeed) |
| `NamesStayShown` | `Spec => []NothingForgotten` |
| `ListIsNewest` | `Spec => []ListShowsNewest` |

Assumptions: the named ASSUMEs of the modules (finite sets of users and callers, a
channel of at least one place, a rate of at least one, at least one endpoint per
source, natural bounds), which TLC evaluates on its instances. `RegistryProofs` holds
the lemmas about the registry's methods, which the proofs about the watch API and
about routing share.

*SubscriptionCorrect.* The property says something only of a settled mint and so
is not inductive. `LinkInv` adds: at most one change about a mint is between
unlock and send; that change agrees with the count (subscribe if and only if
watched); if none is, the last change about the mint in the channel agrees with
the count; a listing under way leaves every mint either right already, still to be
listed, or corrected by the channel; a new connection streams nothing. Each action
keeps it, and with an empty channel the upstream is what the last change or the
listing made it.

*StreamsCorrect.* The refinement mapping reads `due` and `next` off the channel and the
callers: a mint is due when it is not settled, and next is the first change about it in
the channel or, with none there, the one in flight. `InTurns` is what the mapping needs
beside `LinkInv`: one caller at most has a change about a mint in flight, and along the
channel and on to that caller the changes about a mint alternate between subscribe and
unsubscribe. With `LinkInv`, which says that the last one is right, the opposite of what
is next is next when it has been taken. `TurnsCall`, `TurnsSend` and `TurnsTail` say so
of a call, a send and a change that leaves the channel, `PromiseConnection` of each step
of the connection. That there is a first change about a mint is the well-foundedness of
`<` (`Smallest`), a fact of the library, where an induction would be out of reach.

*CountsCorrect.* The difference between the two sides of `CountCoversWatchers`
changes only when a request moves on. `AtAfterGoto` says by how much the number of
requests at a set of steps changes; `CoverGoto` reduces each action to the
arithmetic of its own counts. It rests on `RegistryConsistent` for what
RemoveWatch takes from a count.

*StoreCorrect.* The property is silent about a key whose request is under way.
`KeyRight` says what holds then: the key has at most that one request, its row is there
before it is registered and gone before it is unregistered, and only between the
statement and the call of the registry may row and watch differ. Keys that two requests
worked on at once are exempt, as in the property. `BeforeServing` is the same for the
preload: the registry holds the rows taken from the listing so far.

*RestartCorrect.* `PreloadInv` says that while the process starts, the tracker's count of
a mint is the registry's, and the subscription of each mint with a watcher is in the
channel, between unlock and send, or dropped; `Main` is the only caller. So when the last
row is in, what the property says of the new process follows.

*TradesKept.* A list of trades is not sorted, but by no more than `disorder`: any
trade is at most that much younger than a later one (`Sorted`). `PruningKeeps` shows for
any such list that whatever position the bisection ends at, what it cuts off is older
than the cutoff plus the disorder, and that the rest is no more out of order.
`TradesInv` carries this through AddEvent and Evaluate of different goroutines.

*AlertsSpaced* and *AlertsKeepRows.* `SpacingInv` says of a mint whose throttle has not
been raced in this run: its mark is not behind any alert, nor behind a goroutine that
has passed and not yet alerted; those are an interval apart from each other and from the
alerts; and at most one goroutine stands between read and write. `RowInv` says that a
goroutine about to alert has a row nobody else alerts for. *SignaturesCountOnce* needs
only that a signature that is not recent has not been counted.

*PagesHaveOneWay* and *HubStaysConsistent.* `SessionInv` ties both ends of a
connection: a page's socket is dialling, open or dropped, such a connection belongs to
one page, and a client is registered exactly while its connection is open or left. So a
client that registers is new to the indexes, and `clientUsers` still holds its user when it
is removed.

*SpikesReachWatchers.* The property speaks of the moment onSpike returns. `OnSpikeInv`
says what holds on the way: those who have always watched are among the mint's users
now, who are among those who ever did (`WatchersBracketed`); a client of one who always
watched has its message unless it is still due, that is, its user is left in the loop, its id
is left in the copy, or it is the target (`ToldInv`), and these exclude one another; the
same for texts. The answer of the first read ties the listener branch to the watchers: it
agrees with the user set only because `RegistryConsistent` is invariant too.

*NoWakeUpIsLost* and *HelperIsThere.* `LoopInv` adds to the two invariants what holds
between the writer's test and its Wait: the helper is there unless the session was
cancelled or the time-out ran out since the test. Together they say what is right about
the condition variable: a message always wakes the writer, a time-out that comes while
it waits has a helper to do it, and only a Broadcast between test and Wait can be lost
(`ClosedPeerIsRemoved`).

*ListsImplementFifo.* The refinement mapping reads the waiting messages of the FIFO off
the lists: a message, its list as its rank, its number of arrival (`Entries`). `InOrder` is
what the mapping needs: along each list arrivals increase, and none is later than the
count, so that a list's head is the earliest of its rank and a new message the latest.
Two lemmas say what a list that is appended to or shortened does to both,
`FirstList` that the list popNext chooses is the first that is not empty.
`FullWhenBufferIs` says that the FIFO's rank of retries is full exactly when the retry
buffer is: each position of the buffer has an entry of its own. Then each
action is a step of the FIFO (accept, displace, take, finish) or leaves its
variables alone.

*ConsumerOutlivesSources.* `RpcLives` says that until the program is cancelled the RPC
client, which is always configured, is in its loop with both channels open, and that
RunDual counts it as open; so `open` is never empty and neither test for the end of the
loop succeeds. *ConsumerTypeCorrect* includes that the rotation stays inside the list of
a tier's endpoints.

*NamesStayShown.* The property compares events that were shown. `Covered` adds that the
identity cache has all that was shown of a mint, and that the event in hand has all that
the cache has: it was completed from the cache when it was taken, and only the feed
writes the cache.

*ListIsNewest.* The property counts positions in the history of what was shown: the
n-th item of a list is the event from which on n were shown on its stream, whatever limit
is asked for; one that is not positive stands for none. Said so, and
not by selecting from a sequence, it needs no recursion. `KeepsNewest` is the same of
the RecentBuffer itself; an event that is added makes every earlier one of its stream
one further back (`PositionsAppended`, by cardinalities) and moves it one place on in
the buffer (`AddedFirst`), and touches nothing of the other stream.

Only model-checked: the liveness properties (`SubscriptionsConverge`,
`NobodySleepsOnMessages`, `HeartbeatsGoOn`, `VanishedPeerIsRemoved`, `StreamComesBack`, `EverythingEnds`, `EveryEventShown`, `FeedAndClientEnd`), which are
outside what the prover does. The violated properties are not theorems, of course.

## 6. Not modelled

Left out for good, with the reason in `PROJECT.json`: authentication, configuration,
the notifier and Jito (stateless or pure I/O), the unused listener service, decoding
of payloads, floating-point scores, market data and labels, and presentation in the
dashboard. Not modelled of components that are: the trade subscriptions PumpDev's
client makes per new token, which nobody renews after a reconnect; the capture file
of the first migration; how long delays are; the schema of the store and its
listings of history.
