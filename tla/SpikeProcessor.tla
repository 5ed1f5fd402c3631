--------------------------- MODULE SpikeProcessor ---------------------------
(***************************************************************************)
(* ProcessEvent of internal/volume/processor.go, run by two goroutines at  *)
(* once: RunDual's, fed by PumpDev and the RPC logs, and the one in        *)
(* main.go that reads the trade tracker's updates.  The signature cache    *)
(* and the volume tracker each have a mutex, so their methods are one      *)
(* step; the throttle map lastSpikeAt has none, and shouldEmitSpike is a   *)
(* read and a later write.                                                 *)
(*                                                                         *)
(* Go may also end the process when it notices that two goroutines touch   *)
(* that map at once: an outcome Restart covers, as it may happen anywhere. *)
(* A restart begins with empty maps; the table spike_events stays.         *)
(*                                                                         *)
(* Trade times are small integers given by the sources, in any order.  The *)
(* cache of signatures goes by arrival time: an entry is recent until      *)
(* SignatureExpires lets the dedupe window pass.                           *)
(***************************************************************************)
EXTENDS VolumeWindow, Tokens

CONSTANTS Goroutines,
          Signatures,
          NoSignature,  \* the empty signature, which is not deduplicated
          Wallets,
          NoWallet,     \* the empty wallet, which a create is stored with
          Inputs,       \* the events the sources deliver
          MinEmit,      \* MinSpikeEmitInterval
          CacheMax,     \* size above which the signature cache is cleaned
          MaxEvents,    \* bound: events delivered
          MaxRestarts   \* bound: restarts

ASSUME SpikeAssumption ==
  /\ NoSignature \notin Signatures
  /\ MinEmit \in Nat \ {0}
  /\ Inputs \subseteq
       [mint : Mints, sig : Signatures \cup {NoSignature},
        kind : {"create", "buy", "sell"}, wallet : Wallets, volume : Nat \ {0},
        at : Nat]
  /\ Inputs # {}
  /\ CacheMax \in Nat /\ MaxEvents \in Nat /\ MaxRestarts \in Nat

VARIABLES seen,         \* txSigCache: "never", "recent" or "expired"
          events,       \* the volume tracker's trades of each mint
          lastSpikeAt,  \* the throttle map, Never for no entry
          spikeRows,    \* the ids in the table spike_events
          step,         \* where each goroutine is in ProcessEvent
          event,        \* the event each goroutine has in hand
          detected,     \* the verdict of its Evaluate
          delivered,    \* events delivered so far
          run           \* restarts so far

VARIABLES added,        \* trades added, each with its number (history)
          newest,       \* the latest trade time of each mint (history)
          disorder,     \* how late a trade has come, at most (history)
          letIn,        \* events let in per recent signature (history)
          raced,        \* <<run, mint>> whose throttle was raced (history)
          alerts        \* the calls of onSpike, in order (history)

memoryVars == <<seen, events, lastSpikeAt>>
jobVars == <<step, event, detected>>
tradeHistory == <<added, newest, disorder>>
historyVars == <<tradeHistory, letIn, raced, alerts>>
vars == <<memoryVars, spikeRows, jobVars, delivered, run, historyVars>>

Never == -1

AnyEvent == CHOOSE e \in Inputs : TRUE

Trade == [at : Nat, wallet : Wallets \cup {NoWallet}, volume : Nat, no : Nat]

Steps == {"idle", "add", "evaluate", "snapshot", "throttle", "mark", "insert",
          "alert"}

TypeOK ==
  /\ seen \in [Signatures -> {"never", "recent", "expired"}]
  /\ events \in [Mints -> Seq(Trade)]
  /\ lastSpikeAt \in [Mints -> Nat \cup {Never}]
  /\ spikeRows \in SUBSET (Mints \X Nat)
  /\ step \in [Goroutines -> Steps]
  /\ event \in [Goroutines -> Inputs]
  /\ detected \in [Goroutines -> BOOLEAN]
  /\ delivered \in 0 .. MaxEvents
  /\ run \in 0 .. MaxRestarts
  /\ added \in [Mints -> SUBSET Trade]
  /\ newest \in [Mints -> Nat]
  /\ disorder \in [Mints -> Nat]
  /\ letIn \in [Signatures -> Nat]
  /\ raced \in SUBSET (Nat \X Mints)
  /\ alerts \in Seq([mint : Mints, at : Nat, run : Nat])

Everywhere(S, value) == [x \in S |-> value]

Init ==
  /\ seen = Everywhere(Signatures, "never")
  /\ events = Everywhere(Mints, <<>>)
  /\ lastSpikeAt = Everywhere(Mints, Never)
  /\ spikeRows = {}
  /\ step = Everywhere(Goroutines, "idle")
  /\ event = Everywhere(Goroutines, AnyEvent)
  /\ detected = Everywhere(Goroutines, FALSE)
  /\ delivered = 0
  /\ run = 0
  /\ added = Everywhere(Mints, {})
  /\ newest = Everywhere(Mints, 0)
  /\ disorder = Everywhere(Mints, 0)
  /\ letIn = Everywhere(Signatures, 0)
  /\ raced = {}
  /\ alerts = <<>>

-----------------------------------------------------------------------------
(* The steps of ProcessEvent.                                              *)

Goes(g, s) == step' = [step EXCEPT ![g] = s]

(* ProcessEvent returns: the event in hand is forgotten. *)
Returns(g) ==
  /\ Goes(g, "idle")
  /\ event' = [event EXCEPT ![g] = AnyEvent]
  /\ detected' = [detected EXCEPT ![g] = FALSE]

Cached(cache) == {s \in Signatures : cache[s] # "never"}

(* A faulty clean-up that empties the whole cache. *)
CleanedOfAll(cache) ==
  IF Cardinality(Cached(cache)) <= CacheMax THEN cache
  ELSE [s \in Signatures |-> "never"]

(* The lazy clean-up of a large cache drops the expired entries. *)
Cleaned(cache) ==
  IF Cardinality(Cached(cache)) <= CacheMax THEN cache
  ELSE [s \in Signatures |->
          IF cache[s] = "expired" THEN "never" ELSE cache[s]]

(* checkAndMarkSigSeen lets the event in. *)
LetIn(sig) ==
  \/ /\ sig = NoSignature
     /\ UNCHANGED <<seen, letIn>>
  \/ /\ sig \in Signatures /\ seen[sig] # "recent"
     /\ seen' = Cleaned([seen EXCEPT ![sig] = "recent"])
     /\ letIn' = [letIn EXCEPT ![sig] = @ + 1]

Delivers(g, e) ==
  /\ step[g] = "idle"
  /\ delivered < MaxEvents
  /\ delivered' = delivered + 1
  /\ UNCHANGED <<events, lastSpikeAt, spikeRows, detected, run, tradeHistory,
                 raced, alerts>>

SkipsSeen(g, e) ==
  /\ Delivers(g, e)
  /\ e.sig \in Signatures /\ seen[e.sig] = "recent"
  /\ UNCHANGED <<seen, letIn, step, event>>

(* Only creates and buys reach the tracker; a sell leaves its signature.   *)
TakesIn(g, e) ==
  /\ Delivers(g, e)
  /\ LetIn(e.sig)
  /\ \/ /\ e.kind = "sell"
        /\ UNCHANGED <<step, event>>
     \/ /\ e.kind # "sell"
        /\ Goes(g, "add")
        /\ event' = [event EXCEPT ![g] = e]

TradeOf(e) ==
  [at |-> e.at, no |-> delivered,
   wallet |-> IF e.kind = "create" THEN NoWallet ELSE e.wallet,
   volume |-> IF e.kind = "create" THEN 0 ELSE e.volume]

Later(x, y) == IF x > y THEN x ELSE y

(* The history of a trade: the newest time before it, and how late it is. *)
RecordTrade(m, trade) ==
  /\ added' = [added EXCEPT ![m] = @ \cup {trade}]
  /\ newest' = [newest EXCEPT ![m] = Later(@, trade.at)]
  /\ disorder' = [disorder EXCEPT ![m] = Later(@, newest[m] - trade.at)]

(* Tracker.AddEvent: append and prune. *)
AddEvent(g) ==
  LET e == event[g]  trade == TradeOf(e)
  IN /\ step[g] = "add"
     /\ \E kept \in Prunings(Append(events[e.mint], trade), e.at) :
          events' = [events EXCEPT ![e.mint] = kept]
     /\ RecordTrade(e.mint, trade)
     /\ \/ /\ e.kind = "create"
           /\ Returns(g)
        \/ /\ e.kind = "buy"
           /\ Goes(g, "evaluate")
           /\ UNCHANGED <<event, detected>>
     /\ UNCHANGED <<seen, lastSpikeAt, spikeRows, delivered, run, letIn,
                    raced, alerts>>

(* Tracker.Evaluate: prune and compare. *)
Evaluate(g) ==
  LET e == event[g]
  IN /\ step[g] = "evaluate"
     /\ \E kept \in Prunings(events[e.mint], e.at) :
          /\ events' = [events EXCEPT ![e.mint] = kept]
          /\ detected' = [detected EXCEPT ![g] = Detected(kept, e.at)]
     /\ Goes(g, "snapshot")
     /\ UNCHANGED <<seen, lastSpikeAt, spikeRows, event, delivered, run,
                    historyVars>>

(* Later steps leave signatures and trades alone. *)
Continues ==
  UNCHANGED <<seen, events, delivered, run, tradeHistory, letIn>>

(* InsertVolumeSnapshot: rows nobody reads; a failure ends ProcessEvent.   *)
StoreSnapshot(g) ==
  /\ step[g] = "snapshot"
  /\ \/ detected[g] /\ Goes(g, "throttle") /\ UNCHANGED <<event, detected>>
     \/ Returns(g)
  /\ Continues
  /\ UNCHANGED <<lastSpikeAt, spikeRows, raced, alerts>>

(* A faulty throttle that is for later spikes only. *)
ThrottledForward(m, at) ==
  lastSpikeAt[m] # Never /\ at - lastSpikeAt[m] \in 0 .. MinEmit - 1

(* A spike too soon after the last, or before it, is suppressed. *)
Throttled(m, at) == lastSpikeAt[m] # Never /\ at - lastSpikeAt[m] < MinEmit

Suppressed(g) ==
  /\ step[g] = "throttle"
  /\ Throttled(event[g].mint, event[g].at)
  /\ Returns(g)
  /\ Continues
  /\ UNCHANGED <<lastSpikeAt, spikeRows, raced, alerts>>

(* Another goroutine has read the throttle of m and not yet written it. *)
AboutToMark(m) == \E h \in Goroutines : step[h] = "mark" /\ event[h].mint = m

PassesThrottle(g) ==
  /\ step[g] = "throttle"
  /\ ~Throttled(event[g].mint, event[g].at)
  /\ Goes(g, "mark")
  /\ raced' = IF AboutToMark(event[g].mint)
              THEN raced \cup {<<run, event[g].mint>>} ELSE raced
  /\ Continues
  /\ UNCHANGED <<lastSpikeAt, spikeRows, event, detected, alerts>>

MarksThrottle(g) ==
  /\ step[g] = "mark"
  /\ lastSpikeAt' = [lastSpikeAt EXCEPT ![event[g].mint] = event[g].at]
  /\ Goes(g, "insert")
  /\ Continues
  /\ UNCHANGED <<spikeRows, event, detected, raced, alerts>>

(* A faulty id, the same for every spike of a mint. *)
MintOnly(e) == <<e.mint>>

SpikeID(e) == <<e.mint, e.at>>

(* A faulty step that alerts whether or not the insert succeeded. *)
InsertErrorIgnored(g) ==
  /\ step[g] = "insert"
  /\ spikeRows' = spikeRows \cup {SpikeID(event[g])}
  /\ Goes(g, "alert")
  /\ UNCHANGED <<event, detected>>
  /\ Continues
  /\ UNCHANGED <<lastSpikeAt, raced, alerts>>

(* InsertSpikeEvent: the id is the primary key, so a second row of one     *)
(* mint and time fails; any insert may.                                    *)
InsertSpike(g) ==
  /\ step[g] = "insert"
  /\ \/ /\ SpikeID(event[g]) \notin spikeRows
        /\ spikeRows' = spikeRows \cup {SpikeID(event[g])}
        /\ Goes(g, "alert")
        /\ UNCHANGED <<event, detected>>
     \/ /\ Returns(g)
        /\ UNCHANGED spikeRows
  /\ Continues
  /\ UNCHANGED <<lastSpikeAt, raced, alerts>>

Alerts(g) ==
  /\ step[g] = "alert"
  /\ alerts' = Append(alerts, [mint |-> event[g].mint, at |-> event[g].at,
                               run |-> run])
  /\ Returns(g)
  /\ Continues
  /\ UNCHANGED <<lastSpikeAt, spikeRows, raced>>

-----------------------------------------------------------------------------
(* Time and the process.                                                   *)

SignatureExpires(s) ==
  /\ seen[s] = "recent"
  /\ seen' = [seen EXCEPT ![s] = "expired"]
  /\ letIn' = [letIn EXCEPT ![s] = 0]
  /\ UNCHANGED <<events, lastSpikeAt, spikeRows, jobVars, delivered, run,
                 tradeHistory, raced, alerts>>

Restart ==
  /\ run < MaxRestarts
  /\ run' = run + 1
  /\ seen' = Everywhere(Signatures, "never")
  /\ events' = Everywhere(Mints, <<>>)
  /\ lastSpikeAt' = Everywhere(Mints, Never)
  /\ step' = Everywhere(Goroutines, "idle")
  /\ event' = Everywhere(Goroutines, AnyEvent)
  /\ detected' = Everywhere(Goroutines, FALSE)
  /\ added' = Everywhere(Mints, {})
  /\ newest' = Everywhere(Mints, 0)
  /\ disorder' = Everywhere(Mints, 0)
  /\ letIn' = Everywhere(Signatures, 0)
  /\ UNCHANGED <<spikeRows, delivered, raced, alerts>>

ProcessStep(g) ==
  \/ \E e \in Inputs : SkipsSeen(g, e) \/ TakesIn(g, e)
  \/ AddEvent(g) \/ Evaluate(g) \/ StoreSnapshot(g)
  \/ Suppressed(g) \/ PassesThrottle(g) \/ MarksThrottle(g)
  \/ InsertSpike(g) \/ Alerts(g)

Next ==
  \/ \E g \in Goroutines : ProcessStep(g)
  \/ \E s \in Signatures : SignatureExpires(s)
  \/ Restart

Spec == Init /\ [][Next]_vars

-----------------------------------------------------------------------------
(* Properties.                                                             *)

Kept(m) == {events[m][i] : i \in DOMAIN events[m]}

(***************************************************************************)
(* prune searches by bisection a list that is not sorted, since two        *)
(* sources deliver late trades (tracker.go:180).  What it drops can be     *)
(* younger than an hour, but by no more than the latest delivery so far:   *)
(* an hour less the disorder is always there.  So a five-minute window is  *)
(* whole as long as no trade comes more than 55 minutes late.              *)
(***************************************************************************)
RecentTradesKept ==
  \A m \in Mints : \A trade \in added[m] :
    trade.at >= newest[m] - Hour + disorder[m] => trade \in Kept(m)

(***************************************************************************)
(* The volume of one transaction counts once, whichever sources deliver    *)
(* it, through both goroutines and the clean-up of the cache, while its    *)
(* signature is recent (processor.go:238).                                 *)
(***************************************************************************)
CountedOnce == \A s \in Signatures : letIn[s] <= 1

Apart(x, y) == x - y >= MinEmit \/ y - x >= MinEmit

(***************************************************************************)
(* Within one run of the process, two alerts of a mint are at least the    *)
(* throttle's interval apart in trade time, in whatever order their trades *)
(* come and whatever inserts fail, unless two goroutines have passed the   *)
(* throttle of the mint together (processor.go:225).                       *)
(***************************************************************************)
AlertsSpacedUnlessRaced ==
  \A i, j \in DOMAIN alerts :
    \/ i = j
    \/ alerts[i].mint # alerts[j].mint
    \/ alerts[i].run # alerts[j].run
    \/ <<alerts[i].run, alerts[i].mint>> \in raced
    \/ Apart(alerts[i].at, alerts[j].at)

(***************************************************************************)
(* Every alert has its own stored row, which the dashboard's history shows *)
(* later: the primary key makes up for the race on the throttle, and for a *)
(* restart that forgets it (processor.go:210).                             *)
(***************************************************************************)
AlertsHaveTheirOwnRow ==
  \A i, j \in DOMAIN alerts :
    /\ SpikeID(alerts[i]) \in spikeRows
    /\ SpikeID(alerts[i]) = SpikeID(alerts[j]) => i = j

(***************************************************************************)
(* Memory.md:138: "Apply per-mint spike emission throttle                  *)
(* (`MinSpikeEmitInterval`) to reduce noisy duplicate alerts."  Two        *)
(* goroutines that read the throttle together both alert.                  *)
(***************************************************************************)
AlertsAlwaysSpaced ==
  \A i, j \in DOMAIN alerts :
    \/ i = j
    \/ alerts[i].mint # alerts[j].mint
    \/ alerts[i].run # alerts[j].run
    \/ Apart(alerts[i].at, alerts[j].at)

=============================================================================
