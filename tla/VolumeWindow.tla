---------------------------- MODULE VolumeWindow ----------------------------
(***************************************************************************)
(* The arithmetic of internal/volume/tracker.go on the trades of one mint: *)
(* what prune drops and when Evaluate detects a spike.  A trade is a       *)
(* record [at, wallet, volume]; volumes are integers, and the code's       *)
(* comparison of two quotients of sums is multiplied out.  The floor and   *)
(* entry scores take no part in detection and are left out.                *)
(***************************************************************************)
EXTENDS Integers, Sequences, FiniteSetsExt

CONSTANTS Hour,       \* how long trades are kept: 60 minutes
          Window,     \* the window of a spike: 5 minutes
          Buckets,    \* windows in the baseline: 11
          RatioMin,   \* spikeRatioMin
          WalletMin   \* walletMin

ASSUME VolumeWindowAssumption ==
  /\ Hour \in Nat /\ Window \in Nat /\ Window <= Hour
  /\ Buckets \in Nat \ {0} /\ RatioMin \in Nat \ {0}
  /\ WalletMin \in Nat \ {0}

(* A faulty prune that loses the trades exactly one hour old. *)
RecentStrictly(trade, now) == trade.at > now - Hour

Recent(trade, now) == trade.at >= now - Hour

(***************************************************************************)
(* What sort.Search may return: a position of the list just before it the  *)
(* predicate is false, and at it true.  On trades in order of time there   *)
(* is one such position; on others there may be several, and the bisection *)
(* ends at one of them.                                                    *)
(***************************************************************************)
SearchResults(events, now) ==
  {i \in 0 .. Len(events) :
     /\ i > 0 => ~Recent(events[i], now)
     /\ i < Len(events) => Recent(events[i + 1], now)}

(* prune: position 0 keeps everything, the position past the end nothing. *)
Prunings(events, now) ==
  {SubSeq(events, i + 1, Len(events)) : i \in SearchResults(events, now)}

Between(events, from, to) ==
  {i \in DOMAIN events : events[i].volume > 0 /\ from <= events[i].at
                                              /\ events[i].at < to}

(* Nothing bounds the window from above: it reaches to the newest trade.   *)
InWindow(events, now) ==
  {i \in DOMAIN events : events[i].volume > 0 /\ events[i].at >= now - Window}

VolumeOf(events, positions) ==
  MapThenSumSet(LAMBDA i : events[i].volume, positions)

(***************************************************************************)
(* Evaluate's verdict: the volume of the window against the average of the *)
(* preceding windows, and enough wallets.  An empty baseline counts as     *)
(* next to nothing, so any volume exceeds it.                              *)
(***************************************************************************)
Detected(events, now) ==
  LET window == InWindow(events, now)
      baseline == Between(events, now - Hour, now - Window)
  IN /\ VolumeOf(events, window) * Buckets
          > VolumeOf(events, baseline) * RatioMin
     /\ Cardinality({events[i].wallet : i \in window}) >= WalletMin

=============================================================================
