-------------------------- MODULE MCSpikeProcessor --------------------------
(* A small instance of SpikeProcessor for TLC.  One unit of time is about   *)
(* ten minutes for the hour of six, and the throttle's interval is two.     *)
EXTENDS SpikeProcessor, TLC

CONSTANTS m1, g1, g2, sigA, sigB, none

Both == Permutations(Goroutines)

From(sig, kind, wallet, at) ==
  [mint |-> m1, sig |-> sig, kind |-> kind, wallet |-> wallet, volume |-> 1,
   at |-> at]

\* One signature is a token's creation, another comes as a buy and as a sell;
\* the rest have none.  Time 1 comes after 2 or 7; at 7 the trades of 0 and 1
\* are an hour old or more, and that of 2 is younger.
Deliveries ==
  {From(sigA, "create", "w1", 0),
   From(sigB, "buy", "w2", 1), From(sigB, "sell", "w2", 1),
   From(none, "buy", "w1", 2), From(none, "buy", "w1", 7)}

=============================================================================
