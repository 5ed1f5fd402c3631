--------------------------- MODULE MCTradeTracker ---------------------------
(* A small instance of TradeTracker for TLC. *)
EXTENDS TradeTracker
=============================================================================
