---------------------------- MODULE MCOrderBook ----------------------------
(* The instance of OrderBook and of its views for TLC. *)
EXTENDS OrderBookDisplay

OneBid == {<<"bids", 3>>}
=============================================================================
