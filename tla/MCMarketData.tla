---------------------------- MODULE MCMarketData ----------------------------
(* MarketData for TLC: one report may be too expensive, every kind of answer. *)
EXTENDS MarketData

Answers == {[kind |-> "body", size |-> n] : n \in {0, 2}} \cup
           [kind : {"breaks", "down"}, size : {0}]
=============================================================================
