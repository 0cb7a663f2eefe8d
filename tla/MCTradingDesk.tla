---------------------------- MODULE MCTradingDesk ----------------------------
EXTENDS TradingDesk, TLC

(* Names of position objects are interchangeable. *)
Sym == Permutations(Ids)
=============================================================================
