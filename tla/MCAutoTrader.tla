---------------------------- MODULE MCAutoTrader ----------------------------
(* Small instance of AutoTrader.                                           *)
EXTENDS AutoTrader, TLC

Symmetry == Permutations(Trades) \cup Permutations(Pairs) \cup Permutations(Flushes)
=============================================================================
