-------------------------- MODULE MCTradeExecution --------------------------
(* Small instances of the two parts that handle an order: the engine that   *)
(* keeps the trades, and the router that places orders at a broker.  They   *)
(* share no state; in a behaviour the one in focus takes the steps, so that *)
(* a run checks each for itself.                                            *)
EXTENDS TradeExecution, BrokerRouter, TLC

VARIABLE focus

orderVars == <<focus, vars, routerVars>>

OrderInit == focus \in {"engine", "router"} /\ Init /\ RouterInit

OrderNext ==
  /\ UNCHANGED focus
  /\ IF focus = "engine" THEN Next ELSE UNCHANGED vars
  /\ IF focus = "router" THEN RouterNext ELSE UNCHANGED routerVars

(* Out of focus nothing is enabled that the fairness is about: no trade is  *)
(* under way, and no call has asked a broker.                               *)
OrderSpec == OrderInit /\ [][OrderNext]_orderVars /\ Fairness /\ RouterFairness
=============================================================================
