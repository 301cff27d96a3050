--------------------------- MODULE TradeLifecycle ---------------------------
(***************************************************************************)
(* What the trading engine promises about one trade, whatever callers do:  *)
(* a trade id is used at most once, it is live for one uninterrupted       *)
(* period, and that period ends for good, either as a closed trade of the  *)
(* history or as an order that the broker never confirmed.  A trade that   *)
(* has been closed or dropped never becomes live again.                    *)
(***************************************************************************)

CONSTANT Trades             \* ids returned by generateTradeId

VARIABLE stage              \* where each id is in its life

Stages == {"new", "refused", "live", "dropped", "closed"}

Init == stage = [t \in Trades |-> "new"]

(* A fresh id enters the engine or is refused by the per-symbol cap.       *)
Admit(t)  == stage[t] = "new"  /\ stage' = [stage EXCEPT ![t] = "live"]
Refuse(t) == stage[t] = "new"  /\ stage' = [stage EXCEPT ![t] = "refused"]

(* The broker order failed, or somebody closed the trade.                  *)
Drop(t)   == stage[t] = "live" /\ stage' = [stage EXCEPT ![t] = "dropped"]
Close(t)  == stage[t] = "live" /\ stage' = [stage EXCEPT ![t] = "closed"]

Next == \E t \in Trades : Admit(t) \/ Refuse(t) \/ Drop(t) \/ Close(t)

Spec == Init /\ [][Next]_stage

TypeOK == stage \in [Trades -> Stages]
=============================================================================
