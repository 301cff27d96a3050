--------------------------- MODULE TradeExecution ---------------------------
(***************************************************************************)
(* The execution engine of the trading engine: executeTrade, closeTrade    *)
(* and the two accounts they keep, the map of active trades and the daily  *)
(* risk.  JavaScript runs one callback at a time, so an action is the code *)
(* between two awaits that really wait (an order or a close request sent   *)
(* to the broker).  Between them any other caller may run: the monitoring  *)
(* interval, a smart exit, an HTTP close, another execution.               *)
(*                                                                         *)
(* The broker is external.  It may execute an order whose reply is lost,   *)
(* close a position by itself at its stop or target, and refuse a close.   *)
(* A connector reports success for a request the broker took (the Oanda    *)
(* and IBKR connectors look no further): an order so confirmed may fill    *)
(* later or never, and a close so acknowledged may leave the position open.*)
(***************************************************************************)
EXTENDS Integers, FiniteSets, Sequences, FiniteSetsExt

CONSTANTS Trades,           \* ids generateTradeId may return
          Pairs,            \* instruments
          RiskFractions,    \* values of trade.riskFraction, in units of risk
          MaxRiskPerSymbol, \* config.maxRiskPerSymbol, in the same units
          Closers,          \* calls of closeTrade that may wait at once
          MaxDays,          \* calendar days a behaviour spans
          None              \* a closer that waits for nothing

ASSUME RiskAssumption == /\ RiskFractions \subseteq Nat \ {0}
                         /\ MaxRiskPerSymbol \in Nat
ASSUME NoneAssumption == None \notin Trades
ASSUME DaysAssumption == MaxDays \in Nat

VARIABLES
  call,           \* progress of executeTrade for each id
  pair, risk,     \* trade.pair, trade.riskFraction
  status,         \* trade.status
  closeError,     \* trades whose brokerCloseError is set
  closeAck,       \* trades whose brokerCloseAcknowledged is set
  activeTrades,   \* keys of this.activeTrades
  tradingHistory, \* this.tradingHistory
  dailyRisk,      \* this.dailyRisk
  lastResetDate,  \* this.lastResetDate
  closing,        \* the trade each pending closeTrade call waits for
  position,       \* the broker's side of each trade (external)
  today           \* the calendar (external)

(* History variables: they are never read by a guard.                      *)
VARIABLES
  booked,         \* trades whose risk was added since the last daily reset
  refundedLate,   \* trades refunded since that reset but booked before it
  early,          \* trades closed while their order was still pending
  raced           \* trades two closeTrade calls waited for at once

tradeVars  == <<call, pair, risk, status, closeError, closeAck>>
riskVars   == <<dailyRisk, lastResetDate, booked, refundedLate>>
closeVars  == <<closing, early, raced>>
vars == <<tradeVars, activeTrades, tradingHistory, riskVars, closeVars, position, today>>

Calls     == {"unused", "refused", "placing", "placed", "failed"}
Statuses  == {"none", "open", "filled", "closed"}
Positions == {"none", "sent", "open", "closed"}
Recorded  == {tradingHistory[i] : i \in DOMAIN tradingHistory}

RiskOf(S) == MapThenSumSet(LAMBDA t : risk[t], S)
SymbolRisk(p) == RiskOf({t \in activeTrades : pair[t] = p})

-----------------------------------------------------------------------------
Init ==
  /\ call = [t \in Trades |-> "unused"]
  /\ pair \in [Trades -> Pairs] /\ risk \in [Trades -> RiskFractions]
  /\ status = [t \in Trades |-> "none"]
  /\ closeError = {} /\ closeAck = {}
  /\ activeTrades = {} /\ tradingHistory = <<>>
  /\ dailyRisk = 0 /\ lastResetDate = 0 /\ today = 0
  /\ closing = [c \in Closers |-> None]
  /\ position = [t \in Trades |-> "none"]
  /\ booked = {} /\ refundedLate = {} /\ early = {} /\ raced = {}

(* Mutant: the cap is computed before the new trade enters the map.        *)
AdmissibleBeforeSet(t) == SymbolRisk(pair[t]) <= MaxRiskPerSymbol

(* executeTrade up to its await: the trade enters the map first, the       *)
(* per-symbol cap is then computed over the map, and an accepted trade     *)
(* books its risk before the order leaves.                                 *)
Admissible(t) == SymbolRisk(pair[t]) + risk[t] <= MaxRiskPerSymbol

ExecuteTrade(t) ==
  /\ call[t] = "unused"
  /\ Admissible(t)
  /\ call' = [call EXCEPT ![t] = "placing"]
  /\ status' = [status EXCEPT ![t] = "open"]
  /\ activeTrades' = activeTrades \cup {t}
  /\ dailyRisk' = dailyRisk + risk[t]
  /\ booked' = booked \cup {t}
  /\ UNCHANGED <<pair, risk, closeError, closeAck, tradingHistory, lastResetDate,
                 refundedLate, closeVars, position, today>>

RefuseTrade(t) ==
  /\ call[t] = "unused"
  /\ ~Admissible(t)
  /\ call' = [call EXCEPT ![t] = "refused"]
  /\ UNCHANGED <<pair, risk, status, closeError, closeAck, activeTrades, tradingHistory,
                 riskVars, closeVars, position, today>>

(* Mutant: the trade is put in the map after the await instead.            *)
CommitSucceedsSetsTrade(t) ==
  /\ call[t] = "placing"
  /\ position[t] # "none"
  /\ call' = [call EXCEPT ![t] = "placed"]
  /\ activeTrades' = activeTrades \cup {t}
  /\ UNCHANGED <<pair, risk, status, closeError, closeAck, tradingHistory,
                 riskVars, closeVars, position, today>>

(* executeTrade after its await, the broker has taken the order: trade.    *)
(* broker is set, on the object, even if the trade has left the map since. *)
CommitSucceeds(t) ==
  /\ call[t] = "placing"
  /\ position[t] # "none"
  /\ call' = [call EXCEPT ![t] = "placed"]
  /\ UNCHANGED <<pair, risk, status, closeError, closeAck, activeTrades, tradingHistory,
                 riskVars, closeVars, position, today>>

(* Mutant: the failed order keeps its share of the daily risk.             *)
NoRefund(t) == UNCHANGED dailyRisk

(* The risk an order booked is given back.                                 *)
Refund(t) == dailyRisk' = dailyRisk - risk[t]

(* Mutant: an error raised before the order is sent is never caught.       *)
CommitFailsOnlyIfSent(t) ==
  /\ call[t] = "placing"
  /\ position[t] # "none"
  /\ call' = [call EXCEPT ![t] = "failed"]
  /\ activeTrades' = activeTrades \ {t}
  /\ Refund(t)
  /\ booked' = booked \ {t}
  /\ refundedLate' = IF t \in booked THEN refundedLate ELSE refundedLate \cup {t}
  /\ UNCHANGED <<pair, risk, status, closeError, closeAck, tradingHistory, lastResetDate,
                 closeVars, position, today>>

(* executeTrade after its await, no confirmation: the trade leaves the map *)
(* and its risk is given back, whichever day it was booked on.             *)
CommitFails(t) ==
  /\ call[t] = "placing"
  /\ call' = [call EXCEPT ![t] = "failed"]
  /\ activeTrades' = activeTrades \ {t}
  /\ Refund(t)
  /\ booked' = booked \ {t}
  /\ refundedLate' = IF t \in booked THEN refundedLate ELSE refundedLate \cup {t}
  /\ UNCHANGED <<pair, risk, status, closeError, closeAck, tradingHistory, lastResetDate,
                 closeVars, position, today>>

(* checkDailyReset, run whenever a signal is sized.                        *)
CheckDailyReset ==
  /\ today # lastResetDate
  /\ dailyRisk' = 0
  /\ lastResetDate' = today
  /\ booked' = {} /\ refundedLate' = {}
  /\ UNCHANGED <<tradeVars, activeTrades, tradingHistory, closeVars, position, today>>

(* Mutant: the trade is recorded but stays in the map.                     *)
RecordKeepsActive(t) ==
  /\ status' = [status EXCEPT ![t] = "closed"]
  /\ tradingHistory' = Append(tradingHistory, t)
  /\ activeTrades' = activeTrades

(* Mutant: the trade leaves the map without being recorded.                *)
RecordForgets(t) ==
  /\ status' = [status EXCEPT ![t] = "closed"]
  /\ tradingHistory' = tradingHistory
  /\ activeTrades' = activeTrades \ {t}

-----------------------------------------------------------------------------
(* closeTrade after its await (or without one): the trade is closed        *)
(* locally whatever the broker answered, and nothing is checked again.     *)
Record(t) ==
  /\ status' = [status EXCEPT ![t] = "closed"]
  /\ tradingHistory' = Append(tradingHistory, t)
  /\ activeTrades' = activeTrades \ {t}

(* trade.broker is still null: closeBrokerPosition reports success without *)
(* contacting the broker, in the same turn.                                *)
CloseUnplaced(t) ==
  /\ t \in activeTrades
  /\ call[t] = "placing"
  /\ Record(t)
  /\ closeAck' = closeAck \cup {t}
  /\ early' = early \cup {t}
  /\ UNCHANGED <<call, pair, risk, closeError, riskVars, closing, raced, position, today>>

(* closeTrade up to its await: the close request leaves for the broker.    *)
CloseTrade(c, t) ==
  /\ closing[c] = None
  /\ t \in activeTrades
  /\ call[t] = "placed"
  /\ closing' = [closing EXCEPT ![c] = t]
  /\ raced' = IF \E d \in Closers : closing[d] = t THEN raced \cup {t} ELSE raced
  /\ UNCHANGED <<tradeVars, activeTrades, tradingHistory, riskVars, early, position, today>>

(* The broker took the close request, whatever becomes of the position.    *)
CloseAcknowledged(c) ==
  LET t == closing[c] IN
  /\ t # None
  /\ Record(t)
  /\ closeAck' = closeAck \cup {t}
  /\ closing' = [closing EXCEPT ![c] = None]
  /\ UNCHANGED <<call, pair, risk, closeError, riskVars, early, raced, position, today>>

(* Mutant: the refusal is dropped.                                         *)
DropRefusal(t) == UNCHANGED <<closeError, closeAck>>

(* trade.brokerCloseError keeps the broker's refusal.                      *)
NoteRefusal(t) == closeError' = closeError \cup {t} /\ UNCHANGED closeAck

(* Mutant: closeTrade without its early return when the trade is not found.*)
CloseRefusedUnguarded(c) ==
  LET t == closing[c] IN
  /\ Record(t)
  /\ NoteRefusal(t)
  /\ closing' = [closing EXCEPT ![c] = None]
  /\ UNCHANGED <<call, pair, risk, riskVars, early, raced, position, today>>

(* Mutant: closeTrade returns early when the broker refuses.               *)
CloseRefusedKeepsTrade(c) ==
  LET t == closing[c] IN
  /\ t # None
  /\ NoteRefusal(t)
  /\ closing' = [closing EXCEPT ![c] = None]
  /\ UNCHANGED <<call, pair, risk, status, activeTrades, tradingHistory, riskVars,
                 early, raced, position, today>>

CloseRefused(c) ==
  LET t == closing[c] IN
  /\ t # None
  /\ Record(t)
  /\ NoteRefusal(t)
  /\ closing' = [closing EXCEPT ![c] = None]
  /\ UNCHANGED <<call, pair, risk, riskVars, early, raced, position, today>>

(* The reconciliation service matches a fill with an active trade.         *)
IngestFill(t) ==
  /\ t \in activeTrades
  /\ position[t] \in {"open", "closed"}
  /\ status' = [status EXCEPT ![t] = "filled"]
  /\ UNCHANGED <<call, pair, risk, closeError, closeAck, activeTrades, tradingHistory,
                 riskVars, closeVars, position, today>>

-----------------------------------------------------------------------------
(* The broker and the calendar.                                            *)
engineVars == <<tradeVars, activeTrades, tradingHistory, riskVars, closeVars>>

OrderSent(t) ==
  /\ call[t] = "placing" /\ position[t] = "none"
  /\ position' = [position EXCEPT ![t] = "sent"]
  /\ UNCHANGED <<engineVars, today>>

(* The order may be executed after executeTrade has given it up.           *)
OrderFilled(t) ==
  /\ position[t] = "sent"
  /\ position' = [position EXCEPT ![t] = "open"]
  /\ UNCHANGED <<engineVars, today>>

(* A stop, a target, the operator or a close request ends the position.    *)
PositionEnds(t) ==
  /\ position[t] = "open"
  /\ position' = [position EXCEPT ![t] = "closed"]
  /\ UNCHANGED <<engineVars, today>>

NewDay ==
  /\ today < MaxDays
  /\ today' = today + 1
  /\ UNCHANGED <<engineVars, position>>

Next ==
  \/ \E t \in Trades : \/ ExecuteTrade(t) \/ RefuseTrade(t)
                       \/ CommitSucceeds(t) \/ CommitFails(t)
                       \/ CloseUnplaced(t) \/ IngestFill(t)
                       \/ OrderSent(t) \/ OrderFilled(t) \/ PositionEnds(t)
  \/ \E c \in Closers : CloseAcknowledged(c) \/ CloseRefused(c)
  \/ \E c \in Closers, t \in Trades : CloseTrade(c, t)
  \/ CheckDailyReset \/ NewDay

Spec == Init /\ [][Next]_vars

(* Every broker request is answered or times out: both awaits end.         *)
Fairness ==
  /\ \A t \in Trades : WF_vars(CommitSucceeds(t) \/ CommitFails(t))
  /\ \A c \in Closers : WF_vars(CloseAcknowledged(c) \/ CloseRefused(c))

FairSpec == Spec /\ Fairness

-----------------------------------------------------------------------------
TypeOK ==
  /\ call \in [Trades -> Calls]
  /\ pair \in [Trades -> Pairs]
  /\ risk \in [Trades -> RiskFractions]
  /\ status \in [Trades -> Statuses]
  /\ closeError \subseteq Trades /\ closeAck \subseteq Trades
  /\ activeTrades \subseteq Trades
  /\ tradingHistory \in Seq(Trades)
  /\ dailyRisk \in Int
  /\ lastResetDate \in 0 .. MaxDays /\ today \in 0 .. MaxDays
  /\ closing \in [Closers -> Trades \cup {None}]
  /\ position \in [Trades -> Positions]
  /\ booked \subseteq Trades /\ refundedLate \subseteq Trades
  /\ early \subseteq Trades /\ raced \subseteq Trades

(* The risk of the active trades of one pair never exceeds                 *)
(* maxRiskPerSymbol, however many executions are waiting for the broker.   *)
SymbolRiskCap == \A p \in Pairs : SymbolRisk(p) <= MaxRiskPerSymbol

(* dailyRisk is exactly the risk booked since the last reset minus the     *)
(* refunds of orders that were booked before it and failed after it (the   *)
(* one way it drifts, below zero when such an order fails first).          *)
DailyRiskLedger == dailyRisk = RiskOf(booked) - RiskOf(refundedLate)

(* Every position the broker holds that the engine does not manage, that of*)
(* a lost answer and of a fill that came late included, has left one of two*)
(* traces: its execution was reported as failed, or its trade is in the    *)
(* history with what the broker was told of the close (a refusal, or an    *)
(* acknowledgement of a close it did not carry out or was never asked for).*)
(* The engine forgets no position without a trace.                         *)
OrphansExplained ==
  \A t \in Trades :
     (position[t] = "open" /\ t \notin activeTrades)
        => \/ call[t] = "failed"
           \/ t \in Recorded \cap (closeError \cup closeAck)

(* A trade enters the history (and its profit the equity curve) twice only *)
(* if two closeTrade calls waited for its broker close at the same time.   *)
RecordedOnceUnlessRaced ==
  \A i, j \in DOMAIN tradingHistory :
     (tradingHistory[i] = tradingHistory[j] /\ tradingHistory[i] \notin raced) => i = j

(* History only grows, and a trade in it never becomes active again: not   *)
(* through a late broker confirmation, not through reconciliation.         *)
ClosedForGood ==
  [][ /\ Recorded \subseteq Recorded'
      /\ Recorded \cap activeTrades' = {} ]_vars

(* A close that has begun ends with the trade in the history, even when    *)
(* the broker refuses it; an execution that has begun is settled.          *)
ClosesLand == \A c \in Closers, t \in Trades : closing[c] = t ~> t \in Recorded
OrdersSettle == \A t \in Trades : call[t] = "placing" ~> call[t] # "placing"

(* The engine implements the life of a trade.                              *)
Stage(t) ==
  IF      t \in Recorded       THEN "closed"
  ELSE IF t \in activeTrades   THEN "live"
  ELSE IF call[t] = "failed"   THEN "dropped"
  ELSE IF call[t] = "refused"  THEN "refused"
  ELSE                              "new"

Lifecycle == INSTANCE TradeLifecycle WITH stage <- [t \in Trades |-> Stage(t)]

LifecycleSpec == Lifecycle!Spec
=============================================================================
