----------------------- MODULE TradeExecution_proofs -----------------------
(***************************************************************************)
(* Proofs about TradeExecution, for any number of trades, pairs and        *)
(* concurrent closers.  The inductive invariant IInv links the progress of *)
(* executeTrade, the map of active trades, the history, the pending close  *)
(* requests and the broker's side of each trade; RiskInv adds the two      *)
(* accounts of risk, which are sums over finite sets.                      *)
(***************************************************************************)
EXTENDS TradeExecution, FiniteSetTheorems, TLAPS

(* An id that was never admitted left no trace.                            *)
FreshIsClean ==
  \A t \in Trades : call[t] \in {"unused", "refused"} =>
     t \notin activeTrades /\ t \notin Recorded

(* Only an order that is pending or confirmed keeps a trade in the map.    *)
ActiveHasOrder ==
  \A t \in activeTrades : call[t] \in {"placing", "placed"}

(* A trade is active or recorded, never both, until its order fails.       *)
ActiveOrRecorded ==
  /\ Recorded \cap activeTrades = {}
  /\ \A t \in Trades : call[t] = "placed" => t \in activeTrades \cup Recorded

(* A pending order whose trade has left the map was closed early.          *)
MissingIsEarly ==
  \A t \in Trades : call[t] = "placing" /\ t \notin activeTrades =>
     t \in early

(* An early close put its trade in the history.                            *)
EarlyRecorded == early \subseteq Recorded

(* Only an execution reaches the broker.                                   *)
PositionHasOrder ==
  \A t \in Trades : call[t] \in {"unused", "refused"} => position[t] = "none"

(* A trade in the history carries the answer to its close.                 *)
RecordedHasAnswer == Recorded \subseteq closeError \cup closeAck

(* A closer waits only for the close of a confirmed order.                 *)
ClosersWaitForPlaced ==
  \A c \in Closers : closing[c] # None => call[closing[c]] = "placed"

(* Two closers of one trade, or a closer of a recorded trade: a race.      *)
RacesNoticed ==
  /\ \A c, d \in Closers :
        closing[c] # None /\ closing[c] = closing[d] /\ c # d => closing[c] \in raced
  /\ \A c \in Closers :
        closing[c] # None /\ closing[c] \in Recorded => closing[c] \in raced

IInv ==
  /\ TypeOK
  /\ FreshIsClean
  /\ ActiveHasOrder
  /\ ActiveOrRecorded
  /\ MissingIsEarly
  /\ EarlyRecorded
  /\ PositionHasOrder
  /\ RecordedHasAnswer
  /\ ClosersWaitForPlaced
  /\ RacesNoticed
  /\ RecordedOnceUnlessRaced

-----------------------------------------------------------------------------
(* The set of recorded trades grows by the trade that is recorded.         *)
LEMMA RecordGrows ==
  ASSUME tradingHistory \in Seq(Trades), NEW t \in Trades,
         tradingHistory' = Append(tradingHistory, t)
  PROVE  /\ tradingHistory' \in Seq(Trades)
         /\ Recorded' = Recorded \cup {t}
         /\ DOMAIN tradingHistory' = 1 .. Len(tradingHistory) + 1
         /\ DOMAIN tradingHistory = 1 .. Len(tradingHistory)
         /\ \A i \in 1 .. Len(tradingHistory) : tradingHistory'[i] = tradingHistory[i]
         /\ tradingHistory'[Len(tradingHistory) + 1] = t
         /\ Len(tradingHistory) \in Nat
<1>1. /\ tradingHistory' \in Seq(Trades)
      /\ DOMAIN tradingHistory' = 1 .. Len(tradingHistory) + 1
      /\ DOMAIN tradingHistory = 1 .. Len(tradingHistory)
      /\ \A i \in 1 .. Len(tradingHistory) : tradingHistory'[i] = tradingHistory[i]
      /\ tradingHistory'[Len(tradingHistory) + 1] = t
      /\ Len(tradingHistory) \in Nat
  OBVIOUS
<1>2. Recorded' = Recorded \cup {t}
  BY <1>1 DEF Recorded
<1> QED
  BY <1>1, <1>2

(* Recording keeps entries distinct when the trade was not recorded, or    *)
(* was already known to be raced.                                          *)
LEMMA RecordKeepsOnce ==
  ASSUME tradingHistory \in Seq(Trades), NEW t \in Trades,
         tradingHistory' = Append(tradingHistory, t),
         RecordedOnceUnlessRaced,
         t \in Recorded => t \in raced,
         raced' = raced
  PROVE  RecordedOnceUnlessRaced'
<1>1. /\ DOMAIN tradingHistory' = 1 .. Len(tradingHistory) + 1
      /\ DOMAIN tradingHistory = 1 .. Len(tradingHistory)
      /\ \A i \in 1 .. Len(tradingHistory) : tradingHistory'[i] = tradingHistory[i]
      /\ tradingHistory'[Len(tradingHistory) + 1] = t
      /\ Len(tradingHistory) \in Nat
  BY RecordGrows
<1>2. SUFFICES ASSUME NEW i \in DOMAIN tradingHistory', NEW j \in DOMAIN tradingHistory',
                      tradingHistory'[i] = tradingHistory'[j],
                      tradingHistory'[i] \notin raced
               PROVE  i = j
  BY DEF RecordedOnceUnlessRaced
<1>3. CASE i \in 1 .. Len(tradingHistory) /\ j \in 1 .. Len(tradingHistory)
  BY <1>1, <1>2, <1>3 DEF RecordedOnceUnlessRaced
<1>4. CASE i = Len(tradingHistory) + 1 /\ j \in 1 .. Len(tradingHistory)
  BY <1>1, <1>2, <1>4 DEF Recorded
<1>5. CASE j = Len(tradingHistory) + 1 /\ i \in 1 .. Len(tradingHistory)
  BY <1>1, <1>2, <1>5 DEF Recorded
<1> QED
  BY <1>1, <1>3, <1>4, <1>5

-----------------------------------------------------------------------------
(* The state variables keep their types: every value executeTrade and      *)
(* closeTrade write is one the engine's bookkeeping expects.               *)
LEMMA TypeInitial == Init => TypeOK
BY DaysAssumption DEF Init, TypeOK, Calls, Statuses, Positions

LEMMA TypePreserved == TypeOK /\ [Next]_vars => TypeOK'
<1> SUFFICES ASSUME TypeOK, [Next]_vars PROVE TypeOK'
  OBVIOUS
<1> USE RiskAssumption, NoneAssumption, DaysAssumption DEF TypeOK, Calls, Statuses, Positions
<1>1. ASSUME NEW t \in Trades, ExecuteTrade(t) PROVE TypeOK'
  <2>1. risk[t] \in Int
    <3>1. risk[t] \in RiskFractions
      OBVIOUS
    <3>2. RiskFractions \subseteq Int
      OBVIOUS
    <3> QED BY <3>1, <3>2
  <2> QED BY <1>1, <2>1 DEF ExecuteTrade, closeVars
<1>2. ASSUME NEW t \in Trades, RefuseTrade(t) PROVE TypeOK'
  BY <1>2 DEF RefuseTrade, riskVars, closeVars
<1>3. ASSUME NEW t \in Trades, CommitSucceeds(t) PROVE TypeOK'
  BY <1>3 DEF CommitSucceeds, riskVars, closeVars
<1>4. ASSUME NEW t \in Trades, CommitFails(t) PROVE TypeOK'
  <2>1. risk[t] \in Int
    <3>1. risk[t] \in RiskFractions
      OBVIOUS
    <3>2. RiskFractions \subseteq Int
      OBVIOUS
    <3> QED BY <3>1, <3>2
  <2> QED BY <1>4, <2>1 DEF CommitFails, Refund, closeVars
<1>5. ASSUME NEW t \in Trades, CloseUnplaced(t) PROVE TypeOK'
  <2>1. tradingHistory' \in Seq(Trades)
    BY <1>5, RecordGrows DEF CloseUnplaced, Record
  <2> QED BY <1>5, <2>1 DEF CloseUnplaced, Record, riskVars
<1>6. ASSUME NEW c \in Closers, NEW t \in Trades, CloseTrade(c, t) PROVE TypeOK'
  BY <1>6 DEF CloseTrade, tradeVars, riskVars
<1>7. ASSUME NEW c \in Closers, CloseAcknowledged(c) PROVE TypeOK'
  <2>1. closing[c] \in Trades
    BY <1>7 DEF CloseAcknowledged
  <2>2. tradingHistory' \in Seq(Trades)
    BY <1>7, <2>1, RecordGrows DEF CloseAcknowledged, Record
  <2> QED BY <1>7, <2>1, <2>2 DEF CloseAcknowledged, Record, riskVars
<1>8. ASSUME NEW c \in Closers, CloseRefused(c) PROVE TypeOK'
  <2>1. closing[c] \in Trades
    BY <1>8 DEF CloseRefused
  <2>2. tradingHistory' \in Seq(Trades)
    BY <1>8, <2>1, RecordGrows DEF CloseRefused, Record
  <2> QED BY <1>8, <2>1, <2>2 DEF CloseRefused, NoteRefusal, Record, riskVars
<1>9. ASSUME NEW t \in Trades, IngestFill(t) PROVE TypeOK'
  BY <1>9 DEF IngestFill, riskVars, closeVars
<1>10. CASE CheckDailyReset
  BY <1>10 DEF CheckDailyReset, tradeVars, closeVars
<1>11. CASE NewDay
  BY <1>11 DEF NewDay, engineVars, tradeVars, riskVars, closeVars
<1>12. ASSUME NEW t \in Trades, OrderSent(t) \/ OrderFilled(t) \/ PositionEnds(t)
       PROVE  TypeOK'
  BY <1>12 DEF OrderSent, OrderFilled, PositionEnds, engineVars, tradeVars, riskVars, closeVars
<1>13. CASE UNCHANGED vars
  BY <1>13 DEF vars, tradeVars, riskVars, closeVars
<1> QED
  BY <1>1, <1>2, <1>3, <1>4, <1>5, <1>6, <1>7, <1>8, <1>9, <1>10, <1>11, <1>12, <1>13
     DEF Next

(* Type correctness of the execution engine for every value of the         *)
(* constants.                                                              *)
THEOREM TypeCorrect == Spec => []TypeOK
<1>1. Init => TypeOK
  BY TypeInitial
<1>2. TypeOK /\ [Next]_vars => TypeOK'
  BY TypePreserved
<1> QED
  BY <1>1, <1>2, PTL DEF Spec

-----------------------------------------------------------------------------
(* The inductive invariant holds initially.                                *)
LEMMA IInvInitial == Init => IInv
<1> SUFFICES ASSUME Init PROVE IInv
  OBVIOUS
<1>1. Recorded = {} /\ DOMAIN tradingHistory = {}
  BY DEF Init, Recorded
<1> QED
  BY TypeInitial, <1>1 DEF Init, IInv, FreshIsClean, ActiveHasOrder, ActiveOrRecorded,
     MissingIsEarly, EarlyRecorded, PositionHasOrder, ClosersWaitForPlaced, RacesNoticed,
     RecordedHasAnswer, RecordedOnceUnlessRaced

(* A step that leaves the history alone keeps its entries.                 *)
LEMMA SameHistory ==
  ASSUME tradingHistory' = tradingHistory PROVE Recorded' = Recorded
BY DEF Recorded

(* One step that records trade t, common to the three ways closeTrade can  *)
(* end: what it does to the history and the map.                           *)
LEMMA RecordStep ==
  ASSUME IInv, NEW t \in Trades, Record(t), call' = call, raced' = raced,
         call[t] = "placing" \/ call[t] = "placed",
         t \in Recorded => t \in raced
  PROVE  /\ Recorded' = Recorded \cup {t}
         /\ activeTrades' = activeTrades \ {t}
         /\ FreshIsClean' /\ ActiveHasOrder' /\ ActiveOrRecorded'
         /\ RecordedOnceUnlessRaced'
<1>1. /\ tradingHistory \in Seq(Trades)
      /\ tradingHistory' = Append(tradingHistory, t)
      /\ activeTrades' = activeTrades \ {t}
  BY DEF IInv, TypeOK, Record
<1>2. Recorded' = Recorded \cup {t}
  BY <1>1, RecordGrows
<1>3. FreshIsClean'
  BY <1>1, <1>2 DEF IInv, FreshIsClean
<1>4. ActiveHasOrder'
  BY <1>1 DEF IInv, ActiveHasOrder
<1>5. ActiveOrRecorded'
  BY <1>1, <1>2 DEF IInv, ActiveOrRecorded
<1>6. RecordedOnceUnlessRaced'
  BY <1>1, RecordKeepsOnce DEF IInv
<1> QED
  BY <1>1, <1>2, <1>3, <1>4, <1>5, <1>6

LEMMA IInvPreserved == IInv /\ [Next]_vars => IInv'
<1> SUFFICES ASSUME IInv, [Next]_vars PROVE IInv'
  OBVIOUS
<1> USE NoneAssumption DEF IInv
<1>0. TypeOK /\ TypeOK'
  BY TypePreserved
<1>1. ASSUME NEW t \in Trades, ExecuteTrade(t) PROVE IInv'
  <2>1. Recorded' = Recorded
    BY <1>1, SameHistory DEF ExecuteTrade
  <2>2. call' = [call EXCEPT ![t] = "placing"] /\ call[t] = "unused" /\ call \in [Trades -> Calls]
        /\ activeTrades' = activeTrades \cup {t}
    BY <1>1, <1>0 DEF ExecuteTrade, TypeOK
  <2>3. FreshIsClean' /\ ActiveHasOrder' /\ ActiveOrRecorded' /\ MissingIsEarly'
    BY <1>1, <2>1, <2>2 DEF ExecuteTrade, closeVars, FreshIsClean, ActiveHasOrder,
       ActiveOrRecorded, MissingIsEarly
  <2>4. ClosersWaitForPlaced' /\ PositionHasOrder'
    BY <1>0, <1>1, <2>2 DEF ExecuteTrade, closeVars, ClosersWaitForPlaced, PositionHasOrder, TypeOK
  <2>5. RacesNoticed' /\ RecordedHasAnswer' /\ RecordedOnceUnlessRaced'
    BY <1>1, <2>1 DEF ExecuteTrade, closeVars, RacesNoticed, RecordedHasAnswer,
       RecordedOnceUnlessRaced
  <2>8. EarlyRecorded'
    BY <1>1, <2>1 DEF ExecuteTrade, closeVars, EarlyRecorded
  <2> QED BY <1>0, <2>3, <2>4, <2>5, <2>8
<1>2. ASSUME NEW t \in Trades, RefuseTrade(t) PROVE IInv'
  <2>1. Recorded' = Recorded
    BY <1>2, SameHistory DEF RefuseTrade
  <2>2. call' = [call EXCEPT ![t] = "refused"] /\ call[t] = "unused" /\ call \in [Trades -> Calls]
    BY <1>2, <1>0 DEF RefuseTrade, TypeOK
  <2>3. FreshIsClean' /\ ActiveHasOrder' /\ ActiveOrRecorded' /\ MissingIsEarly'
    BY <1>2, <2>1, <2>2 DEF RefuseTrade, closeVars, FreshIsClean, ActiveHasOrder,
       ActiveOrRecorded, MissingIsEarly
  <2>4. ClosersWaitForPlaced' /\ PositionHasOrder'
    BY <1>0, <1>2, <2>2 DEF RefuseTrade, closeVars, ClosersWaitForPlaced, PositionHasOrder, TypeOK
  <2>5. RacesNoticed' /\ RecordedHasAnswer' /\ RecordedOnceUnlessRaced'
    BY <1>2, <2>1 DEF RefuseTrade, closeVars, RacesNoticed, RecordedHasAnswer,
       RecordedOnceUnlessRaced
  <2>8. EarlyRecorded'
    BY <1>2, <2>1 DEF RefuseTrade, closeVars, EarlyRecorded
  <2> QED BY <1>0, <2>3, <2>4, <2>5, <2>8
<1>3. ASSUME NEW t \in Trades, CommitSucceeds(t) PROVE IInv'
  <2>1. Recorded' = Recorded
    BY <1>3, SameHistory DEF CommitSucceeds
  <2>2. /\ call' = [call EXCEPT ![t] = "placed"] /\ call[t] = "placing"
        /\ call \in [Trades -> Calls]
        /\ t \notin activeTrades => t \in early
    BY <1>3, <1>0 DEF CommitSucceeds, TypeOK, MissingIsEarly
  <2>3. FreshIsClean' /\ ActiveHasOrder' /\ MissingIsEarly'
    BY <1>3, <2>1, <2>2 DEF CommitSucceeds, closeVars, FreshIsClean, ActiveHasOrder,
       MissingIsEarly
  <2>4. ClosersWaitForPlaced' /\ PositionHasOrder'
    BY <1>0, <1>3, <2>2 DEF CommitSucceeds, closeVars, ClosersWaitForPlaced, PositionHasOrder, TypeOK
  <2>5. RacesNoticed' /\ RecordedHasAnswer' /\ RecordedOnceUnlessRaced'
    BY <1>3, <2>1 DEF CommitSucceeds, closeVars, RacesNoticed, RecordedHasAnswer,
       RecordedOnceUnlessRaced
  <2>7. ActiveOrRecorded'
    BY <1>3, <2>1, <2>2 DEF CommitSucceeds, ActiveOrRecorded, EarlyRecorded
  <2>8. EarlyRecorded'
    BY <1>3, <2>1 DEF CommitSucceeds, closeVars, EarlyRecorded
  <2> QED BY <1>0, <2>3, <2>4, <2>5, <2>7, <2>8
<1>4. ASSUME NEW t \in Trades, CommitFails(t) PROVE IInv'
  <2>1. Recorded' = Recorded
    BY <1>4, SameHistory DEF CommitFails
  <2>2. call' = [call EXCEPT ![t] = "failed"] /\ call[t] = "placing" /\ call \in [Trades -> Calls]
        /\ activeTrades' = activeTrades \ {t}
    BY <1>4, <1>0 DEF CommitFails, TypeOK
  <2>3. FreshIsClean' /\ ActiveHasOrder' /\ ActiveOrRecorded' /\ MissingIsEarly'
    BY <1>4, <2>1, <2>2 DEF CommitFails, closeVars, FreshIsClean, ActiveHasOrder,
       ActiveOrRecorded, MissingIsEarly
  <2>4. ClosersWaitForPlaced' /\ PositionHasOrder'
    BY <1>0, <1>4, <2>2 DEF CommitFails, closeVars, ClosersWaitForPlaced, PositionHasOrder, TypeOK
  <2>5. RacesNoticed' /\ RecordedHasAnswer' /\ RecordedOnceUnlessRaced'
    BY <1>4, <2>1 DEF CommitFails, closeVars, RacesNoticed, RecordedHasAnswer,
       RecordedOnceUnlessRaced
  <2>8. EarlyRecorded'
    BY <1>4, <2>1 DEF CommitFails, closeVars, EarlyRecorded
  <2> QED BY <1>0, <2>3, <2>4, <2>5, <2>8
<1>5. ASSUME NEW t \in Trades, CloseUnplaced(t) PROVE IInv'
  <2>1. /\ t \in activeTrades /\ call[t] = "placing" /\ Record(t)
        /\ closeAck' = closeAck \cup {t} /\ early' = early \cup {t}
        /\ call' = call /\ closeError' = closeError /\ raced' = raced
        /\ closing' = closing /\ position' = position
    BY <1>5 DEF CloseUnplaced
  <2>2. t \notin Recorded
    BY <2>1 DEF ActiveOrRecorded
  <2>3. /\ Recorded' = Recorded \cup {t} /\ activeTrades' = activeTrades \ {t}
        /\ FreshIsClean' /\ ActiveHasOrder' /\ ActiveOrRecorded' /\ RecordedOnceUnlessRaced'
    BY <2>1, <2>2, RecordStep
  <2>4. MissingIsEarly' /\ EarlyRecorded'
    BY <2>1, <2>3 DEF MissingIsEarly, EarlyRecorded
  <2>5. PositionHasOrder' /\ ClosersWaitForPlaced'
    BY <2>1 DEF PositionHasOrder, ClosersWaitForPlaced
  <2>6. RacesNoticed'
    BY <2>1, <2>3 DEF RacesNoticed, ClosersWaitForPlaced
  <2>7. RecordedHasAnswer'
    BY <2>1, <2>3 DEF RecordedHasAnswer
  <2> QED BY <1>0, <2>3, <2>4, <2>5, <2>6, <2>7
<1>6. ASSUME NEW c \in Closers, NEW t \in Trades, CloseTrade(c, t) PROVE IInv'
  <2>1. /\ closing[c] = None /\ t \in activeTrades /\ call[t] = "placed"
        /\ closing' = [closing EXCEPT ![c] = t] /\ closing \in [Closers -> Trades \cup {None}]
        /\ raced' = IF \E d \in Closers : closing[d] = t THEN raced \cup {t} ELSE raced
        /\ call' = call /\ closeError' = closeError /\ closeAck' = closeAck
        /\ activeTrades' = activeTrades /\ tradingHistory' = tradingHistory
        /\ early' = early /\ position' = position
    BY <1>6, <1>0 DEF CloseTrade, tradeVars, TypeOK
  <2>2. Recorded' = Recorded
    BY <2>1, SameHistory
  <2>3. t \notin Recorded
    BY <2>1 DEF ActiveOrRecorded
  <2>4. FreshIsClean' /\ ActiveHasOrder' /\ ActiveOrRecorded' /\ MissingIsEarly'
        /\ EarlyRecorded' /\ PositionHasOrder' /\ RecordedHasAnswer'
    BY <2>1, <2>2 DEF FreshIsClean, ActiveHasOrder, ActiveOrRecorded, MissingIsEarly,
       EarlyRecorded, PositionHasOrder, RecordedHasAnswer
  <2>5. ClosersWaitForPlaced'
    BY <2>1 DEF ClosersWaitForPlaced
  <2>6. RacesNoticed'
    BY <2>1, <2>2, <2>3 DEF RacesNoticed
  <2>7. RecordedOnceUnlessRaced'
    BY <2>1 DEF RecordedOnceUnlessRaced
  <2> QED BY <1>0, <2>4, <2>5, <2>6, <2>7
<1>7. ASSUME NEW c \in Closers, CloseAcknowledged(c) \/ CloseRefused(c) PROVE IInv'
  <2> DEFINE t == closing[c]
  <2>1. /\ t \in Trades /\ t # None /\ Record(t)
        /\ closing' = [closing EXCEPT ![c] = None] /\ closing \in [Closers -> Trades \cup {None}]
        /\ call' = call /\ raced' = raced /\ early' = early /\ position' = position
        /\ \/ closeAck' = closeAck \cup {t} /\ closeError' = closeError
           \/ closeAck' = closeAck /\ closeError' = closeError \cup {t}
    BY <1>7, <1>0 DEF CloseAcknowledged, CloseRefused, NoteRefusal, TypeOK
  <2>2. call[t] = "placed" /\ (t \in Recorded => t \in raced)
    BY <2>1 DEF ClosersWaitForPlaced, RacesNoticed
  <2>3. /\ Recorded' = Recorded \cup {t} /\ activeTrades' = activeTrades \ {t}
        /\ FreshIsClean' /\ ActiveHasOrder' /\ ActiveOrRecorded' /\ RecordedOnceUnlessRaced'
    BY <2>1, <2>2, RecordStep
  <2>4. MissingIsEarly' /\ EarlyRecorded'
    BY <2>1, <2>2, <2>3 DEF MissingIsEarly, EarlyRecorded
  <2>5. PositionHasOrder' /\ ClosersWaitForPlaced'
    BY <2>1 DEF PositionHasOrder, ClosersWaitForPlaced
  <2>6. RacesNoticed'
    BY <2>1, <2>3 DEF RacesNoticed
  <2>7. RecordedHasAnswer'
    BY <2>1, <2>3 DEF RecordedHasAnswer
  <2> QED BY <1>0, <2>3, <2>4, <2>5, <2>6, <2>7
<1>8. ASSUME UNCHANGED <<call, closeError, closeAck, activeTrades, tradingHistory, closeVars>>,
             \A t \in Trades : position'[t] # position[t] =>
                call[t] = "placing" \/ position[t] # "none"
      PROVE  IInv'
  <2>1. Recorded' = Recorded
    BY <1>8, SameHistory
  <2>2. FreshIsClean' /\ ActiveHasOrder' /\ ActiveOrRecorded' /\ MissingIsEarly'
        /\ EarlyRecorded' /\ ClosersWaitForPlaced' /\ RacesNoticed'
        /\ RecordedHasAnswer' /\ RecordedOnceUnlessRaced'
    BY <1>8, <2>1 DEF closeVars, FreshIsClean, ActiveHasOrder, ActiveOrRecorded,
       MissingIsEarly, EarlyRecorded, ClosersWaitForPlaced, RacesNoticed,
       RecordedHasAnswer, RecordedOnceUnlessRaced
  <2>3. PositionHasOrder'
    BY <1>8 DEF PositionHasOrder
  <2> QED BY <1>0, <2>2, <2>3
<1>9. ASSUME NEW t \in Trades, IngestFill(t) PROVE IInv'
  BY <1>8, <1>9 DEF IngestFill
<1>10. CASE CheckDailyReset \/ NewDay
  BY <1>8, <1>10 DEF CheckDailyReset, NewDay, engineVars, tradeVars
<1>11. ASSUME NEW t \in Trades, OrderFilled(t) \/ PositionEnds(t) PROVE IInv'
  BY <1>0, <1>8, <1>11 DEF OrderFilled, PositionEnds, engineVars, tradeVars, TypeOK
<1>12. ASSUME NEW t \in Trades, OrderSent(t) PROVE IInv'
  BY <1>0, <1>8, <1>12 DEF OrderSent, engineVars, tradeVars, TypeOK
<1>13. CASE UNCHANGED vars
  BY <1>8, <1>13 DEF vars, tradeVars
<1> QED
  BY <1>1, <1>2, <1>3, <1>4, <1>5, <1>6, <1>7, <1>9, <1>10, <1>11, <1>12, <1>13 DEF Next

LEMMA IInvHolds == Spec => []IInv
<1>1. Init => IInv
  BY IInvInitial
<1>2. IInv /\ [Next]_vars => IInv'
  BY IInvPreserved
<1> QED
  BY <1>1, <1>2, PTL DEF Spec

(* Every position the engine does not manage left a trace: a failed        *)
(* execution, or a trade of the history with the answer to its close; for  *)
(* any number of trades, callers and days.                                 *)
THEOREM OrphansAlwaysExplained == Spec => []OrphansExplained
<1>1. ASSUME IInv, NEW t \in Trades, position[t] = "open", t \notin activeTrades,
             call[t] # "failed"
      PROVE  t \in Recorded \cap (closeError \cup closeAck)
  <2>1. call[t] \in {"placing", "placed"}
    BY <1>1 DEF IInv, PositionHasOrder, TypeOK, Calls
  <2>2. t \in Recorded
    BY <1>1, <2>1 DEF IInv, MissingIsEarly, EarlyRecorded, ActiveOrRecorded
  <2> QED BY <1>1, <2>2 DEF IInv, RecordedHasAnswer
<1>2. IInv => OrphansExplained
  BY <1>1 DEF OrphansExplained
<1> QED
  BY <1>2, IInvHolds, PTL

(* A trade is recorded, and its profit counted, at most once unless two    *)
(* closers waited for it at once.                                          *)
THEOREM RecordedAtMostOnce == Spec => []RecordedOnceUnlessRaced
<1>1. IInv => RecordedOnceUnlessRaced
  BY DEF IInv
<1> QED
  BY <1>1, IInvHolds, PTL

-----------------------------------------------------------------------------
(* What a step does to the history and the map.                            *)
LEMMA RecordedGrows == IInv /\ [Next]_vars => Recorded \subseteq Recorded'
<1> SUFFICES ASSUME IInv, [Next]_vars PROVE Recorded \subseteq Recorded'
  OBVIOUS
<1>1. CASE tradingHistory' = tradingHistory
  BY <1>1, SameHistory
<1>2. ASSUME NEW t \in Trades, Record(t) PROVE Recorded \subseteq Recorded'
  BY <1>2, RecordGrows DEF Record, IInv, TypeOK
<1>3. ASSUME NEW c \in Closers, CloseAcknowledged(c) \/ CloseRefused(c)
      PROVE  \E t \in Trades : Record(t)
  BY <1>3 DEF CloseAcknowledged, CloseRefused, IInv, TypeOK
<1> QED
  BY <1>1, <1>2, <1>3 DEF Next, ExecuteTrade, RefuseTrade, CommitSucceeds, CommitFails,
     CheckDailyReset, CloseUnplaced, CloseTrade, IngestFill, OrderSent, OrderFilled,
     PositionEnds, NewDay, engineVars, vars

(* A closed trade stays closed: no late confirmation, refund, fill or      *)
(* second close brings it back.                                            *)
THEOREM ClosedStaysClosed == Spec => ClosedForGood
<1>1. IInv /\ IInv' /\ [Next]_vars
        => [ /\ Recorded \subseteq Recorded'
             /\ Recorded \cap activeTrades' = {} ]_vars
  BY RecordedGrows DEF IInv, ActiveOrRecorded
<1> QED
  BY <1>1, IInvHolds, PTL DEF Spec, ClosedForGood

-----------------------------------------------------------------------------
(* Sums over finite sets.  RiskOf adds up risks with a fold, which picks   *)
(* one trade after the other.  The facts about it that the accounts need   *)
(* follow from one: a set of subsets of a finite set has a smallest one,   *)
(* so that a fact about all of them has no smallest exception.             *)
(* A nonempty set of subsets of a finite set has a minimal one.            *)
LEMMA SmallestSubset ==
  ASSUME NEW S, IsFiniteSet(S), NEW B, B \subseteq SUBSET S, B # {}
  PROVE  \E m \in B : \A u \in B : u \subseteq m => u = m
<1>1. IsWellFoundedOn(StrictSubsetOrdering(S), SUBSET S)
  BY FS_StrictSubsetOrderingWellFounded, FS_FiniteSubsetsOfFinite
<1>2. \E m \in B : \A u \in B : <<u, m>> \notin StrictSubsetOrdering(S)
  BY <1>1, WFMin
<1> QED
  BY <1>2 DEF StrictSubsetOrdering

(* The element that a fold takes next.                                    *)
Picked(s) == CHOOSE x \in s : TRUE

(* g is a table of the sums of w over the subsets of S.                    *)
Sums(w, g, S) ==
  g = [s \in SUBSET S |-> IF s = {} THEN 0 ELSE w[Picked(s)] + g[s \ {Picked(s)}]]

Table(w, S)   == CHOOSE g : Sums(w, g, S)
SumOf(w, S)   == Table(w, S)[S]

(* RiskOf is such a sum.                                                   *)
LEMMA RiskOfIsSum == \A S : RiskOf(S) = SumOf(risk, S)
BY DEF RiskOf, SumOf, Table, Sums, Picked, MapThenSumSet, MapThenFoldSet

(* What is picked, is an element.                                          *)
LEMMA PickedIn == \A s : s # {} => Picked(s) \in s
BY DEF Picked

(* A table at one of its sets.                                             *)
LEMMA SumsAt ==
  ASSUME NEW w, NEW g, NEW S, Sums(w, g, S), NEW s, s \subseteq S
  PROVE  /\ s = {} => g[s] = 0
         /\ s # {} => g[s] = w[Picked(s)] + g[s \ {Picked(s)}]
BY DEF Sums

(* Two tables agree on the sets that are in both: the smallest set on      *)
(* which they did not would have a smaller one.                            *)
LEMMA TablesAgree ==
  ASSUME NEW w, NEW S, IsFiniteSet(S), NEW S1, S1 \subseteq S, NEW S2, S2 \subseteq S,
         NEW g, Sums(w, g, S1), NEW h, Sums(w, h, S2),
         NEW s, s \subseteq S1, s \subseteq S2
  PROVE  g[s] = h[s]
<1> DEFINE B == {u \in SUBSET S : u \subseteq S1 /\ u \subseteq S2 /\ g[u] # h[u]}
<1>1. SUFFICES ASSUME B # {} PROVE FALSE
  OBVIOUS
<1>2. PICK m \in B : \A u \in B : u \subseteq m => u = m
  <2>1. B \subseteq SUBSET S
    OBVIOUS
  <2> HIDE DEF B
  <2> QED BY <1>1, <2>1, SmallestSubset
<1>3. CASE m = {}
  BY <1>2, <1>3, SumsAt
<1>4. CASE m # {}
  <2> DEFINE r == m \ {Picked(m)}
  <2>1. r \subseteq m /\ r # m
    BY <1>4, PickedIn
  <2>2. g[r] = h[r]
    BY <2>1, <1>2
  <2>3. g[m] = w[Picked(m)] + g[r] /\ h[m] = w[Picked(m)] + h[r]
    BY <1>2, <1>4, SumsAt
  <2> QED BY <2>2, <2>3
<1> QED BY <1>3, <1>4

(* Every finite set has a table, made of the sums of its smaller subsets.  *)
LEMMA TableExists ==
  ASSUME NEW w, NEW S, IsFiniteSet(S)
  PROVE  \A s \in SUBSET S : Sums(w, Table(w, s), s)
<1> DEFINE B == {u \in SUBSET S : ~\E g : Sums(w, g, u)}
<1>1. SUFFICES ASSUME B # {} PROVE FALSE
  <2>1. \A s \in SUBSET S : \E g : Sums(w, g, s)
    BY <1>1
  <2> QED BY <2>1 DEF Table
<1>2. PICK m \in B : \A u \in B : u \subseteq m => u = m
  <2>1. B \subseteq SUBSET S
    OBVIOUS
  <2> HIDE DEF B
  <2> QED BY <1>1, <2>1, SmallestSubset
<1>3. \A s : s \subseteq m /\ s # m => Sums(w, Table(w, s), s)
  BY <1>2 DEF Table
<1> DEFINE g == [s \in SUBSET m |-> IF s = {} THEN 0 ELSE w[Picked(s)] + SumOf(w, s \ {Picked(s)})]
<1>4. ASSUME NEW s, s \subseteq m, s # m
      PROVE  g[s] = SumOf(w, s)
  <2>1. Sums(w, Table(w, s), s)
    BY <1>3, <1>4
  <2>2. CASE s = {}
    BY <2>1, <2>2, SumsAt DEF SumOf
  <2>3. CASE s # {}
    <3> DEFINE r == s \ {Picked(s)}
    <3>1. r \subseteq s /\ r # s /\ r \subseteq m /\ r # m
      BY <2>3, <1>4, PickedIn
    <3>2. Sums(w, Table(w, r), r)
      BY <3>1, <1>3
    <3>3. Table(w, s)[r] = Table(w, r)[r]
      <4>1. IsFiniteSet(s) /\ s \subseteq s /\ r \subseteq r
        BY <1>2, <1>4, FS_Subset
      <4> HIDE DEF r, g, B
      <4> QED BY <3>1, <3>2, <2>1, <4>1, TablesAgree
    <3>4. SumOf(w, s) = w[Picked(s)] + SumOf(w, r)
      BY <2>1, <2>3, <3>3, SumsAt DEF SumOf
    <3> QED BY <3>4, <2>3, <1>4
  <2> QED BY <2>2, <2>3
<1>5. ASSUME NEW s \in SUBSET m
      PROVE  g[s] = IF s = {} THEN 0 ELSE w[Picked(s)] + g[s \ {Picked(s)}]
  <2>1. CASE s = {}
    BY <2>1
  <2>2. CASE s # {}
    <3>1. s \ {Picked(s)} \subseteq m /\ s \ {Picked(s)} # m
      BY <2>2, PickedIn
    <3>2. g[s \ {Picked(s)}] = SumOf(w, s \ {Picked(s)})
      BY <3>1, <1>4
    <3>3. g[s] = w[Picked(s)] + SumOf(w, s \ {Picked(s)})
      BY <2>2
    <3> HIDE DEF g
    <3> QED BY <2>2, <3>2, <3>3
  <2> QED BY <2>1, <2>2
<1>6. Sums(w, g, m)
  <2>1. g = [s \in SUBSET m |-> g[s]]
    OBVIOUS
  <2> HIDE DEF g
  <2> QED BY <2>1, <1>5 DEF Sums
<1> QED BY <1>6, <1>2

(* So the sum is what its recursive definition says.                       *)
LEMMA SumUnfolds ==
  ASSUME NEW w, NEW S, IsFiniteSet(S)
  PROVE  /\ S = {} => SumOf(w, S) = 0
         /\ S # {} => SumOf(w, S) = w[Picked(S)] + SumOf(w, S \ {Picked(S)})
<1> DEFINE r == S \ {Picked(S)}
<1>1. Sums(w, Table(w, S), S) /\ Sums(w, Table(w, r), r)
  BY TableExists
<1>2. Table(w, S)[r] = Table(w, r)[r]
  <2>1. r \subseteq S
    OBVIOUS
  <2> HIDE DEF r
  <2> QED BY <1>1, <2>1, TablesAgree
<1> QED BY <1>1, <1>2, SumsAt DEF SumOf

(* A sum of integers is one.                                               *)
LEMMA SumIsInt ==
  ASSUME NEW S, IsFiniteSet(S), NEW w, \A s \in S : w[s] \in Int
  PROVE  SumOf(w, S) \in Int
<1> DEFINE B == {u \in SUBSET S : SumOf(w, u) \notin Int}
<1>1. SUFFICES ASSUME B # {} PROVE FALSE
  OBVIOUS
<1>2. PICK m \in B : \A u \in B : u \subseteq m => u = m
  <2>1. B \subseteq SUBSET S
    OBVIOUS
  <2> HIDE DEF B
  <2> QED BY <1>1, <2>1, SmallestSubset
<1>3. IsFiniteSet(m)
  BY <1>2, FS_Subset
<1>4. m # {}
  <2>1. m = {} => SumOf(w, m) = 0
    BY <1>3, SumUnfolds
  <2> QED BY <2>1, <1>2
<1>5. Picked(m) \in m /\ m \subseteq S
  BY <1>2, <1>4, PickedIn
<1>6. SumOf(w, m \ {Picked(m)}) \in Int
  BY <1>2, <1>5
<1>7. w[Picked(m)] \in Int
  BY <1>5
<1>8. SumOf(w, m) = w[Picked(m)] + SumOf(w, m \ {Picked(m)})
  BY <1>3, <1>4, SumUnfolds
<1>9. SumOf(w, m) \in Int
  BY <1>6, <1>7, <1>8
<1> QED BY <1>9, <1>2

(* The order in which the elements are taken does not matter.              *)
LEMMA SumTakes ==
  ASSUME NEW S, IsFiniteSet(S), NEW w, \A s \in S : w[s] \in Int, NEW x \in S
  PROVE  SumOf(w, S) = w[x] + SumOf(w, S \ {x})
<1> DEFINE B == {u \in SUBSET S : \E y \in u : SumOf(w, u) # w[y] + SumOf(w, u \ {y})}
<1>1. SUFFICES ASSUME B # {} PROVE FALSE
  OBVIOUS
<1>2. PICK m \in B : \A u \in B : u \subseteq m => u = m
  <2>1. B \subseteq SUBSET S
    OBVIOUS
  <2> HIDE DEF B
  <2> QED BY <1>1, <2>1, SmallestSubset
<1>3. PICK y \in m : SumOf(w, m) # w[y] + SumOf(w, m \ {y})
  BY <1>2
<1>4. IsFiniteSet(m) /\ m \subseteq S
  BY <1>2, FS_Subset
<1> DEFINE c == Picked(m)
           r == (m \ {c}) \ {y}
<1>5. c \in m /\ SumOf(w, m) = w[c] + SumOf(w, m \ {c})
  BY <1>3, <1>4, PickedIn, SumUnfolds
<1>6. y # c
  BY <1>3, <1>5
<1>7. \A u : u \subseteq m /\ u # m => \A z \in u : SumOf(w, u) = w[z] + SumOf(w, u \ {z})
  BY <1>2
<1>8. SumOf(w, m \ {c}) = w[y] + SumOf(w, r)
  BY <1>5, <1>6, <1>7
<1>9. SumOf(w, m \ {y}) = w[c] + SumOf(w, r)
  <2>1. (m \ {y}) \ {c} = r
    OBVIOUS
  <2>2. c \in m \ {y} /\ m \ {y} # m
    BY <1>5, <1>6
  <2> QED BY <2>1, <2>2, <1>7
<1>10. w[c] \in Int /\ w[y] \in Int /\ SumOf(w, r) \in Int
  <2>1. IsFiniteSet(r) /\ \A s \in r : w[s] \in Int
    BY <1>4, FS_Subset
  <2>2. SumOf(w, r) \in Int
    BY <2>1, SumIsInt
  <2> QED BY <1>4, <1>5, <2>2
<1> HIDE DEF c, r
<1> QED BY <1>3, <1>5, <1>8, <1>9, <1>10

(* One more element adds its weight, one less takes it away.               *)
LEMMA SumAdds ==
  ASSUME NEW S, IsFiniteSet(S), NEW x, x \notin S, NEW w, \A s \in S \cup {x} : w[s] \in Int
  PROVE  SumOf(w, S \cup {x}) = SumOf(w, S) + w[x]
<1> DEFINE T == S \cup {x}
<1>1. IsFiniteSet(T) /\ x \in T /\ T \ {x} = S /\ \A s \in T : w[s] \in Int
  BY FS_AddElement
<1>2. w[x] \in Int /\ SumOf(w, S) \in Int
  BY SumIsInt
<1> HIDE DEF T
<1>3. SumOf(w, T) = w[x] + SumOf(w, T \ {x})
  BY <1>1, SumTakes
<1>4. SumOf(w, T) = w[x] + SumOf(w, S)
  BY <1>1, <1>3, Zenon
<1>5. SumOf(w, T) = SumOf(w, S) + w[x]
  BY <1>2, <1>4
<1> QED BY <1>5 DEF T

(* What has no negative weight does not raise the sum by leaving.          *)
LEMMA SumFalls ==
  ASSUME NEW S, IsFiniteSet(S), NEW x, NEW w, \A s \in S : w[s] \in Nat
  PROVE  SumOf(w, S \ {x}) <= SumOf(w, S)
<1>1. IsFiniteSet(S \ {x})
  BY FS_RemoveElement
<1>2. SumOf(w, S) \in Int /\ SumOf(w, S \ {x}) \in Int
  BY <1>1, SumIsInt
<1>3. CASE x \in S
  <2>1. SumOf(w, S) = w[x] + SumOf(w, S \ {x})
    BY <1>3, SumTakes
  <2>2. w[x] \in Nat
    BY <1>3
  <2> QED BY <2>1, <2>2, <1>2
<1>4. CASE x \notin S
  <2>1. S \ {x} = S
    BY <1>4
  <2> QED BY <2>1, <1>2
<1> QED BY <1>3, <1>4

-----------------------------------------------------------------------------
(* Only a trade that was admitted is in the accounts, and one refunded     *)
(* late has failed.                                                        *)
UnusedUnbooked ==
  \A t \in Trades : call[t] = "unused" => t \notin booked \cup refundedLate

LateHasFailed == \A t \in refundedLate : call[t] = "failed"

(* Trades enter the accounts one at a time.                                *)
FiniteAccounts ==
  IsFiniteSet(activeTrades) /\ IsFiniteSet(booked) /\ IsFiniteSet(refundedLate)

RiskInv == /\ FiniteAccounts
           /\ UnusedUnbooked
           /\ LateHasFailed
           /\ SymbolRiskCap
           /\ DailyRiskLedger

(* Risks are natural numbers.                                              *)
LEMMA RiskIsNat == TypeOK => /\ \A t \in Trades : risk[t] \in Nat
                             /\ \A t \in Trades : risk[t] \in Int
<1> SUFFICES ASSUME TypeOK, NEW t \in Trades PROVE risk[t] \in Nat
  OBVIOUS
<1>1. risk[t] \in RiskFractions
  BY DEF TypeOK
<1> QED BY <1>1, RiskAssumption

(* The two accounts, before and after a step, as sums.                     *)
LEMMA LedgerIsSums ==
  /\ DailyRiskLedger <=> dailyRisk = SumOf(risk, booked) - SumOf(risk, refundedLate)
  /\ DailyRiskLedger' <=> dailyRisk' = SumOf(risk', booked') - SumOf(risk', refundedLate')
BY DEF DailyRiskLedger, RiskOf, SumOf, Table, Sums, Picked, MapThenSumSet, MapThenFoldSet

(* The trades of S on the pair p.                                          *)
On(p, S) == {t \in S : pair[t] = p}

(* The risk of a pair, before and after a step, as a sum.                  *)
LEMMA CapIsSums ==
  /\ \A p : SymbolRisk(p) = SumOf(risk, On(p, activeTrades))
  /\ \A p : SymbolRisk(p)' = SumOf(risk', On(p, activeTrades)')
BY DEF On, SymbolRisk, RiskOf, SumOf, Table, Sums, Picked, MapThenSumSet, MapThenFoldSet

(* The accounts begin empty.                                               *)
LEMMA AccountsInitial == Init => RiskInv
<1> SUFFICES ASSUME Init PROVE RiskInv
  OBVIOUS
<1>1. SumOf(risk, {}) = 0
  BY SumUnfolds, FS_EmptySet
<1>2. FiniteAccounts /\ UnusedUnbooked /\ LateHasFailed
  BY FS_EmptySet DEF Init, FiniteAccounts, UnusedUnbooked, LateHasFailed
<1>3. DailyRiskLedger
  BY <1>1, LedgerIsSums DEF Init
<1>4. \A p : SymbolRisk(p) = 0
  <2>1. \A p : On(p, activeTrades) = {}
    BY DEF Init, On
  <2> QED BY <2>1, <1>1, CapIsSums
<1>5. SymbolRiskCap
  BY <1>4, RiskAssumption DEF SymbolRiskCap
<1> QED BY <1>2, <1>3, <1>5 DEF RiskInv

(* A trade that leaves the map, or none, lowers the risk of every pair.    *)
LEMMA LeavingKeepsCap ==
  ASSUME TypeOK, FiniteAccounts, SymbolRiskCap, NEW t,
         risk' = risk, pair' = pair,
         activeTrades' = activeTrades \/ activeTrades' = activeTrades \ {t}
  PROVE  SymbolRiskCap'
<1> SUFFICES ASSUME NEW p \in Pairs PROVE SymbolRisk(p)' <= MaxRiskPerSymbol
  BY DEF SymbolRiskCap
<1>1. SymbolRisk(p) <= MaxRiskPerSymbol
  BY DEF SymbolRiskCap
<1>2. On(p, activeTrades)' = On(p, activeTrades) \/ On(p, activeTrades)' = On(p, activeTrades) \ {t}
  BY DEF On
<1>3. IsFiniteSet(On(p, activeTrades))
  BY FS_Subset DEF On, FiniteAccounts
<1>4. \A s \in On(p, activeTrades) : risk[s] \in Nat /\ risk[s] \in Int
  BY RiskIsNat DEF On, TypeOK
<1>5. IsFiniteSet(On(p, activeTrades)')
  BY <1>2, <1>3, FS_RemoveElement
<1>6. SymbolRisk(p) \in Int /\ SymbolRisk(p)' \in Int
  <2>1. \A s \in On(p, activeTrades)' : risk[s] \in Int
    BY <1>2, <1>4
  <2> QED BY <2>1, <1>3, <1>4, <1>5, SumIsInt, CapIsSums
<1>7. SymbolRisk(p)' <= SymbolRisk(p)
  <2>1. CASE On(p, activeTrades)' = On(p, activeTrades)
    BY <2>1, <1>6, CapIsSums
  <2>2. CASE On(p, activeTrades)' = On(p, activeTrades) \ {t}
    <3>1. SumOf(risk, On(p, activeTrades) \ {t}) <= SumOf(risk, On(p, activeTrades))
      BY <1>3, <1>4, SumFalls
    <3> QED BY <3>1, <2>2, CapIsSums
  <2> QED BY <2>1, <2>2, <1>2
<1> QED BY <1>1, <1>6, <1>7, RiskAssumption

(* A step that leaves the accounts alone and at most takes t out of the    *)
(* map.                                                                    *)
Quiet(t) ==
  /\ UNCHANGED <<pair, risk, dailyRisk, booked, refundedLate>>
  /\ activeTrades' = activeTrades \/ activeTrades' = activeTrades \ {t}
  /\ \A u \in Trades : call'[u] = call[u] \/ (call'[u] # "unused" /\ call[u] # "failed")

(* The accounts balance and the caps hold after every step.                *)
LEMMA AccountsKept == IInv /\ RiskInv /\ [Next]_vars => RiskInv'
<1> SUFFICES ASSUME IInv, RiskInv, [Next]_vars PROVE RiskInv'
  OBVIOUS
<1>i. FiniteAccounts /\ UnusedUnbooked /\ LateHasFailed /\ SymbolRiskCap /\ DailyRiskLedger
  BY DEF RiskInv
<1>t. TypeOK /\ TypeOK' /\ FreshIsClean
  BY TypePreserved DEF IInv
<1>n. \A t \in Trades : risk[t] \in Nat /\ risk[t] \in Int
  BY <1>t, RiskIsNat
<1>s. SumOf(risk, booked) \in Int /\ SumOf(risk, refundedLate) \in Int
  BY <1>i, <1>n, <1>t, SumIsInt DEF FiniteAccounts, TypeOK
<1>l. dailyRisk = SumOf(risk, booked) - SumOf(risk, refundedLate)
  BY <1>i, LedgerIsSums
<1>0. ASSUME NEW t, Quiet(t) PROVE RiskInv'
  <2>0. /\ pair' = pair /\ risk' = risk /\ dailyRisk' = dailyRisk
        /\ booked' = booked /\ refundedLate' = refundedLate
        /\ (activeTrades' = activeTrades \/ activeTrades' = activeTrades \ {t})
        /\ \A u \in Trades : call'[u] = call[u] \/ (call'[u] # "unused" /\ call[u] # "failed")
    BY <1>0 DEF Quiet
  <2>1. FiniteAccounts'
    BY <1>i, <2>0, FS_RemoveElement DEF FiniteAccounts
  <2>2. UnusedUnbooked' /\ LateHasFailed'
    BY <1>i, <2>0, <1>t DEF UnusedUnbooked, LateHasFailed, TypeOK
  <2>3. SymbolRiskCap'
    BY <1>i, <2>0, <1>t, LeavingKeepsCap
  <2>4. DailyRiskLedger'
    BY <2>0, <1>l, LedgerIsSums
  <2> QED BY <2>1, <2>2, <2>3, <2>4 DEF RiskInv
<1>1. ASSUME NEW t \in Trades, ExecuteTrade(t) PROVE RiskInv'
  <2>1. /\ call[t] = "unused" /\ call' = [call EXCEPT ![t] = "placing"]
        /\ call \in [Trades -> Calls] /\ activeTrades' = activeTrades \cup {t}
        /\ dailyRisk' = dailyRisk + risk[t] /\ booked' = booked \cup {t}
        /\ UNCHANGED <<pair, risk, refundedLate>> /\ Admissible(t)
    BY <1>1, <1>t DEF ExecuteTrade, TypeOK
  <2>2. t \notin activeTrades /\ t \notin booked /\ t \notin refundedLate
    BY <1>i, <2>1, <1>t DEF FreshIsClean, UnusedUnbooked
  <2>3. FiniteAccounts'
    BY <1>i, <2>1, FS_AddElement DEF FiniteAccounts
  <2>4. UnusedUnbooked' /\ LateHasFailed'
    BY <1>i, <2>1, <2>2, <1>t DEF UnusedUnbooked, LateHasFailed, TypeOK
  <2>5. DailyRiskLedger'
    <3>1. IsFiniteSet(booked) /\ \A s \in booked \cup {t} : risk[s] \in Int
      BY <1>i, <1>n, <1>t DEF FiniteAccounts, TypeOK
    <3>2. SumOf(risk, booked \cup {t}) = SumOf(risk, booked) + risk[t]
      BY <3>1, <2>2, SumAdds
    <3>3. risk[t] \in Int
      BY <1>n
    <3>4. dailyRisk' = SumOf(risk', booked') - SumOf(risk', refundedLate')
      BY <3>2, <3>3, <2>1, <1>l, <1>s
    <3> QED BY <3>4, LedgerIsSums
  <2>6. SymbolRiskCap'
    <3> SUFFICES ASSUME NEW p \in Pairs PROVE SymbolRisk(p)' <= MaxRiskPerSymbol
      BY DEF SymbolRiskCap
    <3>1. CASE p = pair[t]
      <4>1. On(p, activeTrades)' = On(p, activeTrades) \cup {t} /\ t \notin On(p, activeTrades)
        BY <3>1, <2>1, <2>2 DEF On
      <4>2. IsFiniteSet(On(p, activeTrades))
        BY <1>i, FS_Subset DEF On, FiniteAccounts
      <4>3. \A s \in On(p, activeTrades) \cup {t} : risk[s] \in Int
        BY <1>n, <1>t DEF On, TypeOK
      <4>4. SumOf(risk, On(p, activeTrades) \cup {t}) = SumOf(risk, On(p, activeTrades)) + risk[t]
        BY <4>1, <4>2, <4>3, SumAdds
      <4>5. SymbolRisk(p)' = SymbolRisk(p) + risk[t]
        BY <4>1, <4>4, <2>1, CapIsSums
      <4> QED BY <4>5, <3>1, <2>1 DEF Admissible
    <3>2. CASE p # pair[t]
      <4>1. On(p, activeTrades)' = On(p, activeTrades)
        BY <3>2, <2>1 DEF On
      <4>2. SymbolRisk(p)' = SymbolRisk(p)
        BY <4>1, <2>1, CapIsSums
      <4> QED BY <1>i, <4>2 DEF SymbolRiskCap
    <3> QED BY <3>1, <3>2
  <2> QED BY <2>3, <2>4, <2>5, <2>6 DEF RiskInv
<1>2. ASSUME NEW t \in Trades, CommitFails(t) PROVE RiskInv'
  <2>1. /\ call[t] = "placing" /\ call' = [call EXCEPT ![t] = "failed"]
        /\ call \in [Trades -> Calls] /\ activeTrades' = activeTrades \ {t}
        /\ dailyRisk' = dailyRisk - risk[t] /\ booked' = booked \ {t}
        /\ refundedLate' = IF t \in booked THEN refundedLate ELSE refundedLate \cup {t}
        /\ UNCHANGED <<pair, risk>>
    BY <1>2, <1>t DEF CommitFails, Refund, TypeOK
  <2>2. t \notin refundedLate
    BY <1>i, <2>1 DEF LateHasFailed
  <2>3. FiniteAccounts'
    BY <1>i, <2>1, FS_AddElement, FS_RemoveElement DEF FiniteAccounts
  <2>4. UnusedUnbooked' /\ LateHasFailed'
    BY <1>i, <2>1, <2>2, <1>t DEF UnusedUnbooked, LateHasFailed, TypeOK
  <2>5. SymbolRiskCap'
    BY <1>i, <2>1, <1>t, LeavingKeepsCap
  <2>6. risk[t] \in Int
    BY <1>n
  <2>7. CASE t \in booked
    <3>1. IsFiniteSet(booked \ {t}) /\ \A s \in booked : risk[s] \in Int
      BY <1>i, <1>n, <1>t, FS_RemoveElement DEF FiniteAccounts, TypeOK
    <3>2. SumOf(risk, booked) = risk[t] + SumOf(risk, booked \ {t})
      BY <1>i, <3>1, <2>7, SumTakes DEF FiniteAccounts
    <3>3. SumOf(risk, booked \ {t}) \in Int
      BY <3>1, SumIsInt
    <3>4. booked' = booked \ {t} /\ refundedLate' = refundedLate
      BY <2>1, <2>7
    <3>5. dailyRisk' = SumOf(risk, booked \ {t}) - SumOf(risk, refundedLate)
      BY <3>2, <3>3, <2>1, <2>6, <1>l, <1>s
    <3>6. DailyRiskLedger'
      BY <3>4, <3>5, <2>1, LedgerIsSums
    <3> QED BY <3>6, <2>3, <2>4, <2>5 DEF RiskInv
  <2>8. CASE t \notin booked
    <3>1. IsFiniteSet(refundedLate) /\ \A s \in refundedLate \cup {t} : risk[s] \in Int
      BY <1>i, <1>n, <1>t DEF FiniteAccounts, TypeOK
    <3>2. SumOf(risk, refundedLate \cup {t}) = SumOf(risk, refundedLate) + risk[t]
      BY <3>1, <2>2, SumAdds
    <3>3. booked' = booked /\ refundedLate' = refundedLate \cup {t}
      BY <2>1, <2>8
    <3>4. dailyRisk' = SumOf(risk, booked) - SumOf(risk, refundedLate \cup {t})
      BY <3>2, <2>1, <2>6, <1>l, <1>s
    <3>5. DailyRiskLedger'
      BY <3>3, <3>4, <2>1, LedgerIsSums
    <3> QED BY <3>5, <2>3, <2>4, <2>5 DEF RiskInv
  <2> QED BY <2>7, <2>8
<1>3. CASE CheckDailyReset
  <2>1. /\ dailyRisk' = 0 /\ booked' = {} /\ refundedLate' = {}
        /\ UNCHANGED <<call, pair, risk, activeTrades>>
    BY <1>3 DEF CheckDailyReset, tradeVars
  <2>2. FiniteAccounts' /\ UnusedUnbooked' /\ LateHasFailed'
    BY <1>i, <2>1, FS_EmptySet DEF FiniteAccounts, UnusedUnbooked, LateHasFailed
  <2>3. SymbolRiskCap'
    BY <1>i, <2>1, <1>t, LeavingKeepsCap
  <2>4. DailyRiskLedger'
    <3>1. SumOf(risk, {}) = 0
      BY SumUnfolds, FS_EmptySet
    <3> QED BY <3>1, <2>1, LedgerIsSums
  <2> QED BY <2>2, <2>3, <2>4 DEF RiskInv
<1>4. ASSUME NEW t \in Trades, RefuseTrade(t) \/ CommitSucceeds(t) PROVE RiskInv'
  <2>1. Quiet(t)
    BY <1>4, <1>t DEF Quiet, RefuseTrade, CommitSucceeds, riskVars, TypeOK
  <2> QED BY <2>1, <1>0
<1>5. ASSUME NEW t \in Trades, CloseUnplaced(t) PROVE RiskInv'
  <2>1. Quiet(t)
    BY <1>5 DEF Quiet, CloseUnplaced, Record, riskVars
  <2> QED BY <2>1, <1>0
<1>6. ASSUME NEW c \in Closers, CloseAcknowledged(c) \/ CloseRefused(c) PROVE RiskInv'
  <2>1. Quiet(closing[c])
    BY <1>6 DEF Quiet, CloseAcknowledged, CloseRefused, Record, riskVars
  <2> QED BY <2>1, <1>0
<1>7. CASE UNCHANGED <<call, pair, risk, activeTrades, riskVars>>
  <2>1. Quiet(None)
    BY <1>7 DEF Quiet, riskVars
  <2> QED BY <2>1, <1>0
<1>8. ASSUME NEW c \in Closers, NEW t \in Trades, CloseTrade(c, t) PROVE RiskInv'
  BY <1>7, <1>8 DEF CloseTrade, tradeVars
<1>9. ASSUME NEW t \in Trades,
             IngestFill(t) \/ OrderSent(t) \/ OrderFilled(t) \/ PositionEnds(t)
      PROVE  RiskInv'
  BY <1>7, <1>9 DEF IngestFill, OrderSent, OrderFilled, PositionEnds, engineVars, tradeVars
<1>10. CASE NewDay \/ UNCHANGED vars
  BY <1>7, <1>10 DEF NewDay, engineVars, vars, tradeVars
<1> QED
  BY <1>1, <1>2, <1>3, <1>4, <1>5, <1>6, <1>8, <1>9, <1>10 DEF Next

(* The trades that are active on a pair never risk more than its cap,      *)
(* however many executions, refusals and closes are under way.             *)
THEOREM SymbolRiskStaysCapped == Spec => []SymbolRiskCap
<1>1. RiskInv => SymbolRiskCap
  BY DEF RiskInv
<1> QED
  BY <1>1, AccountsInitial, AccountsKept, IInvHolds, PTL DEF Spec

(* The daily risk is what was booked since the reset, less the refunds of  *)
(* orders booked before it, for any number of trades and days.             *)
THEOREM LedgerAlwaysBalances == Spec => []DailyRiskLedger
<1>1. RiskInv => DailyRiskLedger
  BY DEF RiskInv
<1> QED
  BY <1>1, AccountsInitial, AccountsKept, IInvHolds, PTL DEF Spec

-----------------------------------------------------------------------------
StageMap == [t \in Trades |-> Stage(t)]

(* A step that touches one trade moves the stage of that trade only.       *)
LEMMA StageElsewhere ==
  ASSUME NEW t \in Trades,
         \A u \in Trades \ {t} : /\ u \in activeTrades' <=> u \in activeTrades
                                 /\ u \in Recorded' <=> u \in Recorded
                                 /\ call'[u] = call[u]
  PROVE  StageMap' = [StageMap EXCEPT ![t] = Stage(t)']
<1>1. \A u \in Trades \ {t} : Stage(u)' = Stage(u)
  BY DEF Stage
<1> QED
  BY <1>1 DEF StageMap

(* A step that touches none moves no stage.                                *)
LEMMA StageSame ==
  ASSUME activeTrades' = activeTrades, Recorded' = Recorded, call' = call
  PROVE  StageMap' = StageMap
BY DEF StageMap, Stage

(* Recording an active trade closes it; recording it again does nothing.   *)
LEMMA StageRecorded ==
  ASSUME IInv, NEW t \in Trades, Record(t), call' = call,
         t \in activeTrades \/ t \in Recorded
  PROVE  \/ Stage(t) = "live" /\ StageMap' = [StageMap EXCEPT ![t] = "closed"]
         \/ StageMap' = StageMap
<1>1. Recorded' = Recorded \cup {t} /\ activeTrades' = activeTrades \ {t}
  BY RecordGrows DEF Record, IInv, TypeOK
<1>2. StageMap' = [StageMap EXCEPT ![t] = Stage(t)']
  BY <1>1, StageElsewhere
<1>3. Stage(t)' = "closed"
  BY <1>1 DEF Stage
<1>4. CASE t \in activeTrades
  BY <1>2, <1>3, <1>4 DEF Stage, IInv, ActiveOrRecorded
<1>5. CASE t \in Recorded
  <2>1. StageMap[t] = "closed"
    BY <1>5 DEF Stage, StageMap
  <2> QED BY <1>2, <1>3, <2>1 DEF StageMap
<1> QED
  BY <1>4, <1>5

LEMMA LifecycleInitial == Init => Lifecycle!Init
<1> SUFFICES ASSUME Init PROVE Lifecycle!Init
  OBVIOUS
<1>1. Recorded = {}
  BY DEF Init, Recorded
<1>2. \A t \in Trades : Stage(t) = "new"
  BY <1>1 DEF Init, Stage
<1> QED
  BY <1>2 DEF Lifecycle!Init

LEMMA LifecycleStep == IInv /\ IInv' /\ [Next]_vars => [Lifecycle!Next]_StageMap
<1> SUFFICES ASSUME IInv, IInv', [Next]_vars
             PROVE  Lifecycle!Next \/ StageMap' = StageMap
  OBVIOUS
<1> USE DEF Lifecycle!Next, Lifecycle!Admit, Lifecycle!Refuse, Lifecycle!Drop,
            Lifecycle!Close, StageMap
<1>1. ASSUME NEW t \in Trades, ExecuteTrade(t) PROVE Lifecycle!Next
  <2>1. /\ Recorded' = Recorded /\ activeTrades' = activeTrades \cup {t}
        /\ call' = [call EXCEPT ![t] = "placing"] /\ call[t] = "unused"
        /\ call \in [Trades -> Calls]
        /\ t \notin activeTrades /\ t \notin Recorded
    BY <1>1, SameHistory DEF ExecuteTrade, IInv, TypeOK, FreshIsClean
  <2>2. StageMap' = [StageMap EXCEPT ![t] = Stage(t)']
    BY <2>1, StageElsewhere
  <2>3. Stage(t) = "new" /\ Stage(t)' = "live"
    BY <2>1 DEF Stage
  <2> QED BY <2>2, <2>3
<1>2. ASSUME NEW t \in Trades, RefuseTrade(t) PROVE Lifecycle!Next
  <2>1. /\ Recorded' = Recorded /\ activeTrades' = activeTrades
        /\ call' = [call EXCEPT ![t] = "refused"] /\ call[t] = "unused"
        /\ call \in [Trades -> Calls]
        /\ t \notin activeTrades /\ t \notin Recorded
    BY <1>2, SameHistory DEF RefuseTrade, IInv, TypeOK, FreshIsClean
  <2>2. StageMap' = [StageMap EXCEPT ![t] = Stage(t)']
    BY <2>1, StageElsewhere
  <2>3. Stage(t) = "new" /\ Stage(t)' = "refused"
    BY <2>1 DEF Stage
  <2> QED BY <2>2, <2>3
<1>3. ASSUME NEW t \in Trades, CommitSucceeds(t) PROVE StageMap' = StageMap
  <2>1. /\ Recorded' = Recorded /\ activeTrades' = activeTrades
        /\ call' = [call EXCEPT ![t] = "placed"]
        /\ call \in [Trades -> Calls]
        /\ t \in activeTrades \cup Recorded
    BY <1>3, SameHistory DEF CommitSucceeds, IInv, TypeOK, MissingIsEarly, EarlyRecorded
  <2>2. \A u \in Trades : Stage(u)' = Stage(u)
    BY <2>1 DEF Stage
  <2> QED BY <2>2
<1>4. ASSUME NEW t \in Trades, CommitFails(t)
      PROVE  Lifecycle!Next \/ StageMap' = StageMap
  <2>1. /\ Recorded' = Recorded /\ activeTrades' = activeTrades \ {t}
        /\ call' = [call EXCEPT ![t] = "failed"]
        /\ call \in [Trades -> Calls]
        /\ t \in activeTrades \cup Recorded
        /\ t \in activeTrades => t \notin Recorded
    BY <1>4, SameHistory DEF CommitFails, IInv, TypeOK, MissingIsEarly, EarlyRecorded,
       ActiveOrRecorded
  <2>2. StageMap' = [StageMap EXCEPT ![t] = Stage(t)']
    BY <2>1, StageElsewhere
  <2>3. CASE t \in activeTrades
    <3>1. Stage(t) = "live" /\ Stage(t)' = "dropped"
      BY <2>1, <2>3 DEF Stage
    <3> QED BY <2>2, <3>1
  <2>4. CASE t \in Recorded
    <3>1. \A u \in Trades : Stage(u)' = Stage(u)
      BY <2>1, <2>4 DEF Stage
    <3> QED BY <3>1
  <2> QED BY <2>1, <2>3, <2>4
<1>5. ASSUME NEW t \in Trades, CloseUnplaced(t)
      PROVE  Lifecycle!Next \/ StageMap' = StageMap
  <2>1. Record(t) /\ call' = call /\ t \in activeTrades
    BY <1>5 DEF CloseUnplaced
  <2> QED BY <2>1, StageRecorded
<1>6. ASSUME NEW c \in Closers, CloseAcknowledged(c) \/ CloseRefused(c)
      PROVE  Lifecycle!Next \/ StageMap' = StageMap
  <2>1. /\ closing[c] \in Trades /\ Record(closing[c]) /\ call' = call
        /\ closing[c] \in activeTrades \cup Recorded
    BY <1>6 DEF CloseAcknowledged, CloseRefused, IInv, TypeOK, ClosersWaitForPlaced,
       ActiveOrRecorded
  <2> QED BY <2>1, StageRecorded
<1>7. CASE UNCHANGED <<call, activeTrades, tradingHistory>>
  BY <1>7, SameHistory, StageSame
<1>8. ASSUME NEW t \in Trades,
             IngestFill(t) \/ OrderSent(t) \/ OrderFilled(t) \/ PositionEnds(t)
      PROVE  UNCHANGED <<call, activeTrades, tradingHistory>>
  BY <1>8 DEF IngestFill, OrderSent, OrderFilled, PositionEnds, engineVars, tradeVars
<1>9. ASSUME NEW c \in Closers, NEW t \in Trades, CloseTrade(c, t)
      PROVE  UNCHANGED <<call, activeTrades, tradingHistory>>
  BY <1>9 DEF CloseTrade, tradeVars
<1>10. ASSUME CheckDailyReset \/ NewDay \/ UNCHANGED vars
       PROVE  UNCHANGED <<call, activeTrades, tradingHistory>>
  BY <1>10 DEF CheckDailyReset, NewDay, engineVars, tradeVars, vars
<1> QED
  BY <1>1, <1>2, <1>3, <1>4, <1>5, <1>6, <1>7, <1>8, <1>9, <1>10 DEF Next

(* The execution engine implements the life of a trade, for every value of *)
(* the constants.                                                          *)
THEOREM ImplementsLifecycle == Spec => LifecycleSpec
<1>1. Init => Lifecycle!Init
  BY LifecycleInitial
<1>2. IInv /\ IInv' /\ [Next]_vars => [Lifecycle!Next]_StageMap
  BY LifecycleStep
<1> QED
  BY <1>1, <1>2, IInvHolds, PTL DEF Spec, LifecycleSpec, Lifecycle!Spec, StageMap
=============================================================================
