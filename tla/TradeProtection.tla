--------------------------- MODULE TradeProtection ---------------------------
(***************************************************************************)
(* How the monitoring passes protect one open trade: five rules of         *)
(* manageActiveTrades and the live-context reduction move the stop, and    *)
(* some moves are sent to the broker.  A pass waits for a price and for    *)
(* the broker, and the interval starts the next pass in the meantime.      *)
(*                                                                         *)
(* Prices are ticks of gain: entry is 0 and up is profit, so that a SELL   *)
(* is the mirror image of a BUY.  R is the distance of entry and stop in   *)
(* hundredths.  Which adaptive and supervisor decisions are taken depends  *)
(* on momentum, age and news, and is left open.                            *)
(***************************************************************************)
EXTENDS Integers

CONSTANTS Passes,     \* passes that may overlap
          Prices,     \* gains a price can show
          Decisions,  \* what momentum, age and news may demand of the stop
          Risk,       \* distance of the initial stop
          Target,     \* distance of the take profit
          TrailDist,  \* trailingStop.trailingDistance
          Step,       \* trailingStop.stepDistance
          None

ASSUME PricesAssumption == Prices \subseteq Int
ASSUME DistancesAssumption ==
  Risk \in Nat \ {0} /\ Target \in Nat \ {0} /\ TrailDist \in Nat \ {0} /\ Step \in Nat
ASSUME DecisionsAssumption == Decisions \subseteq {"none", "breakeven"}
ASSUME NoneAssumption == None \notin Int

VARIABLES
  open,        \* the trade is in activeTrades
  prot,        \* its stop, movedToBreakeven and trailing plan
  pass,        \* what each pass is doing
  brokerStop,  \* the stop that the broker has
  lastSent,    \* lastBrokerStopLossSent
  throttled    \* lastBrokerModifyAt is less than 1.5 s ago

vars   == <<open, prot, pass, brokerStop, lastSent, throttled>>
broker == <<brokerStop, lastSent, throttled>>

Idle == [phase |-> "idle", price |-> None, sent |-> None, managing |-> FALSE]

Larger(a, b)  == IF a >= b THEN a ELSE b
Smaller(a, b) == IF a <= b THEN a ELSE b
Abs(a)        == IF a >= 0 THEN a ELSE -a
Percent(p, a) == (p * a + 50) \div 100

Dist(s)     == Abs(s.stop)
AtR(s, g, r) == Dist(s) > 0 /\ 100 * g >= r * Dist(s)

-----------------------------------------------------------------------------
(* The rules of manageActiveTrades, in their order.                        *)

(* An adaptive or a supervisor decision moves the stop to the entry.       *)
Decided(s, decision) ==
  IF decision = "breakeven" /\ s.stop # 0 THEN [s EXCEPT !.stop = 0, !.moved = TRUE] ELSE s

Tightened(s) == Larger(Percent(75, s.trail), Percent(22, Dist(s)))

(* applySmartProfitProtection locks profit at 2.2R, 1.5R and 1R.           *)
Locked(s, lock) ==
  IF lock > s.stop THEN [s EXCEPT !.stop = lock, !.moved = TRUE, !.trailing = TRUE]
                   ELSE [s EXCEPT !.trailing = TRUE]

Protected(s, g) ==
  IF AtR(s, g, 220)      THEN Locked([s EXCEPT !.trail = Tightened(s)], Percent(110, Dist(s)))
  ELSE IF AtR(s, g, 150) THEN Locked([s EXCEPT !.early = TRUE], Percent(35, Dist(s)))
  ELSE IF AtR(s, g, 100) THEN Locked(s, 0)
  ELSE s

(* Mutant: the flag is set and the stop is not, because trailing is to     *)
(* move it.                                                                *)
BrokenEvenFlagOnly(s, g) ==
  IF ~s.moved /\ 100 * Abs(g) >= (IF s.early THEN 35 ELSE 50) * Target
    THEN [s EXCEPT !.moved = TRUE] ELSE s

(* shouldMoveToBreakeven looks at the distance, whichever way it goes.     *)
BrokenEven(s, g) ==
  IF ~s.moved /\ 100 * Abs(g) >= (IF s.early THEN 35 ELSE 50) * Target
    THEN [s EXCEPT !.stop = 0, !.moved = TRUE] ELSE s

Trailed(s, g) ==
  LET next == g - s.trail IN
  IF s.trailing /\ 100 * g >= 60 * Target /\ next > s.stop /\ next - s.stop >= Step
    THEN [s EXCEPT !.stop = next] ELSE s

ShouldClose(s, g) == g <= s.stop \/ g >= Target

-----------------------------------------------------------------------------
Init ==
  /\ open = TRUE
  /\ prot = [stop |-> -Risk, moved |-> FALSE, trailing |-> TRUE, early |-> FALSE, trail |-> TrailDist]
  /\ pass = [w \in Passes |-> Idle]
  /\ brokerStop = -Risk /\ lastSent = None /\ throttled = FALSE

Become(w, rec) == pass' = [pass EXCEPT ![w] = rec]

(* A pass asks for the price of the trade.                                 *)
AskPrice(w, managing) ==
  /\ open /\ pass[w].phase = "idle"
  /\ Become(w, [Idle EXCEPT !.phase = "price", !.managing = managing])
  /\ UNCHANGED <<open, prot, broker>>

PriceFails(w) ==
  /\ pass[w].phase = "price"
  /\ Become(w, Idle)
  /\ UNCHANGED <<open, prot, broker>>

(* syncBrokerProtection sends the stop, unless it sent one lately or the   *)
(* broker has confirmed the same; the test for the close follows at once   *)
(* or after the answer.                                                    *)
Finish(w, s, g, managing) ==
  Become(w, IF managing /\ open /\ ShouldClose(s, g) THEN [Idle EXCEPT !.phase = "closing", !.price = g] ELSE Idle)

(* Mutant: the stop and the price change places in the request.            *)
SyncSwapped(w, s, g, managing) ==
  IF throttled \/ lastSent = s.stop
    THEN Finish(w, s, g, managing)
    ELSE Become(w, [phase |-> "modify", price |-> s.stop, sent |-> g, managing |-> managing])

Sync(w, s, g, managing) ==
  IF throttled \/ lastSent = s.stop
    THEN Finish(w, s, g, managing)
    ELSE Become(w, [phase |-> "modify", price |-> g, sent |-> s.stop, managing |-> managing])

(* The price arrives and the rules run.  Only what the last two rules      *)
(* change is sent to the broker.                                           *)
Manage(w, g, adaptive, supervision) ==
  LET decided == Decided(Decided(prot, adaptive), supervision)
      before  == Protected(decided, g)
      after   == Trailed(BrokenEven(before, g), g)
  IN /\ pass[w].phase = "price" /\ pass[w].managing
     /\ adaptive = "breakeven" => Dist(prot) > 0
     /\ prot' = after
     /\ IF after.stop # before.stop THEN Sync(w, after, g, TRUE) ELSE Finish(w, after, g, TRUE)
     /\ UNCHANGED <<open, broker>>

(* An adaptive, supervisor, smart or live-context decision closes it; the  *)
(* adaptive one may have moved the stop already.                           *)
DecideClose(w, adaptive) ==
  /\ pass[w].phase = "price"
  /\ adaptive = "breakeven" => pass[w].managing /\ Dist(prot) > 0
  /\ prot' = Decided(prot, adaptive)
  /\ Become(w, [Idle EXCEPT !.phase = "closing"])
  /\ UNCHANGED <<open, broker>>

(* computeReduceStopLoss *)
Reduced(g, lock, gap) ==
  LET d == Dist(prot) IN Larger(prot.stop, Smaller(Percent(lock, d), g - Percent(gap, d)))

(* Mutant: the new stop is not compared with the present one.              *)
ReduceUnclamped(w, g, pressure) ==
  LET d    == Dist(prot)
      next == IF pressure THEN Smaller(Percent(12, d), g - Percent(22, d))
                          ELSE Smaller(Percent(6, d), g - Percent(15, d))
      s    == [prot EXCEPT !.stop = next]
  IN /\ pass[w].phase = "price" /\ ~pass[w].managing
     /\ IF d > 0 /\ next < g
          THEN prot' = s /\ Sync(w, s, g, FALSE)
          ELSE UNCHANGED prot /\ Become(w, Idle)
     /\ UNCHANGED <<open, broker>>

(* applyLiveContextDecision for REDUCE.  It does not set movedToBreakeven. *)
Reduce(w, g, pressure) ==
  LET next == IF pressure THEN Reduced(g, 12, 22) ELSE Reduced(g, 6, 15)
      s    == [prot EXCEPT !.stop = next]
  IN /\ pass[w].phase = "price" /\ ~pass[w].managing
     /\ IF Dist(prot) > 0 /\ next > prot.stop /\ next < g
          THEN prot' = s /\ Sync(w, s, g, FALSE)
          ELSE UNCHANGED prot /\ Become(w, Idle)
     /\ UNCHANGED <<open, broker>>

-----------------------------------------------------------------------------
(* The broker sets the stop; its answer comes, is negative, or is lost.    *)
Applied(w) ==
  /\ pass[w].phase = "modify"
  /\ brokerStop' = pass[w].sent
  /\ Become(w, [pass[w] EXCEPT !.phase = "answer"])
  /\ UNCHANGED <<open, prot, lastSent, throttled>>

Answered(w) ==
  /\ pass[w].phase = "answer"
  /\ lastSent' = pass[w].sent /\ throttled' = TRUE
  /\ Finish(w, prot, pass[w].price, pass[w].managing)
  /\ UNCHANGED <<open, prot, brokerStop>>

ModifyFails(w) ==
  /\ pass[w].phase \in {"modify", "answer"}
  /\ throttled' = TRUE
  /\ Finish(w, prot, pass[w].price, pass[w].managing)
  /\ UNCHANGED <<open, prot, brokerStop, lastSent>>

(* The request throws: the pass is over with the trade, without a test for *)
(* the close, and nothing is noted of the request.                         *)
ModifyThrows(w) ==
  /\ pass[w].phase \in {"modify", "answer"}
  /\ Become(w, Idle)
  /\ UNCHANGED <<open, prot, broker>>

ThrottleEnds ==
  /\ throttled /\ throttled' = FALSE
  /\ UNCHANGED <<open, prot, pass, brokerStop, lastSent>>

(* closeTrade has asked the broker and takes the trade out.                *)
Close(w) ==
  /\ pass[w].phase = "closing"
  /\ open' = FALSE
  /\ Become(w, Idle)
  /\ UNCHANGED <<prot, broker>>

Rules(w) == \E g \in Prices : \/ \E a, s \in Decisions : Manage(w, g, a, s)
                              \/ \E pressure \in BOOLEAN : Reduce(w, g, pressure)

Next ==
  \/ \E w \in Passes : \/ \E managing \in BOOLEAN : AskPrice(w, managing)
                       \/ \E a \in Decisions : DecideClose(w, a)
                       \/ Rules(w) \/ PriceFails(w)
                       \/ Applied(w) \/ Answered(w) \/ ModifyFails(w) \/ ModifyThrows(w)
                       \/ Close(w)
  \/ ThrottleEnds

Spec == Init /\ [][Next]_vars

(* Passes come again and again, the broker does not refuse for ever, and   *)
(* time passes.                                                            *)
Fairness ==
  /\ \A w \in Passes : /\ WF_vars(AskPrice(w, TRUE)) /\ SF_vars(Rules(w))
                       /\ SF_vars(Applied(w)) /\ SF_vars(Answered(w)) /\ WF_vars(Close(w))
  /\ WF_vars(ThrottleEnds)

FairSpec == Spec /\ Fairness

-----------------------------------------------------------------------------
PassType == [phase : {"idle", "price", "modify", "answer", "closing"},
             price : Prices \cup {None}, sent : Int \cup {None}, managing : BOOLEAN]

TypeOK ==
  /\ open \in BOOLEAN /\ throttled \in BOOLEAN
  /\ prot \in [stop : Int, moved : BOOLEAN, trailing : BOOLEAN, early : BOOLEAN, trail : Nat]
  /\ pass \in [Passes -> PassType]
  /\ brokerStop \in Int /\ lastSent \in Int \cup {None}

(* The risk of a trade never grows: below the entry the stop only rises,   *)
(* and once it has reached the entry it never falls below it again,        *)
(* whatever rule moves it and however stale the price of a pass is.        *)
(* Profit that was locked above the entry may be given back as far as the  *)
(* entry, but only by a rule that declares the trade moved to breakeven.   *)
RiskNeverGrows ==
  [][prot'.stop >= prot.stop \/ (prot'.stop >= 0 /\ prot'.moved)]_vars

(* movedToBreakeven is true only of a trade whose stop has reached the     *)
(* entry; the rule that it switches off is then not needed any more.       *)
MovedMeansRiskFree == prot.moved => prot.stop >= 0

(* What the documents say and the code does not keep.                      *)
(* "Move SL to breakeven when price reaches 50% of TP distance": the rule  *)
(* runs on the way to the target and not on the way to the stop.           *)
BreakevenTowardsTarget ==
  [][\A w \in Passes : (~prot.moved /\ prot'.moved /\ pass'[w].phase = "modify")
        => pass'[w].price > 0]_vars

(* "required for broker-side breakeven/trailing stop updates": a stop that *)
(* was moved to breakeven is sent to the broker, sooner or later.          *)
BreakevenReachesBroker == prot.moved ~> (brokerStop >= 0 \/ ~open)
=============================================================================
