----------------------- MODULE TradeProtection_proofs -----------------------
(***************************************************************************)
(* Proofs about TradeProtection, for any prices, distances, percentages    *)
(* rounded as in the code, and any number of overlapping passes.           *)
(***************************************************************************)
EXTENDS TradeProtection, TLAPS

Plan == [stop : Int, moved : BOOLEAN, trailing : BOOLEAN, early : BOOLEAN, trail : Nat]

(* Whoever waits for the broker has sent it a stop.                        *)
SentIsStop == \A w \in Passes : pass[w].phase = "modify" => pass[w].sent \in Int

IInv ==
  /\ TypeOK
  /\ SentIsStop
  /\ MovedMeansRiskFree

(* What every rule of a pass keeps when it turns the plan s into t.        *)
Safer(s, t) ==
  /\ t.stop >= s.stop \/ (t.stop >= 0 /\ t.moved)
  /\ s.moved => t.moved
  /\ (s.moved => s.stop >= 0) => (t.moved => t.stop >= 0)

USE PricesAssumption, DistancesAssumption, DecisionsAssumption, NoneAssumption

LEMMA PercentNat == ASSUME NEW p \in Nat, NEW a \in Nat PROVE Percent(p, a) \in Nat
<1>1. p * a + 50 \in Nat
  OBVIOUS
<1>2. ASSUME NEW n \in Nat PROVE n \div 100 \in Nat
  OBVIOUS
<1> QED
  BY <1>1, <1>2 DEF Percent

LEMMA DistNat == ASSUME NEW s \in Plan PROVE Dist(s) \in Nat
BY DEF Dist, Abs, Plan

LEMMA TightenedNat == ASSUME NEW s \in Plan PROVE Tightened(s) \in Nat
<1>1. s.trail \in Nat
  BY DEF Plan
<1>2. Percent(75, s.trail) \in Nat /\ Percent(22, Dist(s)) \in Nat
  BY <1>1, DistNat, PercentNat
<1> QED
  BY <1>2 DEF Tightened, Larger

(* Rules compose: what two of them keep, one after the other keeps.        *)
LEMMA SaferComposes ==
  ASSUME NEW s \in Plan, NEW t \in Plan, NEW u \in Plan, Safer(s, t), Safer(t, u)
  PROVE  Safer(s, u)
BY DEF Safer, Plan

LEMMA SaferSame == ASSUME NEW s \in Plan PROVE Safer(s, s)
BY DEF Safer, Plan

(* One field of a plan after the other.                                    *)
LEMMA StopTyped == ASSUME NEW s \in Plan, NEW n \in Int PROVE [s EXCEPT !.stop = n] \in Plan
BY DEF Plan

LEMMA MovedTyped == ASSUME NEW s \in Plan PROVE [s EXCEPT !.moved = TRUE] \in Plan
BY DEF Plan

LEMMA TrailingTyped == ASSUME NEW s \in Plan PROVE [s EXCEPT !.trailing = TRUE] \in Plan
BY DEF Plan

(* A stop moved to the entry or above it.                                  *)
LEMMA MovedIsSafer ==
  ASSUME NEW s \in Plan, NEW n \in Nat
  PROVE  LET t == [s EXCEPT !.stop = n, !.moved = TRUE] IN t \in Plan /\ Safer(s, t)
<1> DEFINE t == [s EXCEPT !.stop = n, !.moved = TRUE]
<1>1. t \in Plan
  <2>1. [s EXCEPT !.stop = n] \in Plan
    BY StopTyped
  <2> QED
    BY <2>1, MovedTyped
<1>2. t.stop = n /\ t.moved
  BY DEF Plan
<1> HIDE DEF t
<1>3. Safer(s, t)
  BY <1>2 DEF Safer
<1> QED
  BY <1>1, <1>3 DEF t

(* A stop that rises.                                                      *)
LEMMA RaisedIsSafer ==
  ASSUME NEW s \in Plan, NEW n \in Int, n >= s.stop
  PROVE  LET t == [s EXCEPT !.stop = n] IN t \in Plan /\ Safer(s, t)
BY DEF Plan, Safer

LEMMA DecidedIsSafer ==
  ASSUME NEW s \in Plan, NEW decision
  PROVE  Decided(s, decision) \in Plan /\ Safer(s, Decided(s, decision))
BY MovedIsSafer, SaferSame DEF Decided

LEMMA LockedIsSafer ==
  ASSUME NEW s \in Plan, NEW lock \in Nat
  PROVE  Locked(s, lock) \in Plan /\ Safer(s, Locked(s, lock))
<1>1. CASE lock > s.stop
  <2> DEFINE t == [s EXCEPT !.stop = lock, !.moved = TRUE, !.trailing = TRUE]
  <2>1. t \in Plan
    <3>1. [s EXCEPT !.stop = lock] \in Plan
      BY StopTyped
    <3>2. [s EXCEPT !.stop = lock, !.moved = TRUE] \in Plan
      BY <3>1, MovedTyped
    <3> QED
      BY <3>2, TrailingTyped
  <2>2. t.stop = lock /\ t.moved
    BY DEF Plan
  <2> HIDE DEF t
  <2>3. Safer(s, t)
    BY <2>2 DEF Safer
  <2> QED
    BY <1>1, <2>1, <2>3 DEF Locked, t
<1>2. CASE ~(lock > s.stop)
  <2> DEFINE t == [s EXCEPT !.trailing = TRUE]
  <2>1. t \in Plan
    BY DEF Plan
  <2>2. t.stop = s.stop /\ t.moved = s.moved /\ s.stop \in Int
    BY DEF Plan
  <2> HIDE DEF t
  <2>3. Safer(s, t)
    BY <2>2 DEF Safer
  <2> QED
    BY <1>2, <2>1, <2>3 DEF Locked, t
<1> QED
  BY <1>1, <1>2

LEMMA ProtectedIsSafer ==
  ASSUME NEW s \in Plan, NEW g \in Int
  PROVE  Protected(s, g) \in Plan /\ Safer(s, Protected(s, g))
<1>1. Percent(110, Dist(s)) \in Nat /\ Percent(35, Dist(s)) \in Nat
  BY DistNat, PercentNat
<1>2. /\ [s EXCEPT !.trail = Tightened(s)] \in Plan
      /\ Safer(s, [s EXCEPT !.trail = Tightened(s)])
  <2>1. ASSUME NEW n \in Nat
        PROVE  [s EXCEPT !.trail = n] \in Plan /\ Safer(s, [s EXCEPT !.trail = n])
    BY DEF Plan, Safer
  <2> QED
    BY <2>1, TightenedNat
<1>3. [s EXCEPT !.early = TRUE] \in Plan /\ Safer(s, [s EXCEPT !.early = TRUE])
  <2> DEFINE t == [s EXCEPT !.early = TRUE]
  <2>1. t \in Plan
    BY DEF Plan
  <2>2. t.stop = s.stop /\ t.moved = s.moved /\ s.stop \in Int
    BY DEF Plan
  <2> HIDE DEF t
  <2>3. Safer(s, t)
    BY <2>2 DEF Safer
  <2> QED
    BY <2>1, <2>3 DEF t
<1>4. CASE AtR(s, g, 220)
  <2>1. Protected(s, g) = Locked([s EXCEPT !.trail = Tightened(s)], Percent(110, Dist(s)))
    BY <1>4 DEF Protected
  <2> QED
    BY <2>1, <1>1, <1>2, LockedIsSafer, SaferComposes
<1>5. CASE ~AtR(s, g, 220) /\ AtR(s, g, 150)
  <2>1. Protected(s, g) = Locked([s EXCEPT !.early = TRUE], Percent(35, Dist(s)))
    BY <1>5 DEF Protected
  <2> QED
    BY <2>1, <1>1, <1>3, LockedIsSafer, SaferComposes
<1>6. CASE ~AtR(s, g, 220) /\ ~AtR(s, g, 150)
  BY <1>6, LockedIsSafer, SaferSame DEF Protected
<1> QED
  BY <1>4, <1>5, <1>6

LEMMA BrokenEvenIsSafer ==
  ASSUME NEW s \in Plan, NEW g \in Int
  PROVE  BrokenEven(s, g) \in Plan /\ Safer(s, BrokenEven(s, g))
BY MovedIsSafer, SaferSame DEF BrokenEven

LEMMA TrailedIsSafer ==
  ASSUME NEW s \in Plan, NEW g \in Int
  PROVE  Trailed(s, g) \in Plan /\ Safer(s, Trailed(s, g))
<1>1. g - s.trail \in Int /\ s.stop \in Int
  BY DEF Plan
<1> QED
  BY <1>1, RaisedIsSafer, SaferSame DEF Trailed

(* The rules of one pass, in their order.                                  *)
LEMMA ManagedIsSafer ==
  ASSUME NEW s \in Plan, NEW g \in Int, NEW a, NEW b
  PROVE  LET before == Protected(Decided(Decided(s, a), b), g)
             after  == Trailed(BrokenEven(before, g), g)
         IN after \in Plan /\ Safer(s, after)
<1> DEFINE d1 == Decided(s, a)
           d2 == Decided(d1, b)
           before == Protected(d2, g)
           even == BrokenEven(before, g)
           after == Trailed(even, g)
<1>1. d1 \in Plan /\ Safer(s, d1)
  BY DecidedIsSafer
<1>2. d2 \in Plan /\ Safer(d1, d2)
  BY <1>1, DecidedIsSafer
<1>3. before \in Plan /\ Safer(d2, before)
  BY <1>2, ProtectedIsSafer
<1>4. even \in Plan /\ Safer(before, even)
  BY <1>3, BrokenEvenIsSafer
<1>5. after \in Plan /\ Safer(even, after)
  BY <1>4, TrailedIsSafer
<1> HIDE DEF d1, d2, before, even, after
<1>6. Safer(s, d2)
  BY <1>1, <1>2, SaferComposes
<1>7. Safer(s, before)
  BY <1>2, <1>3, <1>6, SaferComposes
<1>8. Safer(s, even)
  BY <1>3, <1>4, <1>7, SaferComposes
<1>9. after \in Plan /\ Safer(s, after)
  BY <1>4, <1>5, <1>8, SaferComposes
<1> QED
  BY <1>9 DEF d1, d2, before, even, after

LEMMA IdleTyped == Idle \in PassType
BY DEF Idle, PassType

LEMMA ClosingTyped ==
  ASSUME NEW g \in Prices PROVE [Idle EXCEPT !.phase = "closing", !.price = g] \in PassType
BY DEF Idle, PassType

(* A pass that finishes or sends leaves a well-formed record, and sends an *)
(* integer.                                                                *)
LEMMA FinishTyped ==
  ASSUME NEW w \in Passes, NEW s, NEW g \in Prices \cup {None}, NEW managing \in BOOLEAN,
         pass \in [Passes -> PassType], Finish(w, s, g, managing)
  PROVE  /\ pass' \in [Passes -> PassType]
         /\ pass'[w].phase # "modify" /\ \A v \in Passes \ {w} : pass'[v] = pass[v]
<1> DEFINE closing == [Idle EXCEPT !.phase = "closing", !.price = g]
<1>1. pass' = [pass EXCEPT ![w] = closing] \/ pass' = [pass EXCEPT ![w] = Idle]
  BY DEF Finish, Become
<1>2. closing \in PassType /\ closing.phase # "modify"
  BY DEF Idle, PassType
<1>3. Idle \in PassType /\ Idle.phase # "modify"
  BY DEF Idle, PassType
<1> HIDE DEF closing
<1> QED
  BY <1>1, <1>2, <1>3

LEMMA SyncTyped ==
  ASSUME NEW w \in Passes, NEW s \in Plan, NEW g \in Prices, NEW managing \in BOOLEAN,
         pass \in [Passes -> PassType], Sync(w, s, g, managing)
  PROVE  /\ pass' \in [Passes -> PassType]
         /\ pass'[w].phase = "modify" => pass'[w].sent \in Int
         /\ \A v \in Passes \ {w} : pass'[v] = pass[v]
<1> DEFINE sending == [phase |-> "modify", price |-> g, sent |-> s.stop, managing |-> managing]
<1>1. CASE Finish(w, s, g, managing)
  BY <1>1, FinishTyped
<1>2. CASE pass' = [pass EXCEPT ![w] = sending]
  <2>1. sending \in PassType /\ sending.sent \in Int
    BY DEF PassType, Plan
  <2> HIDE DEF sending
  <2> QED
    BY <1>2, <2>1
<1> QED
  BY <1>1, <1>2 DEF Sync, Become

(* Every step keeps the invariant, and what the rules keep.                *)
LEMMA Inductive == IInv /\ [Next]_vars => IInv' /\ Safer(prot, prot')
<1> SUFFICES ASSUME IInv, [Next]_vars PROVE IInv' /\ Safer(prot, prot')
  OBVIOUS
<1> USE DEF IInv
<1>0. /\ prot \in Plan /\ pass \in [Passes -> PassType]
      /\ Safer(prot, prot)
  BY SaferSame DEF TypeOK, Plan
<1>1. ASSUME NEW w \in Passes, NEW g \in Prices, NEW a, NEW b, Manage(w, g, a, b)
      PROVE  IInv' /\ Safer(prot, prot')
  <2>1. prot' \in Plan /\ Safer(prot, prot')
    BY <1>0, <1>1, ManagedIsSafer DEF Manage
  <2>2. Sync(w, prot', g, TRUE) \/ Finish(w, prot', g, TRUE)
    BY <1>1 DEF Manage
  <2>3. /\ pass' \in [Passes -> PassType]
        /\ pass'[w].phase = "modify" => pass'[w].sent \in Int
        /\ \A v \in Passes \ {w} : pass'[v] = pass[v]
    BY <1>0, <2>1, <2>2, SyncTyped, FinishTyped
  <2>4. UNCHANGED <<open, brokerStop, lastSent, throttled>>
    BY <1>1 DEF Manage, broker
  <2> QED
    BY <2>1, <2>3, <2>4 DEF TypeOK, SentIsStop, MovedMeansRiskFree, Safer, Plan
<1>2. ASSUME NEW w \in Passes, NEW g \in Prices, NEW pressure \in BOOLEAN, Reduce(w, g, pressure)
      PROVE  IInv' /\ Safer(prot, prot')
  <2> DEFINE next == IF pressure THEN Reduced(g, 12, 22) ELSE Reduced(g, 6, 15)
  <2>1. next \in Int
    <3>1. \A p \in {6, 12, 15, 22} : Percent(p, Dist(prot)) \in Nat
      BY <1>0, DistNat, PercentNat
    <3>2. prot.stop \in Int
      BY <1>0 DEF Plan
    <3> QED
      BY <3>1, <3>2 DEF Reduced, Larger, Smaller
  <2> HIDE DEF next
  <2>2. CASE prot' = [prot EXCEPT !.stop = next] /\ next > prot.stop /\ Sync(w, prot', g, FALSE)
    <3>1. prot.stop \in Int
      BY <1>0 DEF Plan
    <3>2. prot' \in Plan /\ Safer(prot, prot')
      BY <1>0, <2>1, <2>2, <3>1, RaisedIsSafer
    <3>3. /\ pass' \in [Passes -> PassType]
          /\ pass'[w].phase = "modify" => pass'[w].sent \in Int
          /\ \A v \in Passes \ {w} : pass'[v] = pass[v]
      BY <1>0, <2>2, <3>2, SyncTyped
    <3>4. UNCHANGED <<open, brokerStop, lastSent, throttled>>
      BY <1>2 DEF Reduce, broker
    <3> QED
      BY <3>2, <3>3, <3>4 DEF TypeOK, SentIsStop, MovedMeansRiskFree, Safer, Plan
  <2>3. CASE prot' = prot /\ pass' = [pass EXCEPT ![w] = Idle]
    <3>1. UNCHANGED <<open, brokerStop, lastSent, throttled>>
      BY <1>2 DEF Reduce, broker
    <3>2. Idle \in PassType /\ Idle.phase # "modify"
      BY IdleTyped DEF Idle
    <3> QED
      BY <1>0, <2>3, <3>1, <3>2 DEF TypeOK, SentIsStop, MovedMeansRiskFree
  <2> QED
    BY <1>2, <2>2, <2>3 DEF Reduce, Become, next
<1>3. ASSUME NEW w \in Passes, NEW a \in Decisions, DecideClose(w, a)
      PROVE  IInv' /\ Safer(prot, prot')
  <2>1. prot' \in Plan /\ Safer(prot, prot')
    BY <1>0, <1>3, DecidedIsSafer DEF DecideClose
  <2>2. /\ pass' = [pass EXCEPT ![w] = [Idle EXCEPT !.phase = "closing"]]
        /\ UNCHANGED <<open, brokerStop, lastSent, throttled>>
    BY <1>3 DEF DecideClose, Become, broker
  <2>3. [Idle EXCEPT !.phase = "closing"] \in PassType /\ [Idle EXCEPT !.phase = "closing"].phase # "modify"
    BY DEF Idle, PassType
  <2> QED
    BY <1>0, <2>1, <2>2, <2>3 DEF TypeOK, SentIsStop, MovedMeansRiskFree, Safer, Plan
<1>4. ASSUME NEW w \in Passes, NEW managing \in BOOLEAN, AskPrice(w, managing)
      PROVE  IInv' /\ Safer(prot, prot')
  <2> DEFINE asking == [Idle EXCEPT !.phase = "price", !.managing = managing]
  <2>1. /\ pass' = [pass EXCEPT ![w] = asking]
        /\ UNCHANGED <<open, prot, brokerStop, lastSent, throttled>>
    BY <1>4 DEF AskPrice, Become, broker
  <2>2. asking \in PassType /\ asking.phase # "modify"
    BY DEF Idle, PassType
  <2> HIDE DEF asking
  <2> QED
    BY <1>0, <2>1, <2>2 DEF TypeOK, SentIsStop, MovedMeansRiskFree
<1>5. ASSUME NEW w \in Passes, PriceFails(w) \/ Close(w) \/ ModifyThrows(w)
      PROVE  IInv' /\ Safer(prot, prot')
  <2>1. /\ pass' = [pass EXCEPT ![w] = Idle] /\ open' \in BOOLEAN
        /\ UNCHANGED <<prot, brokerStop, lastSent, throttled>>
    BY <1>5 DEF PriceFails, Close, ModifyThrows, Become, broker, TypeOK
  <2>2. Idle.phase # "modify"
    BY DEF Idle
  <2> QED
    BY <1>0, <2>1, <2>2, IdleTyped DEF TypeOK, SentIsStop, MovedMeansRiskFree
<1>6. ASSUME NEW w \in Passes, Applied(w)
      PROVE  IInv' /\ Safer(prot, prot')
  <2> DEFINE answered == [pass[w] EXCEPT !.phase = "answer"]
  <2>1. /\ pass[w].phase = "modify" /\ brokerStop' = pass[w].sent
        /\ pass' = [pass EXCEPT ![w] = answered]
        /\ UNCHANGED <<open, prot, lastSent, throttled>>
    BY <1>6 DEF Applied, Become
  <2>2. answered \in PassType /\ answered.phase # "modify"
    BY <1>0 DEF PassType
  <2> HIDE DEF answered
  <2> QED
    BY <1>0, <2>1, <2>2 DEF TypeOK, SentIsStop, MovedMeansRiskFree
<1>7. ASSUME NEW w \in Passes, Answered(w) \/ ModifyFails(w)
      PROVE  IInv' /\ Safer(prot, prot')
  <2>1. /\ throttled' = TRUE /\ lastSent' \in {lastSent, pass[w].sent}
        /\ Finish(w, prot, pass[w].price, pass[w].managing)
        /\ UNCHANGED <<open, prot, brokerStop>>
    BY <1>7 DEF Answered, ModifyFails
  <2>2. /\ pass[w].price \in Prices \cup {None} /\ pass[w].managing \in BOOLEAN
        /\ pass[w].sent \in Int \cup {None}
    BY <1>0 DEF PassType
  <2>3. /\ pass' \in [Passes -> PassType] /\ pass'[w].phase # "modify"
        /\ \A v \in Passes \ {w} : pass'[v] = pass[v]
    <3> DEFINE g == pass[w].price
               m == pass[w].managing
    <3>1. g \in Prices \cup {None} /\ m \in BOOLEAN /\ Finish(w, prot, g, m)
      BY <2>1, <2>2
    <3> HIDE DEF g, m
    <3> QED
      BY <1>0, <3>1, FinishTyped
  <2> QED
    BY <1>0, <2>1, <2>2, <2>3 DEF TypeOK, SentIsStop, MovedMeansRiskFree
<1>8. ASSUME ThrottleEnds \/ UNCHANGED vars
      PROVE  IInv' /\ Safer(prot, prot')
  BY <1>0, <1>8 DEF ThrottleEnds, vars, broker, TypeOK, SentIsStop, MovedMeansRiskFree
<1> QED
  BY <1>1, <1>2, <1>3, <1>4, <1>5, <1>6, <1>7, <1>8 DEF Next, Rules

LEMMA Initial == Init => IInv
<1> SUFFICES ASSUME Init PROVE IInv
  OBVIOUS
<1>1. prot \in [stop : Int, moved : BOOLEAN, trailing : BOOLEAN, early : BOOLEAN, trail : Nat]
  BY DEF Init
<1>2. pass \in [Passes -> PassType] /\ \A w \in Passes : pass[w].phase = "idle"
  BY IdleTyped DEF Init, Idle
<1>3. ~prot.moved
  BY DEF Init
<1> QED
  BY <1>1, <1>2, <1>3 DEF Init, IInv, TypeOK, SentIsStop, MovedMeansRiskFree

(* The inductive invariant holds in every reachable state.                 *)
THEOREM IInvHolds == Spec => []IInv
<1> QED
  BY Initial, Inductive, PTL DEF Spec

(* The stop, the trailing plan and the requests keep their types, rounding *)
(* included.                                                               *)
THEOREM TypeCorrect == Spec => []TypeOK
<1>1. IInv => TypeOK
  BY DEF IInv
<1> QED
  BY <1>1, IInvHolds, PTL

(* A trade marked movedToBreakeven is free of risk: no rule that runs      *)
(* later, and no stale price, takes its stop below the entry.              *)
THEOREM MovedIsRiskFree == Spec => []MovedMeansRiskFree
<1>1. IInv => MovedMeansRiskFree
  BY DEF IInv
<1> QED
  BY <1>1, IInvHolds, PTL

(* No step of any pass takes the stop further below the entry, and what it *)
(* gives back of a locked profit it gives back by a move to breakeven.     *)
THEOREM RiskOnlyFalls == Spec => RiskNeverGrows
<1>1. IInv /\ [Next]_vars => [prot'.stop >= prot.stop \/ (prot'.stop >= 0 /\ prot'.moved)]_vars
  BY Inductive DEF Safer
<1> QED
  BY <1>1, IInvHolds, PTL DEF Spec, RiskNeverGrows
=============================================================================
