----------------------------- MODULE AutoTrader -----------------------------
(***************************************************************************)
(* The trade manager: it switches auto-trading on and off per broker, runs *)
(* the scheduled signal scan and the debounced realtime executions, and    *)
(* keeps the two intervals.  The execution engine appears through the life *)
(* of a trade it implements, TradeLifecycle.                               *)
(*                                                                         *)
(* JavaScript runs one callback at a time: turn names the scan or flush    *)
(* that is in the middle of a synchronous stretch of code, and is None     *)
(* when everything waits.  Scores, prices and confidence are data: which   *)
(* signals are good enough, and how they rank, is left open.               *)
(***************************************************************************)
EXTENDS Integers, FiniteSets

CONSTANTS Trades, Pairs, Brokers,
          EaOnlyBrokers,        \* brokers whose orders the terminal executes
          Cycles,               \* scans that may run at once
          Flushes,              \* realtime flushes that may run at once
          MaxConcurrentTrades,  \* config.maxConcurrentTrades
          MaxNewTradesPerCycle, \* autoTrading.maxNewTradesPerCycle
          MaxStarts,            \* bound: calls of startAutoTrading that wait at once
          None

ASSUME LimitsAssumption == /\ MaxConcurrentTrades \in Nat \ {0}
                           /\ MaxNewTradesPerCycle \in Nat \ {0}
                           /\ MaxStarts \in Nat
ASSUME BrokersAssumption == EaOnlyBrokers \subseteq Brokers
ASSUME WorkersAssumption == /\ Cycles \cap Flushes = {}
                            /\ None \notin Cycles \cup Flushes \cup Trades \cup Brokers

VARIABLES
  stage,       \* the life of each trade, as in TradeLifecycle
  pair,        \* trade.pair
  filled,      \* trades whose status reconciliation has set to 'filled'
  verdicts,    \* <<broker, pair>> of which a signal was found valid
  enabled,     \* autoTradingEnabledByBroker, the brokers that are on
  starting,    \* how many calls of startAutoTrading wait for each broker
  monitoring,  \* monitoringInterval is set
  generating,  \* signalGenerationInterval is set
  candidates,  \* realtimeCandidatesByBroker
  timer,       \* brokers with a pending realtimeFlushTimer
  cooldown,    \* <<broker, pair>> within realtimeTradeCooldownMs of an open
  work,        \* what each scan and flush is doing
  turn         \* who is running, None at the event loop

vars == <<stage, pair, filled, verdicts, enabled, starting, monitoring, generating,
          candidates, timer, cooldown, work, turn>>
engine    == <<stage, pair, filled, verdicts>>
switches  == <<enabled, starting, monitoring, generating>>
realtime  == <<candidates, timer, cooldown>>

Workers == Cycles \cup Flushes
Phases  == {"idle", "brokers", "connect", "scan", "execute", "await"}
Idle    == [phase |-> "idle", todo |-> {}, broker |-> None, pairs |-> {},
            cands |-> {}, opened |-> 0, trade |-> None]

Life == INSTANCE TradeLifecycle

live == {t \in Trades : stage[t] = "live"}

(* hasOpenTradeForPair looks for status 'open', not for 'filled'.          *)
HasOpenTradeForPair(p) == \E t \in live \ filled : pair[t] = p

(* validateSignal's risk limit, looked at while a signal is analysed.      *)
WithinRiskLimit == Cardinality(live) < MaxConcurrentTrades

-----------------------------------------------------------------------------
Init ==
  /\ Life!Init
  /\ pair = [t \in Trades |-> None] /\ filled = {} /\ verdicts = {}
  /\ enabled = {} /\ starting = [b \in Brokers |-> 0] /\ monitoring = FALSE /\ generating = FALSE
  /\ candidates = [b \in Brokers |-> {}] /\ timer = {} /\ cooldown = {}
  /\ work = [w \in Workers |-> Idle] /\ turn = None

Become(w, rec) == work' = [work EXCEPT ![w] = rec]

(* An analysis finds a signal valid.  The awaits after the verdict and the *)
(* cache of the signal factory lie between it and the gate or the queue,   *)
(* where the limit is not looked at again: from here on the signal may     *)
(* arrive, at any time or never, whatever has been opened since.           *)
Analyse(b, p) ==
  /\ turn = None /\ <<b, p>> \notin verdicts
  /\ WithinRiskLimit
  /\ verdicts' = verdicts \cup {<<b, p>>}
  /\ UNCHANGED <<stage, pair, filled, switches, realtime, work, turn>>

-----------------------------------------------------------------------------
(* checkForNewSignals: the enabled brokers are listed once, then visited.  *)
Begin(on) == [Idle EXCEPT !.phase = "brokers", !.todo = on]

CycleTick(c) ==
  /\ turn = None /\ generating /\ enabled # {}
  /\ work[c].phase = "idle"
  /\ UNCHANGED <<engine, switches, realtime>>
  /\ Become(c, Begin(enabled)) /\ turn' = c

(* A broker switched off meanwhile is skipped.                             *)
CycleBroker(c, b) ==
  /\ turn = c /\ work[c].phase = "brokers" /\ b \in work[c].todo
  /\ IF b \in enabled
       THEN /\ Become(c, [work[c] EXCEPT !.todo = @ \ {b}, !.broker = b, !.phase = "connect"])
            /\ turn' = None
       ELSE /\ Become(c, [work[c] EXCEPT !.todo = @ \ {b}])
            /\ turn' = c
  /\ UNCHANGED <<engine, switches, realtime>>

CycleConnected(c) ==
  /\ turn = None /\ work[c].phase = "connect"
  /\ \/ /\ Become(c, [work[c] EXCEPT !.phase = "scan", !.pairs = Pairs, !.cands = {}, !.opened = 0])
        /\ turn' = None
     \/ /\ Become(c, [work[c] EXCEPT !.phase = "brokers"])    \* not connected
        /\ turn' = c
  /\ UNCHANGED <<engine, switches, realtime>>

(* evaluateExecutionGate, for a signal that enters.                        *)
Gate(b, p) == <<b, p>> \in verdicts /\ ~HasOpenTradeForPair(p)

(* The signal of one pair arrives: it passes the gate or it does not.  The *)
(* last pair is followed at once by the ranking and the first execution.   *)
CycleSignal(c, p) ==
  LET left == work[c].pairs \ {p} IN
  /\ turn = None /\ work[c].phase = "scan" /\ p \in work[c].pairs
  /\ \E pass \in IF Gate(work[c].broker, p) THEN BOOLEAN ELSE {FALSE} :
        Become(c, [work[c] EXCEPT !.pairs = left,
                                  !.cands = IF pass THEN @ \cup {p} ELSE @,
                                  !.phase = IF left = {} THEN "execute" ELSE "scan"])
  /\ turn' = IF left = {} THEN c ELSE None
  /\ UNCHANGED <<engine, switches, realtime>>

-----------------------------------------------------------------------------
(* enqueueRealtimeSignal, for a signal with a valid verdict.               *)
Enqueue(b, p) ==
  /\ turn = None
  /\ b \in enabled /\ Gate(b, p)
  /\ <<b, p>> \notin cooldown
  /\ candidates' = [candidates EXCEPT ![b] = @ \cup {p}]
  /\ timer' = timer \cup {b}
  /\ UNCHANGED <<engine, switches, cooldown, work, turn>>

CooldownEnds(b, p) ==
  /\ turn = None /\ <<b, p>> \in cooldown
  /\ cooldown' = cooldown \ {<<b, p>>}
  /\ UNCHANGED <<engine, switches, candidates, timer, work, turn>>

(* Mutant: the flush of a broker that is off leaves its candidates.        *)
FlushFiresForgets(f, b) ==
  /\ turn = None /\ b \in timer /\ work[f].phase = "idle"
  /\ timer' = timer \ {b}
  /\ Become(f, IF b \in enabled THEN [Idle EXCEPT !.phase = "connect", !.broker = b] ELSE Idle)
  /\ UNCHANGED <<engine, switches, candidates, cooldown, turn>>

(* flushRealtimeSignalsForBroker up to its first await.                    *)
FlushFires(f, b) ==
  /\ turn = None /\ b \in timer /\ work[f].phase = "idle"
  /\ timer' = timer \ {b}
  /\ IF b \in enabled
       THEN /\ Become(f, [Idle EXCEPT !.phase = "connect", !.broker = b])
            /\ UNCHANGED candidates
       ELSE /\ candidates' = [candidates EXCEPT ![b] = {}]
            /\ UNCHANGED work
  /\ UNCHANGED <<engine, switches, cooldown, turn>>

(* Mutant: the candidates are read but not taken out of the map.           *)
FlushConnectedKeeps(f) ==
  LET b == work[f].broker IN
  /\ turn = None /\ work[f].phase = "connect"
  /\ \/ /\ Become(f, [work[f] EXCEPT !.phase = "execute", !.cands = candidates[b]])
        /\ turn' = f
     \/ Become(f, Idle) /\ UNCHANGED turn
  /\ UNCHANGED <<engine, switches, realtime>>

(* Connected: the candidates are taken.  Not connected: they are dropped.  *)
FlushConnected(f) ==
  LET b == work[f].broker IN
  /\ turn = None /\ work[f].phase = "connect"
  /\ candidates' = [candidates EXCEPT ![b] = {}]
  /\ \/ /\ Become(f, [work[f] EXCEPT !.phase = "execute", !.cands = candidates[b]])
        /\ turn' = f
     \/ Become(f, Idle) /\ UNCHANGED turn
  /\ UNCHANGED <<engine, switches, timer, cooldown>>

-----------------------------------------------------------------------------
(* The execution loop of a scan or a flush, one candidate at a time in the *)
(* order of their rank.  Only a flush looks again for an open trade.       *)
Next1(w, p) == [work[w] EXCEPT !.cands = @ \ {p}]

Executable(w, p) ==
  /\ turn = w /\ work[w].phase = "execute"
  /\ work[w].opened < MaxNewTradesPerCycle
  /\ p \in work[w].cands

(* Mutant: a flush trusts the test made when the signal was queued.        *)
RecheckForgotten(w, p) == TRUE

Rechecked(w, p) == w \in Flushes => ~HasOpenTradeForPair(p)

Execute(w, p, t) ==
  /\ Executable(w, p) /\ Rechecked(w, p)
  /\ work[w].broker \notin EaOnlyBrokers
  /\ Life!Admit(t)
  /\ pair' = [pair EXCEPT ![t] = p]
  /\ Become(w, [Next1(w, p) EXCEPT !.phase = "await", !.trade = t])
  /\ turn' = None
  /\ UNCHANGED <<filled, verdicts, switches, realtime>>

(* The per-symbol cap of the engine refuses the trade.                     *)
ExecuteRefused(w, p, t) ==
  /\ Executable(w, p) /\ Rechecked(w, p)
  /\ work[w].broker \notin EaOnlyBrokers
  /\ Life!Refuse(t)
  /\ pair' = [pair EXCEPT ![t] = p]
  /\ Become(w, [Next1(w, p) EXCEPT !.phase = "await", !.trade = t])
  /\ turn' = None
  /\ UNCHANGED <<filled, verdicts, switches, realtime>>

(* The candidate is left to the terminal, or a recheck rejects it.         *)
Skip(w, p) ==
  /\ Executable(w, p)
  /\ w \in Cycles => \/ work[w].broker \in EaOnlyBrokers
                     \/ \A t \in Trades : stage[t] # "new"   \* bound: no id is left
  /\ Become(w, Next1(w, p))
  /\ UNCHANGED <<engine, switches, realtime, turn>>

(* executeTrade returns: the order was confirmed, perhaps for a trade that *)
(* was closed meanwhile ...                                                *)
Opened(w) ==
  LET t == work[w].trade IN
  /\ turn = None /\ work[w].phase = "await" /\ stage[t] # "refused"
  /\ Become(w, [work[w] EXCEPT !.phase = "execute", !.trade = None, !.opened = @ + 1])
  /\ cooldown' = IF w \in Flushes THEN cooldown \cup {<<work[w].broker, pair[t]>>} ELSE cooldown
  /\ turn' = w
  /\ UNCHANGED <<engine, switches, candidates, timer>>

(* Mutant: the loop goes on with the trade that failed.                    *)
FailedKeepsTrade(w) ==
  LET t == work[w].trade IN
  /\ turn = None /\ work[w].phase = "await"
  /\ IF stage[t] = "live" THEN Life!Drop(t) ELSE UNCHANGED stage
  /\ Become(w, [work[w] EXCEPT !.phase = "execute"])
  /\ turn' = w
  /\ UNCHANGED <<pair, filled, verdicts, switches, realtime>>

(* ... or it failed and the engine drops the trade, or it was refused.     *)
Failed(w) ==
  LET t == work[w].trade IN
  /\ turn = None /\ work[w].phase = "await"
  /\ IF stage[t] = "live" THEN Life!Drop(t) ELSE UNCHANGED stage
  /\ Become(w, [work[w] EXCEPT !.phase = "execute", !.trade = None])
  /\ turn' = w
  /\ UNCHANGED <<pair, filled, verdicts, switches, realtime>>

(* The loop ends: a flush is over, a scan goes on with the next broker.    *)
LoopEnds(w) ==
  /\ turn = w /\ work[w].phase = "execute"
  /\ work[w].cands = {} \/ work[w].opened >= MaxNewTradesPerCycle
  /\ IF w \in Flushes
       THEN Become(w, Idle) /\ turn' = None
       ELSE Become(w, Begin(work[w].todo)) /\ turn' = w
  /\ UNCHANGED <<engine, switches, realtime>>

CycleDone(c) ==
  /\ turn = c /\ work[c].phase = "brokers" /\ work[c].todo = {}
  /\ Become(c, Idle) /\ turn' = None
  /\ UNCHANGED <<engine, switches, realtime>>

-----------------------------------------------------------------------------
(* startAutoTrading waits for the connectivity test ...                    *)
Start(b) ==
  /\ turn = None /\ b \notin enabled /\ starting[b] < MaxStarts
  /\ starting' = [starting EXCEPT ![b] = @ + 1]
  /\ UNCHANGED <<engine, enabled, monitoring, generating, realtime, work, turn>>

(* ... and then enables the broker, sets the missing intervals and begins  *)
(* a first scan ...                                                        *)
StartCompletes(b, c) ==
  /\ turn = None /\ starting[b] > 0
  /\ work[c].phase = "idle"
  /\ starting' = [starting EXCEPT ![b] = @ - 1]
  /\ enabled' = enabled \cup {b}
  /\ monitoring' = TRUE /\ generating' = TRUE
  /\ Become(c, Begin(enabled \cup {b})) /\ turn' = c
  /\ UNCHANGED <<engine, realtime>>

(* ... or gives up because the broker is not connected.                    *)
StartGivesUp(b) ==
  /\ turn = None /\ starting[b] > 0
  /\ starting' = [starting EXCEPT ![b] = @ - 1]
  /\ UNCHANGED <<engine, enabled, monitoring, generating, realtime, work, turn>>

(* Mutant: the intervals are kept while any trade is active.               *)
KeepIntervalsWhileActive ==
  /\ generating' = IF enabled' = {} /\ live = {} THEN FALSE ELSE generating
  /\ monitoring' = IF enabled' = {} /\ live = {} THEN FALSE ELSE monitoring

MaybeStopIntervals ==
  /\ generating' = IF enabled' = {} THEN FALSE ELSE generating
  /\ monitoring' = IF enabled' = {} /\ live = {} THEN FALSE ELSE monitoring

(* stopAutoTrading for one broker, or for all of them.                     *)
Stop(B) ==
  /\ turn = None /\ B \subseteq enabled /\ B # {}
  /\ Cardinality(B) = 1 \/ B = enabled
  /\ enabled' = enabled \ B
  /\ MaybeStopIntervals
  /\ UNCHANGED <<engine, starting, realtime, work, turn>>

(* A monitoring pass closes a trade, or the operator does over HTTP.       *)
CloseTrade(t) ==
  /\ turn = None
  /\ Life!Close(t)
  /\ UNCHANGED <<pair, filled, verdicts, switches, realtime, work, turn>>

IngestFill(t) ==
  /\ turn = None /\ t \in live \ filled
  /\ filled' = filled \cup {t}
  /\ UNCHANGED <<stage, pair, verdicts, switches, realtime, work, turn>>

Next ==
  \/ \E b \in Brokers : Start(b) \/ StartGivesUp(b)
  \/ \E b \in Brokers, c \in Cycles : StartCompletes(b, c) \/ CycleBroker(c, b)
  \/ \E B \in SUBSET Brokers : Stop(B)
  \/ \E c \in Cycles : CycleTick(c) \/ CycleConnected(c) \/ CycleDone(c)
  \/ \E c \in Cycles, p \in Pairs : CycleSignal(c, p)
  \/ \E b \in Brokers, p \in Pairs : Analyse(b, p) \/ Enqueue(b, p) \/ CooldownEnds(b, p)
  \/ \E f \in Flushes, b \in Brokers : FlushFires(f, b)
  \/ \E f \in Flushes : FlushConnected(f)
  \/ \E w \in Workers, p \in Pairs : Skip(w, p) \/ \E t \in Trades : Execute(w, p, t) \/ ExecuteRefused(w, p, t)
  \/ \E w \in Workers : Opened(w) \/ Failed(w) \/ LoopEnds(w)
  \/ \E t \in Trades : CloseTrade(t) \/ IngestFill(t)

Spec == Init /\ [][Next]_vars

(* Timers fire and awaited answers arrive, whatever other callbacks the    *)
(* event loop runs in between, and synchronous code runs on.               *)
Fairness ==
  /\ \A f \in Flushes : SF_vars(FlushConnected(f)) /\ \A b \in Brokers : SF_vars(FlushFires(f, b))
  /\ \A c \in Cycles : /\ SF_vars(CycleConnected(c)) /\ WF_vars(CycleDone(c))
                       /\ WF_vars(\E b \in Brokers : CycleBroker(c, b))
                       /\ SF_vars(\E p \in Pairs : CycleSignal(c, p))
  /\ \A w \in Workers : /\ SF_vars(Opened(w) \/ Failed(w)) /\ WF_vars(LoopEnds(w))
                        /\ WF_vars(\E p \in Pairs : \/ Skip(w, p)
                                                    \/ \E t \in Trades : Execute(w, p, t) \/ ExecuteRefused(w, p, t))

FairSpec == Spec /\ Fairness

-----------------------------------------------------------------------------
WorkType ==
  [phase : Phases, todo : SUBSET Brokers, broker : Brokers \cup {None}, pairs : SUBSET Pairs,
   cands : SUBSET Pairs, opened : 0 .. MaxNewTradesPerCycle, trade : Trades \cup {None}]

TypeOK ==
  /\ Life!TypeOK
  /\ pair \in [Trades -> Pairs \cup {None}] /\ filled \subseteq Trades
  /\ verdicts \subseteq Brokers \X Pairs
  /\ enabled \subseteq Brokers /\ starting \in [Brokers -> 0 .. MaxStarts]
  /\ monitoring \in BOOLEAN /\ generating \in BOOLEAN
  /\ candidates \in [Brokers -> SUBSET Pairs] /\ timer \subseteq Brokers
  /\ cooldown \subseteq Brokers \X Pairs
  /\ work \in [Workers -> WorkType] /\ turn \in Workers \cup {None}
  /\ \A w \in Workers : work[w].phase = "await" <=> work[w].trade # None

(* The switch and the intervals agree: scans are scheduled exactly while   *)
(* some broker is on, and open trades are watched while scans run.         *)
IntervalsFollowSwitch ==
  /\ generating <=> enabled # {}
  /\ generating => monitoring

(* A queued realtime signal is never stranded: a flush of its broker is    *)
(* due, or is waiting for the connectivity test.                           *)
NoStrandedCandidates ==
  \A b \in Brokers : candidates[b] # {} =>
     b \in timer \/ \E f \in Flushes : work[f].phase = "connect" /\ work[f].broker = b

(* A queued realtime signal is eventually taken or dropped.                *)
QueuedIsDecided ==
  \A b \in Brokers, p \in Pairs : p \in candidates[b] ~> p \notin candidates[b]

(* What the comments and the checklist say and the code does not keep.     *)
(* "stop only signal generation (no new trades)": a trade is opened only   *)
(* for a broker that is on.                                                *)
NoNewTradesAfterStop ==
  [][\A w \in Workers : (work[w].trade = None /\ work'[w].trade # None)
        => work[w].broker \in enabled]_vars

(* "Skip if we already have an open trade for this pair."                  *)
OneOpenTradePerPair ==
  \A t, u \in live \ filled : pair[t] = pair[u] => t = u

(* That rule is broken by an execution of a scheduled scan and by no other *)
(* step: not by a realtime flush, however many of them overlap with scans  *)
(* and with each other, not by a late answer, a fill or a close.           *)
OnlyScansDouble ==
  [][OneOpenTradePerPair /\ ~OneOpenTradePerPair'
       => \E c \in Cycles : work[c].trade = None /\ work'[c].trade # None]_vars

(* "Active trades must be below maxConcurrentTrades."                      *)
ConcurrentTradesBounded == Cardinality(live) <= MaxConcurrentTrades
=============================================================================
