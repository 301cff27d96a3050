-------------------------- MODULE AutoTrader_proofs --------------------------
(***************************************************************************)
(* Proofs about AutoTrader, for any number of trades, pairs, brokers,      *)
(* overlapping scans and overlapping flushes.                              *)
(***************************************************************************)
EXTENDS AutoTrader, FiniteSetTheorems, TLAPS

(* What holds of the record of a worker at any time: it awaits exactly the *)
(* trade it names, it had room for it, and from the connectivity test on   *)
(* it has a broker.                                                        *)
Good(r) ==
  /\ r \in WorkType
  /\ r.phase = "await" <=> r.trade # None
  /\ r.phase = "await" => r.opened < MaxNewTradesPerCycle
  /\ r.phase \notin {"idle", "brokers"} => r.broker \in Brokers

WorkOK == \A w \in Workers : Good(work[w])

(* An awaited trade has the pair of its signal.                            *)
AwaitedHasPair ==
  \A w \in Workers : work[w].phase = "await" => pair[work[w].trade] \in Pairs

IInv ==
  /\ TypeOK
  /\ WorkOK
  /\ AwaitedHasPair
  /\ IntervalsFollowSwitch
  /\ NoStrandedCandidates

USE LimitsAssumption, BrokersAssumption, WorkersAssumption

-----------------------------------------------------------------------------
(* One field of the record of a worker after the other.                    *)
LEMMA SetPhase ==
  ASSUME NEW r \in WorkType, NEW v \in Phases
  PROVE  LET s == [r EXCEPT !.phase = v] IN
         /\ s \in WorkType /\ s.phase = v
         /\ s.todo = r.todo /\ s.broker = r.broker /\ s.pairs = r.pairs
         /\ s.cands = r.cands /\ s.opened = r.opened /\ s.trade = r.trade
<1>1. [r EXCEPT !.phase = v] \in WorkType
  BY DEF WorkType
<1>2. LET s == [r EXCEPT !.phase = v] IN
      /\ s.phase = v
      /\ s.todo = r.todo /\ s.broker = r.broker /\ s.pairs = r.pairs
      /\ s.cands = r.cands /\ s.opened = r.opened /\ s.trade = r.trade
  BY DEF WorkType
<1> QED
  BY <1>1, <1>2

LEMMA SetTodo ==
  ASSUME NEW r \in WorkType, NEW v \in SUBSET Brokers
  PROVE  LET s == [r EXCEPT !.todo = v] IN
         /\ s \in WorkType /\ s.todo = v
         /\ s.phase = r.phase /\ s.broker = r.broker /\ s.pairs = r.pairs
         /\ s.cands = r.cands /\ s.opened = r.opened /\ s.trade = r.trade
<1>1. [r EXCEPT !.todo = v] \in WorkType
  BY DEF WorkType
<1>2. LET s == [r EXCEPT !.todo = v] IN
      /\ s.todo = v
      /\ s.phase = r.phase /\ s.broker = r.broker /\ s.pairs = r.pairs
      /\ s.cands = r.cands /\ s.opened = r.opened /\ s.trade = r.trade
  BY DEF WorkType
<1> QED
  BY <1>1, <1>2

LEMMA SetBroker ==
  ASSUME NEW r \in WorkType, NEW v \in Brokers \cup {None}
  PROVE  LET s == [r EXCEPT !.broker = v] IN
         /\ s \in WorkType /\ s.broker = v
         /\ s.phase = r.phase /\ s.todo = r.todo /\ s.pairs = r.pairs
         /\ s.cands = r.cands /\ s.opened = r.opened /\ s.trade = r.trade
<1>1. [r EXCEPT !.broker = v] \in WorkType
  BY DEF WorkType
<1>2. LET s == [r EXCEPT !.broker = v] IN
      /\ s.broker = v
      /\ s.phase = r.phase /\ s.todo = r.todo /\ s.pairs = r.pairs
      /\ s.cands = r.cands /\ s.opened = r.opened /\ s.trade = r.trade
  BY DEF WorkType
<1> QED
  BY <1>1, <1>2

LEMMA SetPairs ==
  ASSUME NEW r \in WorkType, NEW v \in SUBSET Pairs
  PROVE  LET s == [r EXCEPT !.pairs = v] IN
         /\ s \in WorkType /\ s.pairs = v
         /\ s.phase = r.phase /\ s.todo = r.todo /\ s.broker = r.broker
         /\ s.cands = r.cands /\ s.opened = r.opened /\ s.trade = r.trade
<1>1. [r EXCEPT !.pairs = v] \in WorkType
  BY DEF WorkType
<1>2. LET s == [r EXCEPT !.pairs = v] IN
      /\ s.pairs = v
      /\ s.phase = r.phase /\ s.todo = r.todo /\ s.broker = r.broker
      /\ s.cands = r.cands /\ s.opened = r.opened /\ s.trade = r.trade
  BY DEF WorkType
<1> QED
  BY <1>1, <1>2

LEMMA SetCands ==
  ASSUME NEW r \in WorkType, NEW v \in SUBSET Pairs
  PROVE  LET s == [r EXCEPT !.cands = v] IN
         /\ s \in WorkType /\ s.cands = v
         /\ s.phase = r.phase /\ s.todo = r.todo /\ s.broker = r.broker
         /\ s.pairs = r.pairs /\ s.opened = r.opened /\ s.trade = r.trade
<1>1. [r EXCEPT !.cands = v] \in WorkType
  BY DEF WorkType
<1>2. LET s == [r EXCEPT !.cands = v] IN
      /\ s.cands = v
      /\ s.phase = r.phase /\ s.todo = r.todo /\ s.broker = r.broker
      /\ s.pairs = r.pairs /\ s.opened = r.opened /\ s.trade = r.trade
  BY DEF WorkType
<1> QED
  BY <1>1, <1>2

LEMMA SetOpened ==
  ASSUME NEW r \in WorkType, NEW v \in 0 .. MaxNewTradesPerCycle
  PROVE  LET s == [r EXCEPT !.opened = v] IN
         /\ s \in WorkType /\ s.opened = v
         /\ s.phase = r.phase /\ s.todo = r.todo /\ s.broker = r.broker
         /\ s.pairs = r.pairs /\ s.cands = r.cands /\ s.trade = r.trade
<1>1. [r EXCEPT !.opened = v] \in WorkType
  BY DEF WorkType
<1>2. LET s == [r EXCEPT !.opened = v] IN
      /\ s.opened = v
      /\ s.phase = r.phase /\ s.todo = r.todo /\ s.broker = r.broker
      /\ s.pairs = r.pairs /\ s.cands = r.cands /\ s.trade = r.trade
  BY DEF WorkType
<1> QED
  BY <1>1, <1>2

LEMMA SetTrade ==
  ASSUME NEW r \in WorkType, NEW v \in Trades \cup {None}
  PROVE  LET s == [r EXCEPT !.trade = v] IN
         /\ s \in WorkType /\ s.trade = v
         /\ s.phase = r.phase /\ s.todo = r.todo /\ s.broker = r.broker
         /\ s.pairs = r.pairs /\ s.cands = r.cands /\ s.opened = r.opened
<1>1. [r EXCEPT !.trade = v] \in WorkType
  BY DEF WorkType
<1>2. LET s == [r EXCEPT !.trade = v] IN
      /\ s.trade = v
      /\ s.phase = r.phase /\ s.todo = r.todo /\ s.broker = r.broker
      /\ s.pairs = r.pairs /\ s.cands = r.cands /\ s.opened = r.opened
  BY DEF WorkType
<1> QED
  BY <1>1, <1>2

LEMMA IdleGood == Good(Idle) /\ Idle.phase = "idle" /\ Idle.trade = None
<1>1. Idle \in WorkType
  BY DEF Idle, WorkType, Phases
<1> QED
  BY <1>1 DEF Idle, Good

LEMMA BeginGood ==
  ASSUME NEW on \in SUBSET Brokers
  PROVE  Good(Begin(on)) /\ Begin(on).phase = "brokers"
<1>1. Begin(on) \in WorkType
  <2>1. Idle \in WorkType /\ "brokers" \in Phases
    BY IdleGood DEF Good, Phases
  <2>2. [Idle EXCEPT !.phase = "brokers"] \in WorkType
    BY <2>1, SetPhase
  <2> QED
    BY <2>2, SetTodo DEF Begin
<1>2. Begin(on).phase = "brokers" /\ Begin(on).trade = None
  BY DEF Begin, Idle
<1> QED
  BY <1>1, <1>2 DEF Good

(* A step of one worker leaves a good record and does not touch others.    *)
LEMMA WorkerStep ==
  ASSUME NEW w \in Workers, NEW r, Good(r), work \in [Workers -> WorkType], WorkOK,
         work' = [work EXCEPT ![w] = r]
  PROVE  /\ work' \in [Workers -> WorkType] /\ WorkOK'
         /\ work'[w] = r /\ \A v \in Workers \ {w} : work'[v] = work[v]
<1>1. r \in WorkType
  BY DEF Good
<1>2. /\ work' \in [Workers -> WorkType]
      /\ work'[w] = r /\ \A v \in Workers \ {w} : work'[v] = work[v]
  BY <1>1
<1> QED
  BY <1>2 DEF WorkOK

(* Candidates stay attended while no timer is cleared and no flush leaves  *)
(* its connectivity test.                                                  *)
LEMMA AttendedKept ==
  ASSUME NoStrandedCandidates, candidates' = candidates, timer' = timer,
         \A f \in Flushes : work[f].phase = "connect" => work'[f] = work[f]
  PROVE  NoStrandedCandidates'
BY DEF NoStrandedCandidates

(* A step of one worker that is no flush in its connectivity test, and     *)
(* leaves the switches and the queued signals alone.                       *)
LEMMA StepKept ==
  ASSUME IInv, NEW w \in Workers, NEW r, Good(r), work' = [work EXCEPT ![w] = r],
         turn' \in Workers \cup {None}, w \in Cycles \/ work[w].phase # "connect",
         stage' \in [Trades -> Life!Stages], pair' \in [Trades -> Pairs \cup {None}],
         \A t \in Trades : pair[t] \in Pairs => pair'[t] \in Pairs,
         r.phase = "await" => pair'[r.trade] \in Pairs,
         cooldown' \in SUBSET (Brokers \X Pairs),
         UNCHANGED <<filled, verdicts, enabled, starting, monitoring, generating, candidates, timer>>
  PROVE  IInv'
<1>1. work \in [Workers -> WorkType] /\ WorkOK
  BY DEF IInv, TypeOK
<1>2. /\ work' \in [Workers -> WorkType] /\ WorkOK'
      /\ work'[w] = r /\ \A v \in Workers \ {w} : work'[v] = work[v]
  BY <1>1, WorkerStep
<1>3. TypeOK'
  <2>1. \A v \in Workers : work'[v].phase = "await" <=> work'[v].trade # None
    BY <1>2 DEF WorkOK, Good
  <2> QED
    BY <1>2, <2>1 DEF IInv, TypeOK, Life!TypeOK
<1>4. AwaitedHasPair'
  <2>1. ASSUME NEW v \in Workers \ {w}, work[v].phase = "await"
        PROVE  pair'[work[v].trade] \in Pairs
    <3>1. work[v].trade \in Trades
      BY <1>1, <2>1 DEF WorkOK, Good, WorkType
    <3> QED
      BY <2>1, <3>1 DEF IInv, AwaitedHasPair
  <2> QED
    BY <1>2, <2>1 DEF AwaitedHasPair
<1>5. IntervalsFollowSwitch'
  BY DEF IInv, IntervalsFollowSwitch
<1>6. NoStrandedCandidates'
  <2>1. \A f \in Flushes : work[f].phase = "connect" => work'[f] = work[f]
    BY <1>2 DEF Workers
  <2> QED
    BY <2>1, AttendedKept DEF IInv
<1> QED
  BY <1>2, <1>3, <1>4, <1>5, <1>6 DEF IInv

(* The same when the engine and the cooldown do not change either.         *)
LEMMA QuietKept ==
  ASSUME IInv, NEW w \in Workers, NEW r, Good(r), r.phase # "await",
         work' = [work EXCEPT ![w] = r],
         turn' \in Workers \cup {None}, w \in Cycles \/ work[w].phase # "connect",
         UNCHANGED <<engine, switches, realtime>>
  PROVE  IInv'
<1>1. /\ stage' \in [Trades -> Life!Stages] /\ pair' \in [Trades -> Pairs \cup {None}]
      /\ pair' = pair /\ cooldown' \in SUBSET (Brokers \X Pairs)
      /\ UNCHANGED <<filled, verdicts, enabled, starting, monitoring, generating, candidates, timer>>
  BY DEF IInv, TypeOK, Life!TypeOK, engine, switches, realtime
<1> QED
  BY <1>1, StepKept

(* A step that moves no worker, keeps the switch and forgets no signal.    *)
LEMMA IdleKept ==
  ASSUME IInv, work' = work, TypeOK',
         \A t \in Trades : pair'[t] = pair[t],
         IntervalsFollowSwitch', NoStrandedCandidates'
  PROVE  IInv'
<1>1. WorkOK'
  BY DEF IInv, WorkOK
<1>2. AwaitedHasPair'
  <2>1. \A v \in Workers : work[v].phase = "await" => work[v].trade \in Trades
    BY DEF IInv, WorkOK, Good, WorkType
  <2> QED
    BY <2>1 DEF IInv, AwaitedHasPair
<1> QED
  BY <1>1, <1>2 DEF IInv

-----------------------------------------------------------------------------
LEMMA Initial == Init => IInv
<1> SUFFICES ASSUME Init PROVE IInv
  OBVIOUS
<1>1. work \in [Workers -> WorkType] /\ \A w \in Workers : work[w] = Idle
  BY IdleGood DEF Init, Good
<1>2. WorkOK /\ AwaitedHasPair
  BY <1>1, IdleGood DEF WorkOK, AwaitedHasPair
<1>3. TypeOK
  <2>1. stage \in [Trades -> Life!Stages]
    BY DEF Init, Life!Init, Life!Stages
  <2>2. pair \in [Trades -> Pairs \cup {None}] /\ starting \in [Brokers -> 0 .. MaxStarts]
    BY DEF Init
  <2>3. candidates \in [Brokers -> SUBSET Pairs]
    BY DEF Init
  <2>4. \A w \in Workers : work[w].phase = "await" <=> work[w].trade # None
    BY <1>1, IdleGood
  <2> QED
    BY <1>1, <2>1, <2>2, <2>3, <2>4 DEF Init, TypeOK, Life!TypeOK
<1>4. IntervalsFollowSwitch
  BY DEF Init, IntervalsFollowSwitch
<1>5. NoStrandedCandidates
  BY DEF Init, NoStrandedCandidates
<1> QED
  BY <1>2, <1>3, <1>4, <1>5 DEF IInv

(* The scan.                                                               *)
LEMMA ScanKept ==
  ASSUME IInv, NEW c \in Cycles,
         \/ CycleTick(c) \/ CycleConnected(c) \/ CycleDone(c)
         \/ \E b \in Brokers : CycleBroker(c, b)
         \/ \E p \in Pairs : CycleSignal(c, p)
  PROVE  IInv'
<1>0. /\ c \in Workers /\ work[c] \in WorkType /\ Good(work[c])
      /\ enabled \in SUBSET Brokers
  BY DEF Workers, IInv, TypeOK, WorkOK
<1>1. CASE CycleTick(c)
  <2>1. /\ work' = [work EXCEPT ![c] = Begin(enabled)] /\ turn' = c
        /\ UNCHANGED <<engine, switches, realtime>>
    BY <1>1 DEF CycleTick, Become
  <2> QED
    BY <1>0, <2>1, BeginGood, QuietKept
<1>2. CASE CycleDone(c)
  <2>1. /\ work' = [work EXCEPT ![c] = Idle] /\ turn' = None
        /\ UNCHANGED <<engine, switches, realtime>>
    BY <1>2 DEF CycleDone, Become
  <2> QED
    BY <1>0, <2>1, IdleGood, QuietKept
<1>3. CASE CycleConnected(c)
  <2> DEFINE r1 == [work[c] EXCEPT !.phase = "scan"]
             r2 == [r1 EXCEPT !.pairs = Pairs]
             r3 == [r2 EXCEPT !.cands = {}]
             r4 == [r3 EXCEPT !.opened = 0]
             q  == [work[c] EXCEPT !.phase = "brokers"]
  <2>1. /\ work[c].phase = "connect" /\ turn' \in Workers \cup {None}
        /\ work' = [work EXCEPT ![c] = r4] \/ work' = [work EXCEPT ![c] = q]
        /\ UNCHANGED <<engine, switches, realtime>>
    BY <1>0, <1>3 DEF CycleConnected, Become
  <2>2. r1 \in WorkType /\ r1.phase = "scan" /\ r1.trade = work[c].trade /\ r1.broker = work[c].broker
    BY <1>0, SetPhase DEF Phases
  <2>3. r2 \in WorkType /\ r2.phase = r1.phase /\ r2.trade = r1.trade /\ r2.broker = r1.broker
    BY <2>2, SetPairs
  <2>4. r3 \in WorkType /\ r3.phase = r2.phase /\ r3.trade = r2.trade /\ r3.broker = r2.broker
    BY <2>3, SetCands
  <2>5. r4 \in WorkType /\ r4.phase = r3.phase /\ r4.trade = r3.trade /\ r4.broker = r3.broker
    <3>1. 0 \in 0 .. MaxNewTradesPerCycle
      OBVIOUS
    <3> QED
      BY <2>4, <3>1, SetOpened
  <2>6. q \in WorkType /\ q.phase = "brokers" /\ q.trade = work[c].trade
    BY <1>0, SetPhase DEF Phases
  <2> HIDE DEF r1, r2, r3, r4, q
  <2>7. Good(r4) /\ r4.phase # "await" /\ Good(q) /\ q.phase # "await"
    BY <1>0, <2>1, <2>2, <2>3, <2>4, <2>5, <2>6 DEF Good
  <2> QED
    BY <1>0, <2>1, <2>7, QuietKept
<1>4. ASSUME NEW b \in Brokers, CycleBroker(c, b)
      PROVE  IInv'
  <2> DEFINE r1 == [work[c] EXCEPT !.todo = work[c].todo \ {b}]
             r2 == [r1 EXCEPT !.broker = b]
             r3 == [r2 EXCEPT !.phase = "connect"]
  <2>1. /\ work[c].phase = "brokers" /\ turn' \in Workers \cup {None}
        /\ work' = [work EXCEPT ![c] = r3] \/ work' = [work EXCEPT ![c] = r1]
        /\ UNCHANGED <<engine, switches, realtime>>
    BY <1>0, <1>4 DEF CycleBroker, Become
  <2>2. work[c].todo \ {b} \in SUBSET Brokers
    BY <1>0 DEF WorkType
  <2>3. r1 \in WorkType /\ r1.phase = work[c].phase /\ r1.trade = work[c].trade
    BY <1>0, <2>2, SetTodo
  <2>4. r2 \in WorkType /\ r2.phase = r1.phase /\ r2.trade = r1.trade /\ r2.broker = b
    BY <2>3, SetBroker
  <2>5. r3 \in WorkType /\ r3.phase = "connect" /\ r3.trade = r2.trade /\ r3.broker = b
    BY <2>4, SetPhase DEF Phases
  <2> HIDE DEF r1, r2, r3
  <2>6. Good(r1) /\ r1.phase # "await" /\ Good(r3) /\ r3.phase # "await"
    BY <1>0, <2>1, <2>3, <2>4, <2>5 DEF Good
  <2> QED
    BY <1>0, <2>1, <2>6, QuietKept
<1>5. ASSUME NEW p \in Pairs, CycleSignal(c, p)
      PROVE  IInv'
  <2> DEFINE left == work[c].pairs \ {p}
             next == IF left = {} THEN "execute" ELSE "scan"
  <2>1. PICK pass \in BOOLEAN :
          work' = [work EXCEPT ![c] = [work[c] EXCEPT !.pairs = left,
                                        !.cands = IF pass THEN work[c].cands \cup {p} ELSE work[c].cands,
                                        !.phase = next]]
    BY <1>5 DEF CycleSignal, Become
  <2> DEFINE more == IF pass THEN work[c].cands \cup {p} ELSE work[c].cands
             r1 == [work[c] EXCEPT !.pairs = left]
             r2 == [r1 EXCEPT !.cands = more]
             r3 == [r2 EXCEPT !.phase = next]
  <2>2. /\ work[c].phase = "scan" /\ turn' \in Workers \cup {None}
        /\ work' = [work EXCEPT ![c] = r3]
        /\ UNCHANGED <<engine, switches, realtime>>
    BY <1>0, <1>5, <2>1 DEF CycleSignal
  <2>3. left \in SUBSET Pairs /\ more \in SUBSET Pairs /\ next \in {"execute", "scan"}
    BY <1>0 DEF WorkType
  <2> HIDE DEF left, more, next
  <2>4. r1 \in WorkType /\ r1.trade = work[c].trade /\ r1.broker = work[c].broker
    BY <1>0, <2>3, SetPairs
  <2>5. r2 \in WorkType /\ r2.trade = r1.trade /\ r2.broker = r1.broker
    BY <2>3, <2>4, SetCands
  <2>6. r3 \in WorkType /\ r3.phase = next /\ r3.trade = r2.trade /\ r3.broker = r2.broker
    <3>1. next \in Phases
      BY <2>3 DEF Phases
    <3> QED
      BY <3>1, <2>5, SetPhase
  <2> HIDE DEF r1, r2, r3
  <2>7. Good(r3) /\ r3.phase # "await"
    BY <1>0, <2>2, <2>3, <2>4, <2>5, <2>6 DEF Good
  <2> QED
    BY <1>0, <2>2, <2>7, QuietKept
<1> QED
  BY <1>1, <1>2, <1>3, <1>4, <1>5

(* The execution loop of a scan or a flush.                                *)
LEMMA LoopKept ==
  ASSUME IInv, NEW w \in Workers,
         \/ Opened(w) \/ Failed(w) \/ LoopEnds(w)
         \/ \E p \in Pairs : \/ Skip(w, p)
                             \/ \E t \in Trades : Execute(w, p, t) \/ ExecuteRefused(w, p, t)
  PROVE  IInv'
<1>0. /\ work[w] \in WorkType /\ Good(work[w])
      /\ stage \in [Trades -> Life!Stages] /\ pair \in [Trades -> Pairs \cup {None}]
      /\ cooldown \in SUBSET (Brokers \X Pairs)
  BY DEF IInv, TypeOK, Life!TypeOK, WorkOK
<1>1. ASSUME NEW p \in Pairs, NEW t \in Trades, Execute(w, p, t) \/ ExecuteRefused(w, p, t)
      PROVE  IInv'
  <2> DEFINE r1 == [work[w] EXCEPT !.cands = work[w].cands \ {p}]
             r2 == [r1 EXCEPT !.phase = "await"]
             r3 == [r2 EXCEPT !.trade = t]
  <2>1. /\ work[w].phase = "execute" /\ work[w].opened < MaxNewTradesPerCycle
        /\ work' = [work EXCEPT ![w] = r3] /\ turn' = None
        /\ pair' = [pair EXCEPT ![t] = p]
        /\ UNCHANGED <<filled, verdicts, switches, realtime>>
    BY <1>1 DEF Execute, ExecuteRefused, Executable, Become, Next1
  <2>2. stage' \in [Trades -> Life!Stages]
    BY <1>0, <1>1 DEF Execute, ExecuteRefused, Life!Admit, Life!Refuse, Life!Stages
  <2>3. r1 \in WorkType /\ r1.broker = work[w].broker /\ r1.opened = work[w].opened
    <3>1. work[w].cands \ {p} \in SUBSET Pairs
      BY <1>0 DEF WorkType
    <3> QED
      BY <1>0, <3>1, SetCands
  <2>4. r2 \in WorkType /\ r2.phase = "await" /\ r2.broker = r1.broker /\ r2.opened = r1.opened
    BY <2>3, SetPhase DEF Phases
  <2>5. r3 \in WorkType /\ r3.phase = r2.phase /\ r3.trade = t /\ r3.broker = r2.broker /\ r3.opened = r2.opened
    BY <2>4, SetTrade
  <2> HIDE DEF r1, r2, r3
  <2>6. Good(r3)
    BY <1>0, <2>1, <2>3, <2>4, <2>5 DEF Good
  <2>7. /\ pair' \in [Trades -> Pairs \cup {None}] /\ pair'[r3.trade] \in Pairs
        /\ \A u \in Trades : pair[u] \in Pairs => pair'[u] \in Pairs
    BY <1>0, <2>1, <2>5
  <2>8. /\ UNCHANGED <<filled, verdicts, enabled, starting, monitoring, generating, candidates, timer>>
        /\ cooldown' \in SUBSET (Brokers \X Pairs)
    BY <1>0, <2>1 DEF switches, realtime
  <2> QED
    BY <2>1, <2>2, <2>6, <2>7, <2>8, StepKept
<1>2. ASSUME NEW p \in Pairs, Skip(w, p)
      PROVE  IInv'
  <2> DEFINE r == [work[w] EXCEPT !.cands = work[w].cands \ {p}]
  <2>1. /\ work[w].phase = "execute" /\ turn' = w
        /\ work' = [work EXCEPT ![w] = r]
        /\ UNCHANGED <<engine, switches, realtime>>
    BY <1>2 DEF Skip, Executable, Become, Next1
  <2>2. /\ r \in WorkType /\ r.phase = work[w].phase /\ r.broker = work[w].broker
        /\ r.opened = work[w].opened /\ r.trade = work[w].trade
    <3>1. work[w].cands \ {p} \in SUBSET Pairs
      BY <1>0 DEF WorkType
    <3> QED
      BY <1>0, <3>1, SetCands
  <2> HIDE DEF r
  <2>3. Good(r) /\ r.phase # "await"
    BY <1>0, <2>1, <2>2 DEF Good
  <2> QED
    BY <2>1, <2>3, QuietKept
<1>3. CASE Opened(w)
  <2> DEFINE n  == work[w].opened + 1
             r1 == [work[w] EXCEPT !.phase = "execute"]
             r2 == [r1 EXCEPT !.trade = None]
             r3 == [r2 EXCEPT !.opened = n]
  <2>1. /\ work[w].phase = "await" /\ turn' = w
        /\ work' = [work EXCEPT ![w] = r3]
        /\ cooldown' = IF w \in Flushes THEN cooldown \cup {<<work[w].broker, pair[work[w].trade]>>} ELSE cooldown
        /\ UNCHANGED <<engine, switches, candidates, timer>>
    BY <1>3 DEF Opened, Become
  <2>2. work[w].opened \in 0 .. MaxNewTradesPerCycle /\ work[w].opened < MaxNewTradesPerCycle
    BY <1>0, <2>1 DEF Good, WorkType
  <2>3. n \in 0 .. MaxNewTradesPerCycle
    BY <2>2
  <2> HIDE DEF n
  <2>4. r1 \in WorkType /\ r1.phase = "execute" /\ r1.broker = work[w].broker
    BY <1>0, SetPhase DEF Phases
  <2>5. r2 \in WorkType /\ r2.phase = r1.phase /\ r2.broker = r1.broker /\ r2.trade = None
    <3>1. None \in Trades \cup {None}
      OBVIOUS
    <3> HIDE DEF r1
    <3> QED
      BY <2>4, <3>1, SetTrade
  <2>6. r3 \in WorkType /\ r3.phase = r2.phase /\ r3.broker = r2.broker /\ r3.trade = r2.trade
    <3> HIDE DEF r2
    <3> QED
      BY <2>3, <2>5, SetOpened
  <2> HIDE DEF r1, r2, r3
  <2>7. Good(r3) /\ r3.phase # "await"
    BY <1>0, <2>1, <2>4, <2>5, <2>6 DEF Good
  <2>8. cooldown' \in SUBSET (Brokers \X Pairs)
    <3>1. work[w].broker \in Brokers /\ pair[work[w].trade] \in Pairs
      BY <1>0, <2>1 DEF Good, IInv, AwaitedHasPair
    <3> QED
      BY <1>0, <2>1, <3>1
  <2>9. /\ UNCHANGED <<filled, verdicts, enabled, starting, monitoring, generating, candidates, timer>>
        /\ stage' \in [Trades -> Life!Stages] /\ pair' = pair
    BY <1>0, <2>1 DEF engine, switches
  <2> QED
    BY <1>0, <2>1, <2>7, <2>8, <2>9, StepKept
<1>4. CASE Failed(w)
  <2> DEFINE r1 == [work[w] EXCEPT !.phase = "execute"]
             r2 == [r1 EXCEPT !.trade = None]
  <2>1. /\ work[w].phase = "await" /\ turn' = w
        /\ work' = [work EXCEPT ![w] = r2]
        /\ UNCHANGED <<pair, filled, verdicts, switches, realtime>>
    BY <1>4 DEF Failed, Become
  <2>2. stage' \in [Trades -> Life!Stages]
    BY <1>0, <1>4 DEF Failed, Life!Drop, Life!Stages
  <2>3. r1 \in WorkType /\ r1.phase = "execute" /\ r1.broker = work[w].broker
    BY <1>0, SetPhase DEF Phases
  <2>4. r2 \in WorkType /\ r2.phase = r1.phase /\ r2.broker = r1.broker /\ r2.trade = None
    <3>1. None \in Trades \cup {None}
      OBVIOUS
    <3> HIDE DEF r1
    <3> QED
      BY <2>3, <3>1, SetTrade
  <2> HIDE DEF r1, r2
  <2>5. Good(r2) /\ r2.phase # "await"
    BY <1>0, <2>1, <2>3, <2>4 DEF Good
  <2>6. /\ UNCHANGED <<filled, verdicts, enabled, starting, monitoring, generating, candidates, timer>>
        /\ pair' = pair /\ cooldown' \in SUBSET (Brokers \X Pairs)
    BY <1>0, <2>1 DEF switches, realtime
  <2> QED
    BY <1>0, <2>1, <2>2, <2>5, <2>6, StepKept
<1>5. CASE LoopEnds(w)
  <2>1. /\ work[w].phase = "execute" /\ turn' \in Workers \cup {None}
        /\ work' = [work EXCEPT ![w] = Idle] \/ work' = [work EXCEPT ![w] = Begin(work[w].todo)]
        /\ UNCHANGED <<engine, switches, realtime>>
    BY <1>5 DEF LoopEnds, Become
  <2>2. work[w].todo \in SUBSET Brokers
    BY <1>0 DEF WorkType
  <2>3. /\ Good(Begin(work[w].todo)) /\ Begin(work[w].todo).phase # "await"
        /\ Good(Idle) /\ Idle.phase # "await"
    BY <2>2, BeginGood, IdleGood
  <2> QED
    BY <2>1, <2>3, QuietKept
<1> QED
  BY <1>1, <1>2, <1>3, <1>4, <1>5

(* The realtime queue and its flush.                                       *)
LEMMA RealtimeKept ==
  ASSUME IInv,
         \/ \E b \in Brokers, p \in Pairs : Analyse(b, p) \/ Enqueue(b, p) \/ CooldownEnds(b, p)
         \/ \E f \in Flushes, b \in Brokers : FlushFires(f, b)
         \/ \E f \in Flushes : FlushConnected(f)
  PROVE  IInv'
<1>0. /\ work \in [Workers -> WorkType] /\ WorkOK /\ Flushes \subseteq Workers
      /\ candidates \in [Brokers -> SUBSET Pairs] /\ timer \in SUBSET Brokers
  BY DEF IInv, TypeOK, Workers
<1>1. ASSUME NEW b \in Brokers, NEW p \in Pairs, Enqueue(b, p)
      PROVE  IInv'
  <2>1. /\ candidates' = [candidates EXCEPT ![b] = candidates[b] \cup {p}]
        /\ timer' = timer \cup {b}
        /\ UNCHANGED <<stage, pair, filled, verdicts, enabled, starting, monitoring, generating, cooldown, work, turn>>
    BY <1>1 DEF Enqueue, engine, switches
  <2>2. candidates' \in [Brokers -> SUBSET Pairs]
    BY <1>0, <2>1
  <2>3. TypeOK'
    BY <1>0, <2>1, <2>2 DEF IInv, TypeOK, Life!TypeOK
  <2>4. IntervalsFollowSwitch'
    BY <2>1 DEF IInv, IntervalsFollowSwitch
  <2>5. NoStrandedCandidates'
    BY <1>0, <2>1 DEF IInv, NoStrandedCandidates
  <2> QED
    BY <2>1, <2>3, <2>4, <2>5, IdleKept
<1>5. ASSUME NEW b \in Brokers, NEW p \in Pairs, Analyse(b, p)
      PROVE  IInv'
  <2>1. /\ verdicts' = verdicts \cup {<<b, p>>}
        /\ UNCHANGED <<stage, pair, filled, enabled, starting, monitoring, generating, candidates, timer, cooldown, work, turn>>
    BY <1>5 DEF Analyse, switches, realtime
  <2>2. TypeOK'
    BY <2>1 DEF IInv, TypeOK, Life!TypeOK
  <2>3. IntervalsFollowSwitch' /\ NoStrandedCandidates'
    BY <2>1 DEF IInv, IntervalsFollowSwitch, NoStrandedCandidates
  <2> QED
    BY <2>1, <2>2, <2>3, IdleKept
<1>2. ASSUME NEW b \in Brokers, NEW p \in Pairs, CooldownEnds(b, p)
      PROVE  IInv'
  <2>1. /\ cooldown' = cooldown \ {<<b, p>>}
        /\ UNCHANGED <<stage, pair, filled, verdicts, enabled, starting, monitoring, generating, candidates, timer, work, turn>>
    BY <1>2 DEF CooldownEnds, engine, switches
  <2>2. TypeOK'
    BY <2>1 DEF IInv, TypeOK, Life!TypeOK
  <2>3. IntervalsFollowSwitch' /\ NoStrandedCandidates'
    BY <2>1 DEF IInv, IntervalsFollowSwitch, NoStrandedCandidates
  <2> QED
    BY <2>1, <2>2, <2>3, IdleKept
<1>3. ASSUME NEW f \in Flushes, NEW b \in Brokers, FlushFires(f, b)
      PROVE  IInv'
  <2> DEFINE r1 == [Idle EXCEPT !.phase = "connect"]
             r2 == [r1 EXCEPT !.broker = b]
  <2>1. /\ work[f].phase = "idle" /\ timer' = timer \ {b}
        /\ \/ work' = [work EXCEPT ![f] = r2] /\ candidates' = candidates
           \/ candidates' = [candidates EXCEPT ![b] = {}] /\ work' = work
        /\ UNCHANGED <<stage, pair, filled, verdicts, enabled, starting, monitoring, generating, cooldown, turn>>
    BY <1>3 DEF FlushFires, Become, engine, switches
  <2>2. r1 \in WorkType /\ r1.phase = "connect" /\ r1.trade = Idle.trade
    BY IdleGood, SetPhase DEF Good, Phases
  <2>3. r2 \in WorkType /\ r2.phase = r1.phase /\ r2.trade = r1.trade /\ r2.broker = b
    <3> HIDE DEF r1
    <3>1. b \in Brokers \cup {None}
      OBVIOUS
    <3> QED
      BY <2>2, <3>1, SetBroker
  <2> HIDE DEF r1, r2
  <2>4. Good(r2) /\ r2.phase = "connect" /\ r2.broker = b
    BY <2>2, <2>3, IdleGood DEF Good
  <2>5. CASE work' = [work EXCEPT ![f] = r2] /\ candidates' = candidates
    <3>1. /\ work' \in [Workers -> WorkType] /\ WorkOK'
          /\ work'[f] = r2 /\ \A v \in Workers \ {f} : work'[v] = work[v]
      BY <1>0, <2>4, <2>5, WorkerStep
    <3>2. \A v \in Workers : work'[v].phase = "await" <=> work'[v].trade # None
      BY <3>1 DEF WorkOK, Good
    <3>3. TypeOK'
      BY <2>1, <2>5, <3>1, <3>2 DEF IInv, TypeOK, Life!TypeOK
    <3>4. AwaitedHasPair'
      BY <2>1, <2>4, <3>1 DEF IInv, AwaitedHasPair
    <3>5. IntervalsFollowSwitch'
      BY <2>1 DEF IInv, IntervalsFollowSwitch
    <3>6. NoStrandedCandidates'
      <4>1. \A g \in Flushes : work[g].phase = "connect" => work'[g] = work[g]
        BY <1>0, <2>1, <3>1
      <4> QED
        BY <1>0, <2>1, <2>4, <2>5, <3>1, <4>1 DEF IInv, NoStrandedCandidates
    <3> QED
      BY <3>1, <3>3, <3>4, <3>5, <3>6 DEF IInv
  <2>6. CASE candidates' = [candidates EXCEPT ![b] = {}] /\ work' = work
    <3>1. TypeOK'
      <4>1. candidates' \in [Brokers -> SUBSET Pairs]
        BY <1>0, <2>6
      <4> QED
        BY <2>1, <2>6, <4>1 DEF IInv, TypeOK, Life!TypeOK
    <3>2. IntervalsFollowSwitch'
      BY <2>1 DEF IInv, IntervalsFollowSwitch
    <3>3. NoStrandedCandidates'
      BY <1>0, <2>1, <2>6 DEF IInv, NoStrandedCandidates
    <3> QED
      BY <2>1, <2>6, <3>1, <3>2, <3>3, IdleKept
  <2> QED
    BY <2>1, <2>5, <2>6
<1>4. ASSUME NEW f \in Flushes, FlushConnected(f)
      PROVE  IInv'
  <2> DEFINE b  == work[f].broker
             r1 == [work[f] EXCEPT !.phase = "execute"]
             r2 == [r1 EXCEPT !.cands = candidates[b]]
  <2>1. /\ work[f].phase = "connect" /\ turn' \in Workers \cup {None}
        /\ candidates' = [candidates EXCEPT ![b] = {}]
        /\ work' = [work EXCEPT ![f] = r2] \/ work' = [work EXCEPT ![f] = Idle]
        /\ UNCHANGED <<stage, pair, filled, verdicts, enabled, starting, monitoring, generating, timer, cooldown>>
    <3>1. turn' \in Workers \cup {None}
      <4>1. turn \in Workers \cup {None} /\ f \in Workers
        BY <1>0 DEF IInv, TypeOK
      <4>2. turn' = f \/ turn' = turn
        BY <1>4 DEF FlushConnected
      <4> QED
        BY <4>1, <4>2
    <3>2. UNCHANGED <<engine, switches, timer, cooldown>>
      BY <1>4 DEF FlushConnected
    <3>3. /\ work[f].phase = "connect"
          /\ candidates' = [candidates EXCEPT ![b] = {}]
          /\ work' = [work EXCEPT ![f] = r2] \/ work' = [work EXCEPT ![f] = Idle]
      BY <1>4 DEF FlushConnected, Become
    <3> HIDE DEF r1, r2, b
    <3> QED
      BY <3>1, <3>2, <3>3 DEF engine, switches
  <2>2. Good(work[f]) /\ work[f] \in WorkType /\ b \in Brokers /\ candidates[b] \in SUBSET Pairs
    BY <1>0, <2>1 DEF WorkOK, Good
  <2>3. r1 \in WorkType /\ r1.phase = "execute" /\ r1.trade = work[f].trade /\ r1.broker = b
    BY <2>2, SetPhase DEF Phases
  <2>4. r2 \in WorkType /\ r2.phase = r1.phase /\ r2.trade = r1.trade /\ r2.broker = r1.broker
    <3> HIDE DEF r1, b
    <3> QED
      BY <2>2, <2>3, SetCands
  <2> HIDE DEF r1, r2
  <2>5. PICK r \in {r2, Idle} : work' = [work EXCEPT ![f] = r]
    BY <2>1
  <2>6. Good(r) /\ r.phase # "await"
    BY <2>1, <2>2, <2>3, <2>4, <2>5, IdleGood DEF Good
  <2>7. /\ work' \in [Workers -> WorkType] /\ WorkOK'
        /\ work'[f] = r /\ \A v \in Workers \ {f} : work'[v] = work[v]
    BY <1>0, <2>5, <2>6, WorkerStep
  <2>8. TypeOK'
    <3>1. \A v \in Workers : work'[v].phase = "await" <=> work'[v].trade # None
      BY <2>7 DEF WorkOK, Good
    <3>2. candidates' \in [Brokers -> SUBSET Pairs]
      BY <1>0, <2>1
    <3> QED
      BY <2>1, <2>7, <3>1, <3>2 DEF IInv, TypeOK, Life!TypeOK
  <2>9. AwaitedHasPair'
    BY <2>1, <2>6, <2>7 DEF IInv, AwaitedHasPair
  <2>10. IntervalsFollowSwitch'
    BY <2>1 DEF IInv, IntervalsFollowSwitch
  <2>11. NoStrandedCandidates'
    <3>1. ASSUME NEW d \in Brokers, candidates'[d] # {}
          PROVE  d \in timer' \/ \E g \in Flushes : work'[g].phase = "connect" /\ work'[g].broker = d
      <4>1. d # b /\ candidates[d] # {}
        BY <1>0, <2>1, <2>2, <3>1
      <4>2. \A g \in Flushes \ {f} : work'[g] = work[g]
        BY <1>0, <2>7
      <4> QED
        BY <2>1, <4>1, <4>2 DEF IInv, NoStrandedCandidates
    <3> QED
      BY <3>1 DEF NoStrandedCandidates
  <2> QED
    BY <2>7, <2>8, <2>9, <2>10, <2>11 DEF IInv
<1> QED
  BY <1>1, <1>2, <1>3, <1>4, <1>5

(* The switches, and the trades that others close or fill.                 *)
LEMMA SwitchesKept ==
  ASSUME IInv,
         \/ \E b \in Brokers : Start(b) \/ StartGivesUp(b)
         \/ \E b \in Brokers, c \in Cycles : StartCompletes(b, c)
         \/ \E B \in SUBSET Brokers : Stop(B)
         \/ \E t \in Trades : CloseTrade(t) \/ IngestFill(t)
  PROVE  IInv'
<1>0. /\ work \in [Workers -> WorkType] /\ WorkOK /\ Cycles \subseteq Workers
      /\ enabled \in SUBSET Brokers /\ starting \in [Brokers -> 0 .. MaxStarts]
  BY DEF IInv, TypeOK, Workers
<1>1. ASSUME NEW b \in Brokers, Start(b) \/ StartGivesUp(b)
      PROVE  IInv'
  <2>1. /\ \/ starting[b] < MaxStarts /\ starting' = [starting EXCEPT ![b] = starting[b] + 1]
           \/ starting[b] > 0 /\ starting' = [starting EXCEPT ![b] = starting[b] - 1]
        /\ UNCHANGED <<stage, pair, filled, verdicts, enabled, monitoring, generating, candidates, timer, cooldown, work, turn>>
    BY <1>1 DEF Start, StartGivesUp, engine, realtime
  <2>2. starting' \in [Brokers -> 0 .. MaxStarts]
    BY <1>0, <2>1
  <2>3. TypeOK'
    BY <2>1, <2>2 DEF IInv, TypeOK, Life!TypeOK
  <2>4. IntervalsFollowSwitch' /\ NoStrandedCandidates'
    BY <2>1 DEF IInv, IntervalsFollowSwitch, NoStrandedCandidates
  <2> QED
    BY <2>1, <2>3, <2>4, IdleKept
<1>2. ASSUME NEW b \in Brokers, NEW c \in Cycles, StartCompletes(b, c)
      PROVE  IInv'
  <2> DEFINE on == enabled \cup {b}
  <2>1. /\ starting[b] > 0 /\ starting' = [starting EXCEPT ![b] = starting[b] - 1]
        /\ work[c].phase = "idle" /\ enabled' = on /\ monitoring' = TRUE /\ generating' = TRUE
        /\ work' = [work EXCEPT ![c] = Begin(on)] /\ turn' = c
        /\ UNCHANGED <<stage, pair, filled, verdicts, candidates, timer, cooldown>>
    BY <1>2 DEF StartCompletes, Become, engine, realtime
  <2>2. Good(Begin(on)) /\ Begin(on).phase = "brokers"
    BY <1>0, BeginGood
  <2>3. /\ work' \in [Workers -> WorkType] /\ WorkOK'
        /\ work'[c] = Begin(on) /\ \A v \in Workers \ {c} : work'[v] = work[v]
    BY <1>0, <2>1, <2>2, WorkerStep
  <2>4. TypeOK'
    <3>1. \A v \in Workers : work'[v].phase = "await" <=> work'[v].trade # None
      BY <2>3 DEF WorkOK, Good
    <3>2. starting' \in [Brokers -> 0 .. MaxStarts]
      BY <1>0, <2>1
    <3> QED
      BY <1>0, <2>1, <2>3, <3>1, <3>2 DEF IInv, TypeOK, Life!TypeOK
  <2>5. AwaitedHasPair'
    BY <2>1, <2>2, <2>3 DEF IInv, AwaitedHasPair
  <2>6. IntervalsFollowSwitch'
    BY <2>1 DEF IntervalsFollowSwitch
  <2>7. NoStrandedCandidates'
    <3>1. \A f \in Flushes : work[f].phase = "connect" => work'[f] = work[f]
      BY <2>1, <2>3 DEF Workers
    <3> QED
      BY <2>1, <3>1, AttendedKept DEF IInv
  <2> QED
    BY <2>3, <2>4, <2>5, <2>6, <2>7 DEF IInv
<1>3. ASSUME NEW B \in SUBSET Brokers, Stop(B)
      PROVE  IInv'
  <2>1. /\ enabled' = enabled \ B
        /\ generating' = IF enabled' = {} THEN FALSE ELSE generating
        /\ monitoring' = IF enabled' = {} /\ live = {} THEN FALSE ELSE monitoring
        /\ UNCHANGED <<stage, pair, filled, verdicts, starting, candidates, timer, cooldown, work, turn>>
    BY <1>3 DEF Stop, MaybeStopIntervals, engine, realtime
  <2>2. TypeOK'
    BY <1>0, <2>1 DEF IInv, TypeOK, Life!TypeOK
  <2>3. IntervalsFollowSwitch'
    <3>1. CASE enabled' = {}
      BY <2>1, <3>1 DEF IntervalsFollowSwitch
    <3>2. CASE enabled' # {}
      BY <2>1, <3>2 DEF IInv, IntervalsFollowSwitch
    <3> QED
      BY <3>1, <3>2
  <2>4. NoStrandedCandidates'
    BY <2>1 DEF IInv, NoStrandedCandidates
  <2> QED
    BY <2>1, <2>2, <2>3, <2>4, IdleKept
<1>4. ASSUME NEW t \in Trades, CloseTrade(t) \/ IngestFill(t)
      PROVE  IInv'
  <2>1. /\ stage' \in [Trades -> Life!Stages] /\ filled' \subseteq Trades
        /\ UNCHANGED <<pair, verdicts, enabled, starting, monitoring, generating, candidates, timer, cooldown, work, turn>>
    BY <1>4 DEF CloseTrade, IngestFill, Life!Close, Life!Stages, Life!TypeOK, IInv, TypeOK, switches, realtime
  <2>2. TypeOK'
    BY <2>1 DEF IInv, TypeOK, Life!TypeOK
  <2>3. IntervalsFollowSwitch' /\ NoStrandedCandidates'
    BY <2>1 DEF IInv, IntervalsFollowSwitch, NoStrandedCandidates
  <2> QED
    BY <2>1, <2>2, <2>3, IdleKept
<1> QED
  BY <1>1, <1>2, <1>3, <1>4

LEMMA Inductive == IInv /\ [Next]_vars => IInv'
<1> SUFFICES ASSUME IInv, [Next]_vars PROVE IInv'
  OBVIOUS
<1>1. CASE UNCHANGED vars
  <2>1. UNCHANGED <<stage, pair, filled, verdicts, enabled, starting, monitoring, generating, candidates, timer, cooldown, work, turn>>
    BY <1>1 DEF vars
  <2>2. TypeOK'
    BY <2>1 DEF IInv, TypeOK, Life!TypeOK
  <2>3. IntervalsFollowSwitch' /\ NoStrandedCandidates'
    BY <2>1 DEF IInv, IntervalsFollowSwitch, NoStrandedCandidates
  <2> QED
    BY <2>1, <2>2, <2>3, IdleKept
<1>2. ASSUME NEW c \in Cycles, CycleTick(c) \/ CycleConnected(c) \/ CycleDone(c)
      PROVE  IInv'
  BY <1>2, ScanKept
<1>3. ASSUME NEW c \in Cycles, NEW b \in Brokers, CycleBroker(c, b)
      PROVE  IInv'
  BY <1>3, ScanKept
<1>4. ASSUME NEW c \in Cycles, NEW p \in Pairs, CycleSignal(c, p)
      PROVE  IInv'
  BY <1>4, ScanKept
<1>5. ASSUME NEW w \in Workers, Opened(w) \/ Failed(w) \/ LoopEnds(w)
      PROVE  IInv'
  BY <1>5, LoopKept
<1>6. ASSUME NEW w \in Workers, NEW p \in Pairs, Skip(w, p)
      PROVE  IInv'
  BY <1>6, LoopKept
<1>7. ASSUME NEW w \in Workers, NEW p \in Pairs, NEW t \in Trades, Execute(w, p, t) \/ ExecuteRefused(w, p, t)
      PROVE  IInv'
  BY <1>7, LoopKept
<1>8. ASSUME NEW b \in Brokers, NEW p \in Pairs, Analyse(b, p) \/ Enqueue(b, p) \/ CooldownEnds(b, p)
      PROVE  IInv'
  BY <1>8, RealtimeKept
<1>9. ASSUME NEW f \in Flushes, NEW b \in Brokers, FlushFires(f, b)
      PROVE  IInv'
  BY <1>9, RealtimeKept
<1>10. ASSUME NEW f \in Flushes, FlushConnected(f)
       PROVE  IInv'
  BY <1>10, RealtimeKept
<1>11. ASSUME NEW b \in Brokers, Start(b) \/ StartGivesUp(b)
       PROVE  IInv'
  BY <1>11, SwitchesKept
<1>12. ASSUME NEW b \in Brokers, NEW c \in Cycles, StartCompletes(b, c)
       PROVE  IInv'
  BY <1>12, SwitchesKept
<1>13. ASSUME NEW B \in SUBSET Brokers, Stop(B)
       PROVE  IInv'
  BY <1>13, SwitchesKept
<1>14. ASSUME NEW t \in Trades, CloseTrade(t) \/ IngestFill(t)
       PROVE  IInv'
  BY <1>14, SwitchesKept
<1> QED
  BY <1>1, <1>2, <1>3, <1>4, <1>5, <1>6, <1>7, <1>8, <1>9, <1>10, <1>11, <1>12, <1>13, <1>14 DEF Next

-----------------------------------------------------------------------------
(* The inductive invariant holds in every reachable state.                 *)
THEOREM IInvHolds == Spec => []IInv
<1> QED
  BY Initial, Inductive, PTL DEF Spec

(* Scans and flushes keep well-formed records: none opens more trades in a *)
(* cycle than maxNewTradesPerCycle, and each waits for the trade it names. *)
THEOREM TypeCorrect == Spec => []TypeOK
<1>1. IInv => TypeOK
  BY DEF IInv
<1> QED
  BY <1>1, IInvHolds, PTL

(* Scans are scheduled exactly while a broker is on, and trades are        *)
(* watched while scans are scheduled, however starts and stops overlap.    *)
THEOREM IntervalsAlwaysFollow == Spec => []IntervalsFollowSwitch
<1>1. IInv => IntervalsFollowSwitch
  BY DEF IInv
<1> QED
  BY <1>1, IInvHolds, PTL

(* A queued realtime signal has a timer, or a flush that will take it.     *)
THEOREM NoneStranded == Spec => []NoStrandedCandidates
<1>1. IInv => NoStrandedCandidates
  BY DEF IInv
<1> QED
  BY <1>1, IInvHolds, PTL

(* r is the record of a scan after one of its steps outside the loop: its  *)
(* candidates are no more than before, or one signal more, of a pair       *)
(* without an open trade, has passed the gate.                             *)
ScanTo(c, r) ==
  /\ work' = [work EXCEPT ![c] = r]
  /\ \/ r.cands \subseteq work[c].cands
     \/ \E p \in Pairs : ~HasOpenTradeForPair(p) /\ r.cands \subseteq work[c].cands \cup {p}

LEMMA ScanMoves ==
  ASSUME IInv, NEW c \in Cycles,
         \/ CycleTick(c) \/ CycleConnected(c) \/ CycleDone(c)
         \/ \E b \in Brokers : CycleBroker(c, b) \/ StartCompletes(b, c)
         \/ \E p \in Pairs : CycleSignal(c, p)
  PROVE  \E r : ScanTo(c, r)
<1>0. work[c] \in WorkType /\ enabled \in SUBSET Brokers
  BY DEF Workers, IInv, TypeOK
<1>1. \A on : Begin(on).cands = {}
  BY DEF Begin, Idle
<1>2. Idle.cands = {}
  BY DEF Idle
<1>3. ASSUME NEW r, work' = [work EXCEPT ![c] = r], r.cands \subseteq work[c].cands
      PROVE  \E s : ScanTo(c, s)
  BY <1>3 DEF ScanTo
<1>4. CASE CycleTick(c)
  BY <1>1, <1>3, <1>4 DEF CycleTick, Become
<1>5. CASE CycleDone(c)
  BY <1>2, <1>3, <1>5 DEF CycleDone, Become
<1>6. ASSUME NEW b \in Brokers, StartCompletes(b, c)
      PROVE  \E s : ScanTo(c, s)
  BY <1>1, <1>3, <1>6 DEF StartCompletes, Become
<1>7. CASE CycleConnected(c)
  <2> DEFINE r1 == [work[c] EXCEPT !.phase = "scan"]
             r2 == [r1 EXCEPT !.pairs = Pairs]
             r3 == [r2 EXCEPT !.cands = {}]
             r4 == [r3 EXCEPT !.opened = 0]
             q  == [work[c] EXCEPT !.phase = "brokers"]
  <2>1. work' = [work EXCEPT ![c] = r4] \/ work' = [work EXCEPT ![c] = q]
    BY <1>7 DEF CycleConnected, Become
  <2>2. r1 \in WorkType
    BY <1>0, SetPhase DEF Phases
  <2>3. r2 \in WorkType
    BY <2>2, SetPairs
  <2>4. r3 \in WorkType /\ r3.cands = {}
    <3>1. {} \in SUBSET Pairs
      OBVIOUS
    <3> HIDE DEF r2
    <3> QED
      BY <2>3, <3>1, SetCands
  <2>5. r4.cands = r3.cands
    <3>1. 0 \in 0 .. MaxNewTradesPerCycle
      OBVIOUS
    <3> QED
      BY <2>4, <3>1, SetOpened
  <2>6. q.cands = work[c].cands
    BY <1>0, SetPhase DEF Phases
  <2> HIDE DEF r1, r2, r3, r4, q
  <2> QED
    BY <1>3, <2>1, <2>4, <2>5, <2>6
<1>8. ASSUME NEW b \in Brokers, CycleBroker(c, b)
      PROVE  \E s : ScanTo(c, s)
  <2> DEFINE r1 == [work[c] EXCEPT !.todo = work[c].todo \ {b}]
             r2 == [r1 EXCEPT !.broker = b]
             r3 == [r2 EXCEPT !.phase = "connect"]
  <2>1. work' = [work EXCEPT ![c] = r3] \/ work' = [work EXCEPT ![c] = r1]
    BY <1>8 DEF CycleBroker, Become
  <2>2. work[c].todo \ {b} \in SUBSET Brokers
    BY <1>0 DEF WorkType
  <2>3. r1 \in WorkType /\ r1.cands = work[c].cands
    BY <1>0, <2>2, SetTodo
  <2>4. r2 \in WorkType /\ r2.cands = r1.cands
    BY <2>3, SetBroker
  <2>5. r3.cands = r2.cands
    BY <2>4, SetPhase DEF Phases
  <2> HIDE DEF r1, r2, r3
  <2> QED
    BY <1>3, <2>1, <2>3, <2>4, <2>5
<1>9. ASSUME NEW p \in Pairs, CycleSignal(c, p)
      PROVE  \E s : ScanTo(c, s)
  <2> DEFINE left == work[c].pairs \ {p}
             next == IF left = {} THEN "execute" ELSE "scan"
             passes == Gate(work[c].broker, p)
  <2>1. PICK pass \in BOOLEAN :
          /\ pass => passes
          /\ work' = [work EXCEPT ![c] = [work[c] EXCEPT !.pairs = left,
                                        !.cands = IF pass THEN work[c].cands \cup {p} ELSE work[c].cands,
                                        !.phase = next]]
    <3>1. CASE passes
      BY <1>9, <3>1, ZenonT(60) DEF CycleSignal, Become
    <3>2. CASE ~passes
      BY <1>9, <3>2, ZenonT(60) DEF CycleSignal, Become
    <3> QED
      BY <3>1, <3>2
  <2> DEFINE more == IF pass THEN work[c].cands \cup {p} ELSE work[c].cands
             r1 == [work[c] EXCEPT !.pairs = left]
             r2 == [r1 EXCEPT !.cands = more]
             r3 == [r2 EXCEPT !.phase = next]
  <2>2. work' = [work EXCEPT ![c] = r3]
    BY <2>1
  <2>3. left \in SUBSET Pairs /\ more \in SUBSET Pairs /\ next \in Phases
    BY <1>0 DEF WorkType, Phases
  <2>4. more \subseteq work[c].cands \/ (~HasOpenTradeForPair(p) /\ more \subseteq work[c].cands \cup {p})
    BY <2>1 DEF Gate
  <2> HIDE DEF left, more, next, passes
  <2>5. r1 \in WorkType
    BY <1>0, <2>3, SetPairs
  <2>6. r2 \in WorkType /\ r2.cands = more
    BY <2>3, <2>5, SetCands
  <2>7. r3.cands = r2.cands
    BY <2>3, <2>6, SetPhase
  <2> HIDE DEF r1, r2, r3
  <2>8. ScanTo(c, r3)
    BY <2>2, <2>4, <2>6, <2>7 DEF ScanTo
  <2> QED
    BY <2>8
<1> QED
  BY <1>4, <1>5, <1>6, <1>7, <1>8, <1>9

-----------------------------------------------------------------------------
(* Which steps can give a pair a second open trade.                        *)
open == live \ filled

(* Without a new open trade no pair gets a second one.                     *)
LEMMA NoneDoubles ==
  ASSUME OneOpenTradePerPair, open' \subseteq open, \A t \in open' : pair'[t] = pair[t]
  PROVE  OneOpenTradePerPair'
BY DEF OneOpenTradePerPair, open

(* Only an execution opens a trade, and leaves the other pairs alone.      *)
LEMMA OnlyExecutionOpens ==
  ASSUME IInv, [Next]_vars
  PROVE  \/ open' \subseteq open /\ \A t \in open' : pair'[t] = pair[t]
         \/ \E w \in Workers, p \in Pairs, t \in Trades : Execute(w, p, t)
<1> DEFINE Goal == open' \subseteq open /\ \A t \in open' : pair'[t] = pair[t]
<1>0. stage \in [Trades -> Life!Stages] /\ pair \in [Trades -> Pairs \cup {None}]
  BY DEF IInv, TypeOK, Life!TypeOK
<1>1. ASSUME UNCHANGED <<stage, pair, filled>> PROVE Goal
  BY <1>1 DEF open, live
<1>2. ASSUME NEW w \in Workers, NEW p \in Pairs, NEW t \in Trades, ExecuteRefused(w, p, t)
      PROVE  Goal
  <2>1. /\ stage[t] = "new" /\ stage' = [stage EXCEPT ![t] = "refused"]
        /\ pair' = [pair EXCEPT ![t] = p] /\ filled' = filled
    BY <1>2 DEF ExecuteRefused, Life!Refuse
  <2> QED
    BY <1>0, <2>1 DEF open, live
<1>3. ASSUME NEW w \in Workers, Failed(w) PROVE Goal
  <2>1. /\ pair' = pair /\ filled' = filled
        /\ stage' = stage \/ stage' = [stage EXCEPT ![work[w].trade] = "dropped"]
    BY <1>3 DEF Failed, Life!Drop
  <2> QED
    BY <1>0, <2>1 DEF open, live
<1>4. ASSUME NEW t \in Trades, CloseTrade(t) \/ IngestFill(t) PROVE Goal
  <2>1. pair' = pair /\ filled \subseteq filled'
    BY <1>4 DEF CloseTrade, IngestFill
  <2>2. live' \subseteq live
    BY <1>0, <1>4 DEF CloseTrade, IngestFill, Life!Close, live
  <2> QED
    BY <2>1, <2>2 DEF open
<1>5. ASSUME NEW c \in Cycles,
             \/ CycleTick(c) \/ CycleConnected(c) \/ CycleDone(c)
             \/ \E b \in Brokers : StartCompletes(b, c) \/ CycleBroker(c, b)
             \/ \E p \in Pairs : CycleSignal(c, p)
      PROVE  UNCHANGED <<stage, pair, filled>>
  BY <1>5 DEF CycleTick, CycleConnected, CycleDone, StartCompletes, CycleBroker, CycleSignal, engine
<1>6. ASSUME NEW f \in Flushes,
             FlushConnected(f) \/ \E b \in Brokers : FlushFires(f, b)
      PROVE  UNCHANGED <<stage, pair, filled>>
  BY <1>6 DEF FlushConnected, FlushFires, engine
<1>7. ASSUME NEW w \in Workers,
             Opened(w) \/ LoopEnds(w) \/ \E p \in Pairs : Skip(w, p)
      PROVE  UNCHANGED <<stage, pair, filled>>
  BY <1>7 DEF Opened, LoopEnds, Skip, engine
<1>8. ASSUME NEW b \in Brokers,
             \/ Start(b) \/ StartGivesUp(b)
             \/ \E p \in Pairs : Analyse(b, p) \/ Enqueue(b, p) \/ CooldownEnds(b, p)
      PROVE  UNCHANGED <<stage, pair, filled>>
  BY <1>8 DEF Start, StartGivesUp, Analyse, Enqueue, CooldownEnds, engine
<1>9. ASSUME UNCHANGED vars \/ \E B \in SUBSET Brokers : Stop(B)
      PROVE  UNCHANGED <<stage, pair, filled>>
  BY <1>9 DEF vars, Stop, engine
<1> HIDE DEF Goal
<1>10. Goal \/ \E w \in Workers, p \in Pairs, t \in Trades : Execute(w, p, t)
  BY <1>1, <1>2, <1>3, <1>4, <1>5, <1>6, <1>7, <1>8, <1>9 DEF Next
<1> QED
  BY <1>10 DEF Goal

(* What an execution does to the trades and to its worker.                 *)
LEMMA ExecutionOpensOne ==
  ASSUME IInv, NEW w \in Workers, NEW p \in Pairs, NEW t \in Trades, Execute(w, p, t)
  PROVE  /\ open' \subseteq open \cup {t} /\ t \notin open /\ pair'[t] = p
         /\ \A u \in open : pair'[u] = pair[u]
         /\ work[w].trade = None /\ work'[w].trade = t /\ t # None
         /\ work'[w].cands = work[w].cands \ {p} /\ p \in work[w].cands
         /\ \A v \in Workers \ {w} : work'[v] = work[v]
<1>0. /\ work \in [Workers -> WorkType] /\ work[w] \in WorkType /\ Good(work[w])
      /\ stage \in [Trades -> Life!Stages] /\ pair \in [Trades -> Pairs \cup {None}]
  BY DEF IInv, TypeOK, Life!TypeOK, WorkOK
<1> DEFINE r1 == [work[w] EXCEPT !.cands = work[w].cands \ {p}]
           r2 == [r1 EXCEPT !.phase = "await"]
           r3 == [r2 EXCEPT !.trade = t]
<1>1. /\ work[w].phase = "execute" /\ p \in work[w].cands
      /\ work' = [work EXCEPT ![w] = r3]
      /\ stage[t] = "new" /\ stage' = [stage EXCEPT ![t] = "live"]
      /\ pair' = [pair EXCEPT ![t] = p] /\ filled' = filled
  BY DEF Execute, Executable, Become, Next1, Life!Admit
<1>2. r1 \in WorkType /\ r1.cands = work[w].cands \ {p}
  <2>1. work[w].cands \ {p} \in SUBSET Pairs
    BY <1>0 DEF WorkType
  <2> QED
    BY <1>0, <2>1, SetCands
<1>3. r2 \in WorkType /\ r2.cands = r1.cands
  BY <1>2, SetPhase DEF Phases
<1>4. r3 \in WorkType /\ r3.cands = r2.cands /\ r3.trade = t
  BY <1>3, SetTrade
<1> HIDE DEF r1, r2, r3
<1>5. /\ work'[w] = r3 /\ \A v \in Workers \ {w} : work'[v] = work[v]
  BY <1>0, <1>1
<1>6. open' \subseteq open \cup {t} /\ t \notin open
  BY <1>0, <1>1 DEF open, live
<1>7. pair'[t] = p /\ \A u \in open : pair'[u] = pair[u]
  BY <1>0, <1>1, <1>6 DEF open, live
<1>8. work[w].trade = None /\ t # None
  BY <1>0, <1>1 DEF Good
<1> QED
  BY <1>1, <1>2, <1>3, <1>4, <1>5, <1>6, <1>7, <1>8

(* For any number of scans, flushes and brokers, a pair gets its second    *)
(* open trade from an execution of a scheduled scan and from nothing else. *)
THEOREM DoublesComeFromScans == Spec => OnlyScansDouble
<1>1. ASSUME IInv, [Next]_vars, OneOpenTradePerPair, ~OneOpenTradePerPair'
      PROVE  \E c \in Cycles : work[c].trade = None /\ work'[c].trade # None
  <2>1. PICK w \in Workers, p \in Pairs, t \in Trades : Execute(w, p, t)
    BY <1>1, NoneDoubles, OnlyExecutionOpens
  <2>2. /\ open' \subseteq open \cup {t} /\ t \notin open /\ pair'[t] = p
        /\ \A u \in open : pair'[u] = pair[u]
        /\ work[w].trade = None /\ work'[w].trade # None
    BY <1>1, <2>1, ExecutionOpensOne
  <2>3. w \notin Flushes
    <3> SUFFICES ASSUME w \in Flushes
                 PROVE  OneOpenTradePerPair'
      BY <1>1
    <3>1. \A u \in open : pair[u] # p
      BY <2>1 DEF Execute, Rechecked, HasOpenTradeForPair, open
    <3>2. \A u, v \in open : pair[u] = pair[v] => u = v
      BY <1>1 DEF OneOpenTradePerPair, open
    <3>3. \A u, v \in open' : pair'[u] = pair'[v] => u = v
      BY <2>2, <3>1, <3>2
    <3> QED
      BY <3>3 DEF OneOpenTradePerPair, open
  <2> QED
    BY <2>2, <2>3 DEF Workers
<1>2. IInv /\ [Next]_vars =>
        [OneOpenTradePerPair /\ ~OneOpenTradePerPair'
           => \E c \in Cycles : work[c].trade = None /\ work'[c].trade # None]_vars
  BY <1>1
<1> QED
  BY <1>2, IInvHolds, PTL DEF Spec, OnlyScansDouble

(* No signal joins the candidates in the loop of a scan or a flush.        *)
LEMMA LoopTakesOnly ==
  ASSUME IInv, NEW w \in Workers,
         \/ Opened(w) \/ Failed(w) \/ LoopEnds(w)
         \/ \E p \in Pairs : \/ Skip(w, p)
                             \/ \E t \in Trades : Execute(w, p, t) \/ ExecuteRefused(w, p, t)
  PROVE  \A v \in Workers : work'[v].cands \subseteq work[v].cands
<1>0. work \in [Workers -> WorkType] /\ work[w] \in WorkType /\ Good(work[w])
  BY DEF IInv, TypeOK, WorkOK
<1>1. ASSUME NEW r, work' = [work EXCEPT ![w] = r], r.cands \subseteq work[w].cands
      PROVE  \A v \in Workers : work'[v].cands \subseteq work[v].cands
  BY <1>0, <1>1
<1>2. ASSUME NEW p \in Pairs
      PROVE  LET r == [work[w] EXCEPT !.cands = work[w].cands \ {p}] IN
             r \in WorkType /\ r.cands \subseteq work[w].cands
  <2>1. work[w].cands \ {p} \in SUBSET Pairs
    BY <1>0 DEF WorkType
  <2> QED
    BY <1>0, <2>1, SetCands
<1>3. ASSUME NEW p \in Pairs, NEW t \in Trades, Execute(w, p, t) \/ ExecuteRefused(w, p, t)
      PROVE  \A v \in Workers : work'[v].cands \subseteq work[v].cands
  <2> DEFINE r1 == [work[w] EXCEPT !.cands = work[w].cands \ {p}]
             r2 == [r1 EXCEPT !.phase = "await"]
             r3 == [r2 EXCEPT !.trade = t]
  <2>1. work' = [work EXCEPT ![w] = r3]
    BY <1>3 DEF Execute, ExecuteRefused, Become, Next1
  <2>2. r1 \in WorkType /\ r1.cands \subseteq work[w].cands
    BY <1>2
  <2>3. r2 \in WorkType /\ r2.cands = r1.cands
    BY <2>2, SetPhase DEF Phases
  <2>4. r3.cands = r2.cands
    BY <2>3, SetTrade
  <2> HIDE DEF r1, r2, r3
  <2> QED
    BY <1>1, <2>1, <2>2, <2>3, <2>4
<1>4. ASSUME NEW p \in Pairs, Skip(w, p)
      PROVE  \A v \in Workers : work'[v].cands \subseteq work[v].cands
  <2>1. work' = [work EXCEPT ![w] = [work[w] EXCEPT !.cands = work[w].cands \ {p}]]
    BY <1>4 DEF Skip, Become, Next1
  <2> QED
    BY <1>1, <1>2, <2>1
<1>5. CASE Opened(w) \/ Failed(w)
  <2> DEFINE r1 == [work[w] EXCEPT !.phase = "execute"]
             r2 == [r1 EXCEPT !.trade = None]
             r3 == [r2 EXCEPT !.opened = work[w].opened + 1]
  <2>1. /\ work[w].phase = "await"
        /\ work' = [work EXCEPT ![w] = r3] \/ work' = [work EXCEPT ![w] = r2]
    BY <1>5 DEF Opened, Failed, Become
  <2>2. work[w].opened + 1 \in 0 .. MaxNewTradesPerCycle
    BY <1>0, <2>1 DEF Good, WorkType
  <2>3. r1 \in WorkType /\ r1.cands = work[w].cands
    BY <1>0, SetPhase DEF Phases
  <2>4. r2 \in WorkType /\ r2.cands = r1.cands
    <3>1. None \in Trades \cup {None}
      OBVIOUS
    <3> HIDE DEF r1
    <3> QED
      BY <2>3, <3>1, SetTrade
  <2>5. r3.cands = r2.cands
    <3> HIDE DEF r2
    <3> QED
      BY <2>2, <2>4, SetOpened
  <2> HIDE DEF r1, r2, r3
  <2> QED
    BY <1>1, <2>1, <2>3, <2>4, <2>5
<1>6. CASE LoopEnds(w)
  <2>1. work' = [work EXCEPT ![w] = Idle] \/ work' = [work EXCEPT ![w] = Begin(work[w].todo)]
    BY <1>6 DEF LoopEnds, Become
  <2>2. Begin(work[w].todo).cands = {} /\ Idle.cands = {}
    BY DEF Begin, Idle
  <2> QED
    BY <1>1, <2>1, <2>2
<1> QED
  BY <1>3, <1>4, <1>5, <1>6

(* A scan gains a candidate only through the gate.                         *)
LEMMA GatedOrKept ==
  ASSUME IInv, [Next]_vars, Flushes = {}, NEW c \in Cycles
  PROVE  \/ work'[c].cands \subseteq work[c].cands
         \/ \E p \in Pairs : ~HasOpenTradeForPair(p) /\ work'[c].cands \subseteq work[c].cands \cup {p}
<1> DEFINE Goal == \/ work'[c].cands \subseteq work[c].cands
                   \/ \E p \in Pairs : ~HasOpenTradeForPair(p) /\ work'[c].cands \subseteq work[c].cands \cup {p}
<1>0. work \in [Workers -> WorkType] /\ c \in Workers
  BY DEF IInv, TypeOK, Workers
<1>1. CASE work' = work
  BY <1>1
<1>2. ASSUME NEW d \in Cycles, NEW r, ScanTo(d, r)
      PROVE  Goal
  <2>1. CASE d = c
    <3>1. work'[c] = r
      BY <1>0, <1>2, <2>1 DEF ScanTo
    <3>2. \/ r.cands \subseteq work[c].cands
          \/ \E p \in Pairs : ~HasOpenTradeForPair(p) /\ r.cands \subseteq work[c].cands \cup {p}
      BY <1>2, <2>1 DEF ScanTo
    <3> QED
      BY <3>1, <3>2
  <2>2. CASE d # c
    BY <1>0, <1>2, <2>2 DEF ScanTo
  <2> QED
    BY <2>1, <2>2
<1>3. ASSUME NEW d \in Cycles,
             \/ CycleTick(d) \/ CycleConnected(d) \/ CycleDone(d)
             \/ \E b \in Brokers : CycleBroker(d, b) \/ StartCompletes(b, d)
             \/ \E p \in Pairs : CycleSignal(d, p)
      PROVE  Goal
  BY <1>2, <1>3, ScanMoves
<1>4. ASSUME NEW w \in Workers,
             \/ Opened(w) \/ Failed(w) \/ LoopEnds(w)
             \/ \E p \in Pairs : \/ Skip(w, p)
                                 \/ \E t \in Trades : Execute(w, p, t) \/ ExecuteRefused(w, p, t)
      PROVE  Goal
  BY <1>0, <1>4, LoopTakesOnly
<1>5. ASSUME NEW b \in Brokers,
             \/ Start(b) \/ StartGivesUp(b)
             \/ \E p \in Pairs : Analyse(b, p) \/ Enqueue(b, p) \/ CooldownEnds(b, p)
      PROVE  work' = work
  BY <1>5 DEF Start, StartGivesUp, Analyse, Enqueue, CooldownEnds
<1>6. ASSUME \/ UNCHANGED vars
             \/ \E B \in SUBSET Brokers : Stop(B)
             \/ \E t \in Trades : CloseTrade(t) \/ IngestFill(t)
      PROVE  work' = work
  BY <1>6 DEF vars, Stop, CloseTrade, IngestFill
<1> HIDE DEF Goal
<1>7. work' = work => Goal
  BY <1>1 DEF Goal
<1>8. Goal
  BY <1>3, <1>4, <1>5, <1>6, <1>7 DEF Next
<1> QED
  BY <1>8 DEF Goal

(* A lone scan executes what it has gated itself: nobody opens a trade of  *)
(* the pair in between.                                                    *)
FreshScan == \A c \in Cycles : \A p \in work[c].cands : ~HasOpenTradeForPair(p)

LEMMA LoneScanKept ==
  ASSUME Flushes = {}, \A c, d \in Cycles : c = d,
         IInv, OneOpenTradePerPair, FreshScan, [Next]_vars
  PROVE  OneOpenTradePerPair' /\ FreshScan'
<1>1. CASE \E w \in Workers, p \in Pairs, t \in Trades : Execute(w, p, t)
  <2>1. PICK w \in Workers, p \in Pairs, t \in Trades : Execute(w, p, t)
    BY <1>1
  <2>2. /\ open' \subseteq open \cup {t} /\ t \notin open /\ pair'[t] = p
        /\ \A u \in open : pair'[u] = pair[u]
        /\ work'[w].cands = work[w].cands \ {p} /\ p \in work[w].cands
    BY <2>1, ExecutionOpensOne
  <2>3. w \in Cycles /\ \A c \in Cycles : c = w
    BY DEF Workers
  <2>4. \A q \in work[w].cands : \A u \in open : pair[u] # q
    BY <2>3 DEF FreshScan, HasOpenTradeForPair, open
  <2>5. \A u, v \in open : pair[u] = pair[v] => u = v
    BY DEF OneOpenTradePerPair, open
  <2>6. \A u, v \in open' : pair'[u] = pair'[v] => u = v
    BY <2>2, <2>4, <2>5
  <2>7. \A q \in work'[w].cands : \A u \in open' : pair'[u] # q
    BY <2>2, <2>4
  <2>8. OneOpenTradePerPair'
    BY <2>6 DEF OneOpenTradePerPair, open
  <2>9. FreshScan'
    BY <2>3, <2>7 DEF FreshScan, HasOpenTradeForPair, open
  <2> QED
    BY <2>8, <2>9
<1>2. CASE open' \subseteq open /\ \A t \in open' : pair'[t] = pair[t]
  <2>1. OneOpenTradePerPair'
    BY <1>2, NoneDoubles
  <2>2. ASSUME NEW c \in Cycles, NEW q \in work'[c].cands, NEW u \in open'
        PROVE  pair'[u] # q
    <3>1. q \in work[c].cands \/ ~HasOpenTradeForPair(q)
      BY <2>2, GatedOrKept
    <3>2. ~HasOpenTradeForPair(q)
      BY <3>1 DEF FreshScan
    <3>3. \A v \in open : pair[v] # q
      BY <3>2 DEF HasOpenTradeForPair, open
    <3> QED
      BY <1>2, <3>3
  <2>3. FreshScan'
    BY <2>2 DEF FreshScan, HasOpenTradeForPair, open
  <2> QED
    BY <2>1, <2>3
<1> QED
  BY <1>1, <1>2, OnlyExecutionOpens

(* A scan alone keeps the rule of one open trade per pair, also across its *)
(* brokers, restarts, closes and fills: it takes a second actor, another   *)
(* scan or a realtime flush, to break it.                                  *)
THEOREM LoneScanNeverDoubles ==
  ASSUME Flushes = {}, \A c, d \in Cycles : c = d
  PROVE  Spec => []OneOpenTradePerPair
<1>1. Init => OneOpenTradePerPair /\ FreshScan
  <2> SUFFICES ASSUME Init
               PROVE  OneOpenTradePerPair /\ FreshScan
    OBVIOUS
  <2>1. live = {} /\ \A c \in Cycles : work[c].cands = {}
    BY DEF Init, Life!Init, live, Idle, Workers
  <2> QED
    BY <2>1 DEF OneOpenTradePerPair, FreshScan
<1>2. IInv /\ (OneOpenTradePerPair /\ FreshScan) /\ [Next]_vars
        => (OneOpenTradePerPair /\ FreshScan)'
  BY LoneScanKept
<1> QED
  BY <1>1, <1>2, IInvHolds, PTL DEF Spec
=============================================================================
