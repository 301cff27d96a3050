---------------------------- MODULE Signals_proofs ----------------------------
(***************************************************************************)
(* Proofs about what becomes of signals, for any symbols, signals, quotes, *)
(* times and callers: an analysis that ends late brings back no old quote; *)
(* a breaker of the data-quality guard is reported by the latest report;   *)
(* and the runner sends a symbol's signal once per bar as long as no two   *)
(* of its calls have met on it, however many passes are under way.         *)
(***************************************************************************)
EXTENDS SignalPublisher, SignalSnapshots, DataQualityGuard, FiniteSetTheorems, TLAPS

(***************************************************************************)
(* SignalSnapshots                                                         *)
(***************************************************************************)

Snapshot == [kept : {TRUE}, quote : Quotes \cup {NoQuote}, age : 0 .. FreshFor,
             signal : [valid : BOOLEAN, age : 0 .. FreshFor]]

Request == [busy : {TRUE}, symbol : Tracked, seen : Quotes \cup {NoQuote}]

SnapshotInv ==
  /\ snapshots \in [Tracked -> {NoSnapshot} \cup Snapshot]
  /\ lastQuote \in [Tracked -> Quotes \cup {NoQuote}]
  /\ analyses \in [Requesters -> {NotAsking} \cup Request]
  /\ QuoteKept

LEMMA SnapshotOf ==
  ASSUME NEW q \in Quotes \cup {NoQuote}, NEW n \in 0 .. FreshFor,
         NEW g \in [valid : BOOLEAN, age : 0 .. FreshFor]
  PROVE  [kept |-> TRUE, quote |-> q, age |-> n, signal |-> g] \in Snapshot
BY DEF Snapshot

(* A snapshot that is stored with the latest quote of its symbol, or with  *)
(* none, keeps the invariant, whichever other one it costs its place.      *)
LEMMA StoringKeepsQuotes ==
  ASSUME SnapshotInv, NEW s \in Tracked, NEW q \in Quotes \cup {NoQuote},
         NEW g \in [valid : BOOLEAN, age : 0 .. FreshFor], CreateSnapshot(s, q, g),
         lastQuote' \in [Tracked -> Quotes \cup {NoQuote}],
         q \in {NoQuote, lastQuote'[s]},
         \A t \in Tracked : t # s => lastQuote'[t] = lastQuote[t]
  PROVE  snapshots' \in [Tracked -> {NoSnapshot} \cup Snapshot] /\ QuoteKept'
<1> USE SnapshotAssumption
<1> DEFINE New == [kept |-> TRUE, quote |-> q, age |-> 0, signal |-> g]
<1>1. New \in Snapshot /\ New # NoSnapshot /\ New.quote = q
  BY DEF Snapshot, NoSnapshot
<1>2. /\ snapshots' \in [Tracked -> {NoSnapshot} \cup Snapshot]
      /\ \A t \in Tracked : snapshots'[t] \in {NoSnapshot, New, snapshots[t]}
      /\ \A t \in Tracked : t # s => snapshots'[t] \in {NoSnapshot, snapshots[t]}
      /\ snapshots'[s] \in {NoSnapshot, New}
  <2>1. PICK old : \/ snapshots' = [snapshots EXCEPT ![s] = New]
                   \/ snapshots' = [[snapshots EXCEPT ![s] = New] EXCEPT ![old] = NoSnapshot]
    BY DEF CreateSnapshot
  <2> HIDE DEF New
  <2> QED
    BY <2>1, <1>1 DEF SnapshotInv
<1> HIDE DEF New
<1>3. ASSUME NEW t \in Tracked, snapshots'[t] # NoSnapshot
      PROVE  snapshots'[t].quote \in {NoQuote, lastQuote'[t]}
  <2>1. CASE t = s
    BY <1>1, <1>2, <1>3, <2>1
  <2>2. CASE t # s
    <3>1. snapshots'[t] = snapshots[t] /\ lastQuote'[t] = lastQuote[t]
      BY <1>2, <1>3, <2>2
    <3> QED
      BY <3>1, <1>3 DEF SnapshotInv, QuoteKept, Kept
  <2> QED
    BY <2>1, <2>2
<1> QED
  BY <1>2, <1>3 DEF QuoteKept, Kept

(* The quote and the signal that a new snapshot takes over.                *)
LEMMA TakenOver ==
  ASSUME SnapshotInv, NEW s \in Tracked
  PROVE  /\ QuoteOf(s) \in Quotes \cup {NoQuote} /\ QuoteOf(s) \in {NoQuote, lastQuote[s]}
         /\ SignalOf(s) \in [valid : BOOLEAN, age : 0 .. FreshFor]
<1>1. CASE s \in Kept
  <2>1. snapshots[s] \in Snapshot
    BY <1>1 DEF Kept, SnapshotInv
  <2> QED
    BY <1>1, <2>1 DEF QuoteOf, SignalOf, Snapshot, SnapshotInv, QuoteKept
<1>2. CASE s \notin Kept
  BY <1>2, SnapshotAssumption DEF QuoteOf, SignalOf, EmptySignal
<1> QED
  BY <1>1, <1>2

LEMMA SnapshotsKept == SnapshotInv /\ [SnapshotsNext]_snapshotVars => SnapshotInv'
<1> SUFFICES ASSUME SnapshotInv, [SnapshotsNext]_snapshotVars
             PROVE  SnapshotInv'
  OBVIOUS
<1> USE SnapshotAssumption
<1>t. /\ snapshots \in [Tracked -> {NoSnapshot} \cup Snapshot]
      /\ lastQuote \in [Tracked -> Quotes \cup {NoQuote}]
      /\ analyses \in [Requesters -> {NotAsking} \cup Request]
  BY DEF SnapshotInv
<1>0. [valid |-> FALSE, age |-> FreshFor] \in [valid : BOOLEAN, age : 0 .. FreshFor]
  OBVIOUS
<1>1. CASE ClockTicks
  <2>1. \A n \in 0 .. FreshFor : Older(n) \in 0 .. FreshFor
    BY DEF Older
  <2>2. ASSUME NEW s \in Kept
        PROVE  snapshots'[s] \in Snapshot /\ snapshots'[s].quote = snapshots[s].quote
    <3>1. snapshots[s] \in Snapshot
      BY DEF Kept, SnapshotInv
    <3>2. snapshots'[s] = [snapshots[s] EXCEPT !.age = Older(@), !.signal.age = Older(@)]
      BY <1>1 DEF ClockTicks, Kept
    <3>3. snapshots[s].age \in 0 .. FreshFor /\ snapshots[s].signal.age \in 0 .. FreshFor
      BY <3>1 DEF Snapshot
    <3> DEFINE g == [snapshots[s].signal EXCEPT !.age = Older(snapshots[s].signal.age)]
    <3>4. snapshots'[s] = [kept |-> snapshots[s].kept, quote |-> snapshots[s].quote,
                           age |-> Older(snapshots[s].age), signal |-> g]
      BY <3>1, <3>2 DEF Snapshot
    <3>5. g \in [valid : BOOLEAN, age : 0 .. FreshFor]
      BY <2>1, <3>1, <3>3 DEF Snapshot
    <3>6. snapshots[s].kept = TRUE /\ snapshots[s].quote \in Quotes \cup {NoQuote}
          /\ Older(snapshots[s].age) \in 0 .. FreshFor
      BY <2>1, <3>1, <3>3 DEF Snapshot
    <3> HIDE DEF g
    <3>7. snapshots'[s] \in Snapshot
      <4>1. snapshots'[s] = [kept |-> TRUE, quote |-> snapshots[s].quote,
                             age |-> Older(snapshots[s].age), signal |-> g]
        BY <3>4, <3>6
      <4> QED
        BY <4>1, <3>5, <3>6, SnapshotOf
    <3>8. snapshots'[s].quote = snapshots[s].quote
      BY <3>4
    <3> QED
      BY <3>7, <3>8
  <2>3. \A s \in Tracked : s \notin Kept => snapshots'[s] = NoSnapshot
    BY <1>1 DEF ClockTicks
  <2>4. snapshots' \in [Tracked -> {NoSnapshot} \cup Snapshot]
    BY <1>1, <2>2, <2>3 DEF ClockTicks
  <2>5. QuoteKept'
    BY <1>1, <2>2, <2>3 DEF ClockTicks, QuoteKept, Kept, SnapshotInv
  <2> QED
    BY <1>1, <1>t, <2>4, <2>5 DEF ClockTicks, SnapshotInv
<1>2. ASSUME NEW s \in Tracked, NEW q \in Quotes, UpdateQuote(s, q)
      PROVE  SnapshotInv'
  <2>1. /\ CreateSnapshot(s, q, SignalOf(s)) /\ analyses' = analyses
        /\ lastQuote' = [lastQuote EXCEPT ![s] = q]
    BY <1>2 DEF UpdateQuote
  <2>2. lastQuote' \in [Tracked -> Quotes \cup {NoQuote}] /\ lastQuote'[s] = q
        /\ \A t \in Tracked : t # s => lastQuote'[t] = lastQuote[t]
    BY <2>1, <1>t
  <2>3. snapshots' \in [Tracked -> {NoSnapshot} \cup Snapshot] /\ QuoteKept'
    BY <2>1, <2>2, TakenOver, StoringKeepsQuotes
  <2> QED
    BY <2>1, <2>2, <2>3, <1>t DEF SnapshotInv
<1>3. ASSUME NEW r \in Requesters, NEW s \in Tracked, GenerateSignal(r, s)
      PROVE  SnapshotInv'
  <2>1. lastQuote' = lastQuote
        /\ analyses' = [analyses EXCEPT ![r] = [busy |-> TRUE, symbol |-> s, seen |-> QuoteOf(s)]]
    BY <1>3 DEF GenerateSignal
  <2>2. analyses' \in [Requesters -> {NotAsking} \cup Request]
    BY <2>1, <1>t, TakenOver DEF Request
  <2>3. CASE s \in Kept
    BY <1>3, <1>t, <2>1, <2>2, <2>3 DEF GenerateSignal, SnapshotInv, QuoteKept, Kept
  <2>4. CASE s \notin Kept
    <3>1. CreateSnapshot(s, NoQuote, EmptySignal)
      BY <1>3, <2>4 DEF GenerateSignal
    <3>2. EmptySignal \in [valid : BOOLEAN, age : 0 .. FreshFor]
      BY <1>0 DEF EmptySignal
    <3>3. snapshots' \in [Tracked -> {NoSnapshot} \cup Snapshot] /\ QuoteKept'
      BY <3>1, <3>2, <2>1, <1>t, StoringKeepsQuotes
    <3> QED
      BY <3>3, <2>1, <2>2, <1>t DEF SnapshotInv
  <2> QED
    BY <2>3, <2>4
<1>4. ASSUME NEW r \in Requesters, NEW valid \in BOOLEAN, SignalGenerated(r, valid)
      PROVE  SnapshotInv'
  <2>1. /\ analyses[r] # NotAsking /\ analyses' = [analyses EXCEPT ![r] = NotAsking]
        /\ CreateSnapshot(analyses[r].symbol, MergedQuote(r), [valid |-> valid, age |-> 0])
        /\ lastQuote' = lastQuote
    BY <1>4 DEF SignalGenerated
  <2>2. analyses[r].symbol \in Tracked
    BY <2>1, <1>t DEF Request
  <2>3. MergedQuote(r) \in Quotes \cup {NoQuote}
        /\ MergedQuote(r) \in {NoQuote, lastQuote'[analyses[r].symbol]}
    BY <2>1, <2>2, TakenOver DEF MergedQuote
  <2>4. [valid |-> valid, age |-> 0] \in [valid : BOOLEAN, age : 0 .. FreshFor]
    OBVIOUS
  <2>5. snapshots' \in [Tracked -> {NoSnapshot} \cup Snapshot] /\ QuoteKept'
    BY <2>1, <2>2, <2>3, <2>4, <1>t, StoringKeepsQuotes
  <2> QED
    BY <2>1, <2>5, <1>t DEF SnapshotInv
<1>5. ASSUME NEW r \in Requesters, SignalRejected(r)
      PROVE  SnapshotInv'
  BY <1>5, <1>t DEF SignalRejected, SnapshotInv, QuoteKept, Kept
<1>6. CASE UNCHANGED <<snapshots, lastQuote, analyses>>
  BY <1>6, <1>t DEF SnapshotInv, QuoteKept, Kept
<1> QED
  BY <1>1, <1>2, <1>3, <1>4, <1>5, <1>6 DEF SnapshotsNext, CachedAnswer, snapshotVars

LEMMA SnapshotsStart == SnapshotsInit => SnapshotInv
BY DEF SnapshotsInit, SnapshotInv, QuoteKept, Kept

(* An analysis that ends after later quotes, or after an eviction, does    *)
(* not bring back the quote it began with.                                 *)
THEOREM NoOldQuote == SnapshotsSpec => []QuoteKept
<1>1. SnapshotInv => QuoteKept
  BY DEF SnapshotInv
<1> QED
  BY <1>1, SnapshotsStart, SnapshotsKept, PTL DEF SnapshotsSpec

-----------------------------------------------------------------------------
(* No more snapshots are kept than the limit; finitely many, so that they  *)
(* can be counted.                                                         *)
LimitInv == /\ IsFiniteSet(Kept) /\ Cardinality(Kept) <= MaxSnapshots
            /\ servedAge \in [Requesters -> 0 .. FreshFor]

(* A snapshot that is one too many costs another one its place.            *)
LEMMA StoringKeepsLimit ==
  ASSUME SnapshotInv, IsFiniteSet(Kept), Cardinality(Kept) <= MaxSnapshots,
         NEW s \in Tracked, NEW q, NEW g, CreateSnapshot(s, q, g)
  PROVE  IsFiniteSet(Kept') /\ Cardinality(Kept') <= MaxSnapshots
<1> DEFINE New == [kept |-> TRUE, quote |-> q, age |-> 0, signal |-> g]
           All == Kept \cup {s}
<1>1. New # NoSnapshot
  BY DEF NoSnapshot
<1>d. \A t : t \in Kept <=> t \in Tracked /\ snapshots[t] # NoSnapshot
  BY DEF Kept
<1>e. \A t : t \in Kept' <=> t \in Tracked /\ snapshots'[t] # NoSnapshot
  BY DEF Kept
<1>f. DOMAIN snapshots = Tracked /\ snapshots = [t \in Tracked |-> snapshots[t]]
  BY DEF SnapshotInv
<1>2. IsFiniteSet(All) /\ (s \notin Kept => Cardinality(All) = Cardinality(Kept) + 1)
  BY FS_AddElement
<1>3. MaxSnapshots \in Nat /\ Cardinality(Kept) \in Nat
  BY SnapshotAssumption, FS_CardinalityType
<1>4. CASE Cardinality(All) <= MaxSnapshots
  <2>1. snapshots' = [snapshots EXCEPT ![s] = New]
    BY <1>4 DEF CreateSnapshot
  <2> HIDE DEF New
  <2>2. \A t : t \in Kept' <=> t \in All
    BY <2>1, <1>1, <1>d, <1>e, <1>f
  <2>3. Kept' = All
    BY <2>2
  <2> QED
    BY <2>3, <1>2, <1>4
<1>5. CASE ~(Cardinality(All) <= MaxSnapshots)
  <2>1. PICK old \in Oldest(Kept \ {s}) :
          snapshots' = [[snapshots EXCEPT ![s] = New] EXCEPT ![old] = NoSnapshot]
    BY <1>5 DEF CreateSnapshot
  <2>2. old \in Kept /\ old # s
    BY DEF Oldest
  <2>3. s \notin Kept
    <3> SUFFICES ASSUME s \in Kept
                 PROVE  All = Kept
      BY <1>5
    <3> QED
      OBVIOUS
  <2> HIDE DEF New
  <2>4. \A t : t \in Kept' <=> t \in All \ {old}
    BY <2>1, <2>2, <1>1, <1>d, <1>e, <1>f
  <2>5. Kept' = All \ {old}
    BY <2>4
  <2>6. old \in All
    BY <2>2
  <2> HIDE DEF All
  <2>7. IsFiniteSet(All \ {old}) /\ Cardinality(All \ {old}) = Cardinality(All) - 1
    BY <1>2, <2>6, FS_RemoveElement
  <2>8. Cardinality(All) - 1 = Cardinality(Kept)
    BY <1>2, <1>3, <2>3
  <2> QED
    BY <2>5, <2>7, <2>8
<1> QED
  BY <1>4, <1>5

LEMMA LimitKept == SnapshotInv /\ LimitInv /\ [SnapshotsNext]_snapshotVars => LimitInv'
<1> SUFFICES ASSUME SnapshotInv, LimitInv, [SnapshotsNext]_snapshotVars
             PROVE  LimitInv'
  OBVIOUS
<1>i. /\ IsFiniteSet(Kept) /\ Cardinality(Kept) <= MaxSnapshots
      /\ servedAge \in [Requesters -> 0 .. FreshFor]
  BY DEF LimitInv
<1>0. ASSUME servedAge' \in [Requesters -> 0 .. FreshFor],
             Kept' = Kept \/ \E s \in Tracked : \E q, g : CreateSnapshot(s, q, g)
      PROVE  LimitInv'
  BY <1>0, <1>i, StoringKeepsLimit DEF LimitInv
<1>1. CASE ClockTicks
  <2>1. \A s \in Kept : snapshots[s] \in Snapshot
    BY DEF Kept, SnapshotInv
  <2>2. ASSUME NEW s \in Kept
        PROVE  snapshots'[s] # NoSnapshot
    <3>1. snapshots'[s] = [snapshots[s] EXCEPT !.age = Older(@), !.signal.age = Older(@)]
      BY <1>1 DEF ClockTicks, Kept
    <3>2. "age" \in DOMAIN snapshots'[s]
      BY <2>1, <3>1 DEF Snapshot
    <3> QED
      BY <3>2 DEF NoSnapshot
  <2>3. \A s \in Tracked : s \notin Kept => snapshots'[s] = NoSnapshot
    BY <1>1 DEF ClockTicks
  <2>4. Kept' = Kept
    BY <2>2, <2>3 DEF Kept
  <2> QED
    BY <1>0, <1>1, <1>i, <2>4 DEF ClockTicks
<1>2. ASSUME NEW s \in Tracked, NEW q \in Quotes, UpdateQuote(s, q)
      PROVE  LimitInv'
  BY <1>0, <1>2, <1>i DEF UpdateQuote
<1>3. ASSUME NEW r \in Requesters, NEW s \in Tracked, CachedAnswer(r, s)
      PROVE  LimitInv'
  <2>1. snapshots[s] \in Snapshot
    BY <1>3 DEF CachedAnswer, AnswersFromSnapshot, Kept, SnapshotInv
  <2>2. snapshots[s].signal.age \in 0 .. FreshFor
    BY <2>1 DEF Snapshot
  <2>3. Kept' = Kept
    BY <1>3 DEF CachedAnswer, Kept
  <2> QED
    BY <1>0, <1>3, <1>i, <2>2, <2>3 DEF CachedAnswer
<1>4. ASSUME NEW r \in Requesters, NEW s \in Tracked, GenerateSignal(r, s)
      PROVE  LimitInv'
  <2>1. UNCHANGED servedAge /\ (UNCHANGED snapshots \/ CreateSnapshot(s, NoQuote, EmptySignal))
    BY <1>4 DEF GenerateSignal
  <2>2. UNCHANGED snapshots => Kept' = Kept
    BY DEF Kept
  <2> QED
    BY <1>0, <1>i, <2>1, <2>2
<1>5. ASSUME NEW r \in Requesters, NEW valid \in BOOLEAN, SignalGenerated(r, valid)
      PROVE  LimitInv'
  <2>1. analyses[r].symbol \in Tracked
    BY <1>5 DEF SignalGenerated, SnapshotInv, Request
  <2> QED
    BY <1>0, <1>5, <1>i, <2>1 DEF SignalGenerated
<1>6. CASE UNCHANGED <<snapshots, servedAge>>
  BY <1>0, <1>6, <1>i DEF Kept
<1> QED
  BY <1>1, <1>2, <1>3, <1>4, <1>5, <1>6 DEF SnapshotsNext, SignalRejected, snapshotVars

(* Snapshots, signals and requests keep their types, and no more snapshots *)
(* are kept than the limit, whatever is created while others are analysed. *)
THEOREM SnapshotsTypeCorrect == SnapshotsSpec => []SnapshotsTypeOK
<1>1. SnapshotsInit => LimitInv
  <2> SUFFICES ASSUME SnapshotsInit
               PROVE  LimitInv
    OBVIOUS
  <2>1. Kept = {}
    BY DEF SnapshotsInit, Kept
  <2>2. IsFiniteSet(Kept) /\ Cardinality(Kept) = 0
    BY <2>1, FS_EmptySet
  <2> QED
    BY <2>2, SnapshotAssumption DEF SnapshotsInit, LimitInv
<1>2. SnapshotInv /\ LimitInv => SnapshotsTypeOK
  BY DEF SnapshotInv, LimitInv, SnapshotsTypeOK, Snapshot, Request
<1> QED
  BY <1>1, <1>2, SnapshotsStart, SnapshotsKept, LimitKept, PTL DEF SnapshotsSpec

(***************************************************************************)
(* DataQualityGuard                                                        *)
(***************************************************************************)

Assessment ==
  {Quiet} \cup [stage : {"fetching"}, age : 0 .. MaxWait, breaker : BOOLEAN]
          \cup [stage : {"fetched"}, age : 0 .. MaxWait, breaker : BOOLEAN, found : Findings]

LEMMA UpToType == ASSUME NEW n \in Nat, NEW max \in Nat
                  PROVE  UpTo(n, max) \in 0 .. max /\ UpTo(n, max) <= n
BY DEF UpTo

(* What the end of an assessment stores.                                   *)
LEMMA EndTypes ==
  ASSUME GuardTypeOK, NEW a \in Assessors, AssessmentEnds(a)
  PROVE  /\ assessing[a].age \in 0 .. MaxWait /\ assessing[a].found \in Findings
         /\ assessing[a].breaker \in BOOLEAN /\ a \in Underway
         /\ LeftAfter(a) \in 0 .. BreakerLife
         /\ StreakAfter(a) \in 0 .. MinHealthyCount
         /\ SinceAfter(a) \in 0 .. Window + MaxWait + 1
<1> USE GuardAssumption
<1>1. assessing[a] \in Assessment /\ assessing[a].stage = "fetched"
  BY DEF GuardTypeOK, AssessmentEnds, Assessment
<1>2. assessing[a] \in [stage : {"fetched"}, age : 0 .. MaxWait, breaker : BOOLEAN, found : Findings]
  BY <1>1 DEF Assessment, Quiet
<1>3. assessing[a].age \in 0 .. MaxWait /\ assessing[a].found \in Findings
      /\ assessing[a].breaker \in BOOLEAN /\ a \in Underway
  BY <1>1, <1>2 DEF Underway, Quiet
<1>4. LeftAfter(a) \in 0 .. BreakerLife
  BY DEF LeftAfter, GuardTypeOK
<1>5. StreakAfter(a) \in 0 .. MinHealthyCount
  BY DEF StreakAfter, GuardTypeOK, UpTo
<1>6. SinceAfter(a) \in 0 .. Window + MaxWait + 1
  BY <1>3 DEF SinceAfter, GuardTypeOK
<1> QED
  BY <1>3, <1>4, <1>5, <1>6

(* Every value stays within its bound.                                     *)
LEMMA TypesKept == GuardTypeOK /\ [GuardNext]_guardVars => GuardTypeOK'
<1> SUFFICES ASSUME GuardTypeOK, [GuardNext]_guardVars
             PROVE  GuardTypeOK'
  OBVIOUS
<1> USE GuardAssumption
<1>1. CASE TimePassesBy
  <2>1. assessing' \in [Assessors -> Assessment]
    <3>1. ASSUME NEW a \in Underway
          PROVE  [assessing[a] EXCEPT !.age = @ + 1] \in Assessment
      <4>1. assessing[a].age < MaxWait /\ assessing[a] \in Assessment /\ assessing[a] # Quiet
        BY <1>1, <3>1 DEF TimePassesBy, Underway, GuardTypeOK, Assessment
      <4> QED
        BY <4>1 DEF Assessment
    <3> QED
      BY <1>1, <3>1 DEF TimePassesBy, Assessment
  <2>2. reportAge' \in 0 .. Ttl /\ since' \in 0 .. Window + MaxWait + 1
    <3>1. reportAge \in 0 .. Ttl /\ since \in 0 .. Window + MaxWait + 1
      BY DEF GuardTypeOK
    <3>2. reportAge' = UpTo(reportAge + 1, Ttl) /\ since' = UpTo(since + 1, Window + MaxWait + 1)
      BY <1>1 DEF TimePassesBy
    <3>3. /\ reportAge + 1 \in Nat /\ since + 1 \in Nat
          /\ Ttl \in Nat /\ Window + MaxWait + 1 \in Nat
      BY <3>1
    <3> QED
      BY <3>2, <3>3, UpToType
  <2>3. left' \in 0 .. BreakerLife
    BY <1>1 DEF TimePassesBy, GuardTypeOK
  <2> QED
    BY <1>1, <2>1, <2>2, <2>3 DEF TimePassesBy, GuardTypeOK, Assessment
<1>2. ASSUME NEW f \in Findings, FeedChanges(f)
      PROVE  GuardTypeOK'
  BY <1>2 DEF FeedChanges, GuardTypeOK
<1>3. ASSUME NEW a \in Assessors, AssessmentBegins(a)
      PROVE  GuardTypeOK'
  <2>1. [stage |-> "fetching", age |-> 0, breaker |-> left > 0] \in Assessment
    BY DEF Assessment
  <2>2. assessing' \in [Assessors -> Assessment]
    BY <1>3, <2>1 DEF AssessmentBegins, GuardTypeOK, Assessment
  <2> QED
    BY <1>3, <2>2 DEF AssessmentBegins, GuardTypeOK, Assessment
<1>4. ASSUME NEW a \in Assessors, DataArrive(a)
      PROVE  GuardTypeOK'
  <2>1. assessing[a] \in [stage : {"fetching"}, age : 0 .. MaxWait, breaker : BOOLEAN]
    BY <1>4 DEF DataArrive, GuardTypeOK, Quiet
  <2>2. assessing' \in [Assessors -> Assessment]
    BY <1>4, <2>1 DEF DataArrive, GuardTypeOK, Assessment
  <2> QED
    BY <1>4, <2>2 DEF DataArrive, GuardTypeOK, Assessment
<1>5. ASSUME NEW a \in Assessors, AssessmentEnds(a)
      PROVE  GuardTypeOK'
  <2>e. /\ assessing[a].age \in Nat /\ LeftAfter(a) \in 0 .. BreakerLife
        /\ StreakAfter(a) \in 0 .. MinHealthyCount
        /\ SinceAfter(a) \in 0 .. Window + MaxWait + 1
    BY <1>5, EndTypes
  <2>1. assessing' \in [Assessors -> Assessment]
    BY <1>5 DEF AssessmentEnds, GuardTypeOK, Assessment
  <2>2. report' \in {"none", "block", "caution", "proceed"}
    BY <1>5 DEF AssessmentEnds, Recommendations
  <2>3. reportAge' \in 0 .. Ttl
    BY <1>5, <2>e, UpToType DEF AssessmentEnds
  <2>4. left' \in 0 .. BreakerLife /\ streak' \in 0 .. MinHealthyCount
        /\ since' \in 0 .. Window + MaxWait + 1
    BY <1>5, <2>e DEF AssessmentEnds
  <2>5. resetEarly' \in BOOLEAN
    BY <1>5 DEF AssessmentEnds, GuardTypeOK
  <2> QED
    BY <1>5, <2>1, <2>2, <2>3, <2>4, <2>5 DEF AssessmentEnds, GuardTypeOK, Assessment
<1>6. CASE UNCHANGED guardVars
  BY <1>6 DEF guardVars, GuardTypeOK
<1> QED
  BY <1>1, <1>2, <1>3, <1>4, <1>5, <1>6 DEF GuardNext

-----------------------------------------------------------------------------
(* An assessment that leaves a breaker reports a block, for it looks at    *)
(* the breaker as it is at its end; until then only time changes it.       *)
LEMMA ReportedKept ==
  GuardTypeOK /\ BreakerIsReported /\ [GuardNext]_guardVars => BreakerIsReported'
<1> SUFFICES ASSUME GuardTypeOK, BreakerIsReported, [GuardNext]_guardVars, left' > 0
             PROVE  report' = "block"
  BY DEF BreakerIsReported
<1>1. CASE TimePassesBy
  BY <1>1 DEF TimePassesBy, BreakerIsReported, GuardTypeOK
<1>2. ASSUME NEW a \in Assessors, AssessmentEnds(a)
      PROVE  report' = "block"
  <2>1. ~Reenables(a) /\ LeftAfter(a) > 0
    BY <1>2 DEF AssessmentEnds
  <2>2. BreakerAfter(a)
    BY <2>1 DEF BreakerAfter
  <2>3. Recommendations(a) = {"block"}
    BY <2>1, <2>2 DEF Recommendations
  <2> QED
    BY <1>2, <2>3 DEF AssessmentEnds
<1>3. CASE UNCHANGED <<left, report>>
  BY <1>3 DEF BreakerIsReported
<1> QED
  BY <1>1, <1>2, <1>3 DEF GuardNext, FeedChanges, AssessmentBegins, DataArrive, guardVars

LEMMA GuardInitTypes == GuardInit => GuardTypeOK
<1> SUFFICES ASSUME GuardInit
             PROVE  GuardTypeOK
  OBVIOUS
<1>1. assessing \in [Assessors -> Assessment]
  BY DEF GuardInit, Assessment
<1>2. reportAge \in 0 .. Ttl /\ left \in 0 .. BreakerLife /\ streak \in 0 .. MinHealthyCount
      /\ since \in 0 .. Window + MaxWait + 1
  BY GuardAssumption DEF GuardInit
<1> QED
  BY <1>1, <1>2 DEF GuardInit, GuardTypeOK, Assessment

(* While the breaker is active the latest report blocks the pair, whatever *)
(* assessments overlap and however they end.                               *)
THEOREM BreakerReported == GuardSpec => []BreakerIsReported
<1>1. GuardInit => BreakerIsReported
  BY DEF GuardInit, BreakerIsReported
<1> QED
  BY <1>1, GuardInitTypes, TypesKept, ReportedKept, PTL DEF GuardSpec

(* Every value of the guard stays within its bound.                        *)
THEOREM GuardTypeCorrect == GuardSpec => []GuardTypeOK
BY GuardInitTypes, TypesKept, PTL DEF GuardSpec

(***************************************************************************)
(* SignalPublisher                                                         *)
(***************************************************************************)

PublisherTypes ==
  /\ latestBar \in [Pairs -> 0 .. MaxBar] /\ publishedBar \in [Pairs -> Int]
  /\ call \in [Callers -> Calls]
  /\ keys \in [Revalidations -> SUBSET LiveKeys] /\ candidates \subseteq Pairs
  /\ overlapped \subseteq Pairs

On(c, s) == call[c] # NoCall /\ call[c].symbol = s

(* A symbol on which no two calls have met: one call at most works on      *)
(* it, with a bar that is no older than the published one, and, with       *)
(* something to send that is no update, with another bar.                  *)
OneCall(s)    == \A c, d \in Callers : On(c, s) /\ On(d, s) => c = d
BarsInTurn(s) == /\ publishedBar[s] <= latestBar[s]
                 /\ \A c \in Callers : On(c, s) =>
                      publishedBar[s] <= call[c].bar /\ call[c].bar <= latestBar[s]
AnotherBar(s) == \A c \in Callers :
                   On(c, s) /\ call[c].stage = "gated" /\ ~call[c].update =>
                     call[c].bar # publishedBar[s]
SentIsOld(s)  == \A x \in Int : <<s, x>> \in barsSent => x <= publishedBar[s]

InTurn(s) == OneCall(s) /\ BarsInTurn(s) /\ AnotherBar(s) /\ SentIsOld(s)

PublisherInv == /\ PublisherTypes /\ OncePerBar
                /\ \A s \in Pairs \ overlapped : InTurn(s)

(* A call that is under way has a symbol and a bar.                        *)
LEMMA CallTypes ==
  ASSUME PublisherTypes, NEW c \in Callers, call[c] # NoCall
  PROVE  call[c].symbol \in Pairs /\ call[c].bar \in 0 .. MaxBar
BY DEF PublisherTypes, Calls

(* A symbol keeps its turn when nothing is published for it and no call    *)
(* comes to it.                                                            *)
LEMMA LeftAlone ==
  ASSUME PublisherTypes, PublisherTypes', NEW s \in Pairs, InTurn(s),
         latestBar'[s] >= latestBar[s], publishedBar'[s] = publishedBar[s],
         \A x \in Int : <<s, x>> \in barsSent' => <<s, x>> \in barsSent,
         \A c \in Callers : call'[c] = call[c] \/ call'[c] = NoCall \/ call'[c].symbol # s
  PROVE  InTurn(s)'
<1> USE PublisherAssumption
<1>1. \A c \in Callers : On(c, s)' => On(c, s) /\ call'[c] = call[c]
  BY DEF On
<1>2. OneCall(s)'
  BY <1>1 DEF InTurn, OneCall
<1>3. BarsInTurn(s)'
  <2>1. /\ publishedBar[s] \in Int /\ latestBar[s] \in Int /\ latestBar'[s] \in Int
        /\ publishedBar[s] <= latestBar[s]
    BY DEF PublisherTypes, InTurn, BarsInTurn
  <2>2. ASSUME NEW c \in Callers, On(c, s)'
        PROVE  publishedBar'[s] <= call'[c].bar /\ call'[c].bar <= latestBar'[s]
    <3>1. call[c].bar \in Int /\ publishedBar[s] <= call[c].bar /\ call[c].bar <= latestBar[s]
      BY <1>1, <2>2, CallTypes DEF InTurn, BarsInTurn, On
    <3> QED
      BY <1>1, <2>1, <2>2, <3>1
  <2> QED
    BY <2>1, <2>2 DEF BarsInTurn
<1>4. AnotherBar(s)'
  BY <1>1 DEF InTurn, AnotherBar
<1>5. SentIsOld(s)'
  BY DEF InTurn, SentIsOld
<1> QED
  BY <1>2, <1>3, <1>4, <1>5 DEF InTurn

(* A call begins, on a symbol nobody works on unless two calls meet, or    *)
(* nothing is done.                                                        *)
LEMMA BeginKept ==
  ASSUME PublisherInv, NEW c \in Callers, NEW s \in Pairs, call[c] = NoCall, Begin(c, s),
         UNCHANGED <<latestBar, sentVars, candidates>>,
         keys' \in [Revalidations -> SUBSET LiveKeys]
  PROVE  PublisherInv'
<1> USE PublisherAssumption
<1>u. UNCHANGED <<latestBar, published, publishedBar, barsSent, sentTwice, candidates>>
  BY DEF sentVars
<1>i. PublisherTypes /\ OncePerBar /\ \A t \in Pairs \ overlapped : InTurn(t)
  BY DEF PublisherInv
<1> DEFINE New == [stage |-> "generating", symbol |-> s, bar |-> latestBar[s]]
<1>n. New \in Calls /\ New.symbol = s /\ New.bar = latestBar[s] /\ New.stage = "generating"
  BY <1>i DEF Calls, PublisherTypes
<1> HIDE DEF New
<1>1. \/ call' = call /\ overlapped' = overlapped
      \/ /\ call' = [call EXCEPT ![c] = New]
         /\ overlapped' = overlapped \cup {t \in {s} : Meets(t)}
  BY DEF Begin, New
<1>2. overlapped \subseteq overlapped' /\ overlapped' \subseteq Pairs
  BY <1>1, <1>i DEF PublisherTypes
<1>3. PublisherTypes'
  BY <1>1, <1>2, <1>i, <1>u, <1>n DEF PublisherTypes
<1>4. OncePerBar'
  BY <1>2, <1>i, <1>u DEF OncePerBar
<1>5. ASSUME NEW t \in Pairs, t \notin overlapped'
      PROVE  InTurn(t)'
  <2>1. InTurn(t)
    BY <1>2, <1>5, <1>i
  <2>2. latestBar[t] \in Int /\ publishedBar[t] \in Int
    BY <1>i DEF PublisherTypes
  <2>3. CASE t # s \/ call' = call
    <3>1. \A d \in Callers : call'[d] = call[d] \/ call'[d].symbol # t
      BY <1>1, <1>n, <1>i, <2>3 DEF PublisherTypes
    <3> QED
      BY <3>1, <2>1, <2>2, <1>3, <1>i, <1>u, LeftAlone
  <2>4. CASE t = s /\ call' # call
    <3>1. call' = [call EXCEPT ![c] = New] /\ ~Meets(s)
      BY <1>1, <1>5, <2>4
    <3>2. \A d \in Callers : ~On(d, s)
      BY <3>1 DEF Meets, On
    <3>3. \A d \in Callers : On(d, s)' => d = c /\ call'[d] = New
      BY <3>1, <3>2, <1>i DEF On, PublisherTypes
    <3>4. OneCall(s)' /\ AnotherBar(s)'
      BY <3>3, <1>n DEF OneCall, AnotherBar
    <3>5. BarsInTurn(s)'
      BY <3>3, <2>1, <2>2, <2>4, <1>n, <1>u DEF BarsInTurn, InTurn
    <3> QED
      BY <3>4, <3>5, <2>1, <2>4, <1>u DEF InTurn, SentIsOld
  <2> QED
    BY <2>3, <2>4
<1> QED
  BY <1>3, <1>4, <1>5 DEF PublisherInv

(* What is published was one call's, which nobody else works on; its bar   *)
(* is no older than any that was sent, and another one if it counts.       *)
LEMMA PublishKept ==
  ASSUME PublisherInv, NEW c \in Callers, NEW ok \in BOOLEAN, Publish(c, ok)
  PROVE  PublisherInv'
<1> USE PublisherAssumption
<1> DEFINE s   == call[c].symbol
           x   == call[c].bar
           new == {bar \in {<<s, x>>} : ok /\ ~call[c].update}
<1>i. PublisherTypes /\ OncePerBar /\ \A t \in Pairs \ overlapped : InTurn(t)
  BY DEF PublisherInv
<1>1. /\ call[c].stage = "gated" /\ call[c] # NoCall
      /\ call' = [call EXCEPT ![c] = NoCall]
      /\ publishedBar' = [publishedBar EXCEPT ![s] = x]
      /\ sentTwice' = sentTwice \cup (new \cap barsSent) /\ barsSent' = barsSent \cup new
      /\ UNCHANGED <<latestBar, keys, candidates, overlapped>>
  BY DEF Publish, Returns, NoCall
<1>2. s \in Pairs /\ x \in 0 .. MaxBar
  BY <1>1, <1>i, CallTypes
<1>n. /\ \A b \in new : b = <<s, x>> /\ ~call[c].update
      /\ \A t \in Pairs, y \in Int : <<t, y>> \in new => t = s /\ y = x
  OBVIOUS
<1>c. On(c, s)
  BY <1>1 DEF On
<1> HIDE DEF s, x, new
<1>3. PublisherTypes'
  <2>1. NoCall \in Calls
    BY DEF Calls
  <2> QED
    BY <2>1, <1>1, <1>2, <1>i DEF PublisherTypes
<1>4. s \notin overlapped =>
        /\ publishedBar[s] <= x /\ x <= latestBar[s]
        /\ ~call[c].update => x # publishedBar[s]
        /\ \A y \in Int : <<s, y>> \in barsSent => y <= publishedBar[s]
        /\ \A d \in Callers : On(d, s) => d = c
  BY <1>c, <1>i, <1>1, <1>2 DEF InTurn, OneCall, BarsInTurn, AnotherBar, SentIsOld, s, x
<1>5. OncePerBar'
  <2> SUFFICES ASSUME NEW b \in new \cap barsSent
               PROVE  b[1] \in overlapped
    BY <1>1, <1>i DEF OncePerBar
  <2>1. b = <<s, x>> /\ ~call[c].update
    BY <1>n
  <2>2. s \notin overlapped => publishedBar[s] < x /\ x <= publishedBar[s]
    BY <2>1, <1>4, <1>2, <1>i DEF PublisherTypes
  <2>3. s \in overlapped
    BY <2>2, <1>2, <1>i DEF PublisherTypes
  <2> QED
    BY <2>1, <2>3
<1>6. ASSUME NEW t \in Pairs \ overlapped
      PROVE  InTurn(t)'
  <2>1. InTurn(t) /\ latestBar[t] \in Int /\ publishedBar[t] \in Int
    BY <1>i DEF PublisherTypes
  <2>2. CASE t # s
    <3>1. \A d \in Callers : call'[d] = call[d] \/ call'[d] = NoCall
      BY <1>1, <1>i DEF PublisherTypes
    <3>2. \A y \in Int : <<t, y>> \in barsSent' => <<t, y>> \in barsSent
      BY <1>1, <1>n, <2>2
    <3>3. publishedBar'[t] = publishedBar[t] /\ latestBar'[t] >= latestBar[t]
      BY <1>1, <1>i, <2>1, <2>2 DEF PublisherTypes
    <3> QED
      BY <3>1, <3>2, <3>3, <2>1, <1>3, <1>i, LeftAlone
  <2>3. CASE t = s
    <3>1. \A d \in Callers : ~On(d, t)'
      BY <1>1, <1>4, <1>i, <2>3 DEF On, PublisherTypes
    <3>2. OneCall(t)' /\ AnotherBar(t)'
      BY <3>1 DEF OneCall, AnotherBar
    <3>3. publishedBar'[t] = x /\ publishedBar[t] \in Int
      BY <1>1, <1>2, <1>i, <2>3 DEF PublisherTypes
    <3>4. BarsInTurn(t)'
      BY <3>1, <3>3, <1>1, <1>4, <2>3 DEF BarsInTurn
    <3>5. SentIsOld(t)'
      <4> SUFFICES ASSUME NEW y \in Int, <<t, y>> \in barsSent'
                   PROVE  y <= x
        BY <3>3 DEF SentIsOld
      <4>1. CASE <<t, y>> \in barsSent
        BY <4>1, <3>3, <1>2, <1>4, <2>3
      <4>2. CASE <<t, y>> \in new
        BY <4>2, <1>2, <1>n, <2>3
      <4> QED
        BY <4>1, <4>2, <1>1
    <3> QED
      BY <3>2, <3>4, <3>5, <2>3 DEF InTurn
  <2> QED
    BY <2>2, <2>3
<1> QED
  BY <1>1, <1>3, <1>5, <1>6 DEF PublisherInv

(* A call that goes on with the symbol it has.                             *)
LEMMA GatesKept ==
  ASSUME PublisherInv, NEW c \in Callers, NEW g \in Signals, GoesToGates(c, g)
  PROVE  PublisherInv'
<1> USE PublisherAssumption
<1>i. PublisherTypes /\ OncePerBar /\ \A t \in Pairs \ overlapped : InTurn(t)
  BY DEF PublisherInv
<1> DEFINE New == [stage |-> "gated", symbol |-> call[c].symbol, bar |-> call[c].bar,
                   signal |-> g, update |-> LifecycleUpdate(call[c].symbol, g)]
<1>1. /\ call' = [call EXCEPT ![c] = New] /\ call[c].stage = "generating"
      /\ News(call[c].symbol, g, call[c].bar)
      /\ UNCHANGED <<latestBar, publishedBar, barsSent, sentTwice, keys, candidates, overlapped>>
  BY DEF GoesToGates, sentVars
<1>2. call[c] # NoCall /\ call[c].symbol \in Pairs /\ call[c].bar \in 0 .. MaxBar
  BY <1>1, <1>i, CallTypes DEF NoCall
<1>3. LifecycleUpdate(call[c].symbol, g) \in BOOLEAN
  BY DEF LifecycleUpdate
<1>n. /\ New \in Calls /\ New # NoCall /\ New.symbol = call[c].symbol /\ New.bar = call[c].bar
      /\ ~New.update => New.bar # publishedBar[New.symbol]
  BY <1>1, <1>2, <1>3 DEF Calls, NoCall, News
<1> HIDE DEF New
<1>4. PublisherTypes'
  BY <1>1, <1>i, <1>n DEF PublisherTypes
<1>5. ASSUME NEW t \in Pairs \ overlapped
      PROVE  InTurn(t)'
  <2>1. InTurn(t)
    BY <1>i
  <2>2. \A d \in Callers : /\ On(d, t)' <=> On(d, t)
                           /\ call'[d].bar = call[d].bar /\ (d # c => call'[d] = call[d])
    BY <1>1, <1>2, <1>n, <1>i DEF On, PublisherTypes
  <2>3. OneCall(t)' /\ BarsInTurn(t)' /\ SentIsOld(t)'
    BY <2>1, <2>2, <1>1 DEF InTurn, OneCall, BarsInTurn, SentIsOld
  <2>4. AnotherBar(t)'
    <3> SUFFICES ASSUME NEW d \in Callers, On(d, t)', call'[d].stage = "gated", ~call'[d].update
                 PROVE  call'[d].bar # publishedBar[t]
      BY <1>1 DEF AnotherBar
    <3>1. CASE d = c
      BY <3>1, <1>1, <1>n, <1>i DEF On, PublisherTypes
    <3>2. CASE d # c
      BY <3>2, <2>1, <2>2 DEF InTurn, AnotherBar
    <3> QED
      BY <3>1, <3>2
  <2> QED
    BY <2>3, <2>4 DEF InTurn
<1>6. OncePerBar'
  BY <1>1, <1>i DEF OncePerBar
<1> QED
  BY <1>1, <1>4, <1>5, <1>6 DEF PublisherInv

LEMMA PublisherKept == PublisherInv /\ [PublisherNext]_publisherVars => PublisherInv'
<1> SUFFICES ASSUME PublisherInv, [PublisherNext]_publisherVars
             PROVE  PublisherInv'
  OBVIOUS
<1> USE PublisherAssumption
<1>i. PublisherTypes /\ OncePerBar /\ \A t \in Pairs \ overlapped : InTurn(t)
  BY DEF PublisherInv
(* Steps that publish nothing and begin no call.                           *)
<1>0. ASSUME PublisherTypes', UNCHANGED <<publishedBar, barsSent, sentTwice, overlapped>>,
             \A t \in Pairs : latestBar'[t] >= latestBar[t],
             \A c \in Callers : call'[c] = call[c] \/ call'[c] = NoCall
      PROVE  PublisherInv'
  <2>1. ASSUME NEW t \in Pairs \ overlapped
        PROVE  InTurn(t)'
    BY <1>0, <1>i, LeftAlone
  <2> QED
    BY <1>0, <1>i, <2>1 DEF PublisherInv, OncePerBar
<1>1. ASSUME NEW s \in Pairs, BarArrives(s)
      PROVE  PublisherInv'
  <2>1. PublisherTypes' /\ \A t \in Pairs : latestBar'[t] >= latestBar[t]
    BY <1>1, <1>i DEF BarArrives, sentVars, PublisherTypes
  <2> QED
    BY <1>0, <1>1, <2>1 DEF BarArrives, sentVars
<1>2. ASSUME UNCHANGED <<latestBar, publishedBar, barsSent, sentTwice, call, overlapped, candidates>>,
             keys' \in [Revalidations -> SUBSET LiveKeys]
      PROVE  PublisherInv'
  <2>1. PublisherTypes' /\ \A t \in Pairs : latestBar'[t] >= latestBar[t]
    BY <1>2, <1>i DEF PublisherTypes
  <2> QED
    BY <1>0, <1>2, <2>1
<1>3. ASSUME NEW s \in Pairs, MinIntervalPasses(s)
      PROVE  PublisherInv'
  BY <1>2, <1>3, <1>i DEF MinIntervalPasses, sentVars, PublisherTypes
<1>4. ASSUME NEW w \in Revalidations, RevalidatePublishedSignals(w)
      PROVE  PublisherInv'
  <2>1. keys' \in [Revalidations -> SUBSET LiveKeys]
    <3> DEFINE live == {s \in Pairs : published[s] # NoSignal} \X {"signal"}
                         \cup candidates \X {"candidate"}
    <3>1. live \subseteq LiveKeys
      BY <1>i DEF PublisherTypes, LiveKeys
    <3>2. keys' = [keys EXCEPT ![w] = live]
      BY <1>4 DEF RevalidatePublishedSignals
    <3> HIDE DEF live
    <3> QED
      BY <3>1, <3>2, <1>i DEF PublisherTypes
  <2> QED
    BY <1>2, <1>4, <2>1 DEF RevalidatePublishedSignals, sentVars
<1>5. ASSUME NEW s \in Pairs, FlushCalls(s)
      PROVE  PublisherInv'
  <2>1. /\ call["flush"] = NoCall /\ Begin("flush", s)
        /\ UNCHANGED <<latestBar, sentVars, keys, candidates>>
    BY <1>5 DEF FlushCalls
  <2>2. keys' \in [Revalidations -> SUBSET LiveKeys]
    BY <2>1, <1>i DEF PublisherTypes
  <2> QED
    BY <2>1, <2>2, BeginKept DEF Callers
<1>6. ASSUME NEW w \in Revalidations, NEW k \in LiveKeys, LoopCalls(w, k)
      PROVE  PublisherInv'
  <2>1. /\ call[w] = NoCall /\ Begin(w, k[1]) /\ k[1] \in Pairs
        /\ UNCHANGED <<latestBar, sentVars, candidates>>
    BY <1>6 DEF LoopCalls, LiveKeys
  <2>2. keys' \in [Revalidations -> SUBSET LiveKeys]
    BY <1>6, <1>i DEF LoopCalls, PublisherTypes
  <2> QED
    BY <2>1, <2>2, BeginKept DEF Callers
<1>7. ASSUME NEW c \in Callers, Filtered(c) \/ NotExecutable(c)
      PROVE  PublisherInv'
  <2>1. call[c] # NoCall
    BY <1>7 DEF Filtered, NotExecutable, NoCall
  <2>2. call[c].symbol \in Pairs
    BY <2>1, <1>i, CallTypes
  <2>3. /\ call' = [call EXCEPT ![c] = NoCall] /\ NoCall \in Calls
        /\ candidates' \in {candidates, candidates \cup {call[c].symbol}}
        /\ UNCHANGED <<latestBar, publishedBar, barsSent, sentTwice, keys, overlapped>>
    BY <1>7 DEF Filtered, NotExecutable, Returns, sentVars, Calls
  <2>4. PublisherTypes' /\ \A t \in Pairs : latestBar'[t] >= latestBar[t]
    BY <2>2, <2>3, <1>i DEF PublisherTypes
  <2>5. \A d \in Callers : call'[d] = call[d] \/ call'[d] = NoCall
    BY <2>3, <1>i DEF PublisherTypes
  <2> QED
    BY <2>3, <2>4, <2>5, <1>0
<1>8. ASSUME NEW c \in Callers, NEW g \in Signals, GoesToGates(c, g)
      PROVE  PublisherInv'
  BY <1>8, GatesKept
<1>9. ASSUME NEW c \in Callers, NEW ok \in BOOLEAN, Publish(c, ok)
      PROVE  PublisherInv'
  BY <1>9, PublishKept
<1>10. CASE UNCHANGED publisherVars
  BY <1>2, <1>10, <1>i DEF publisherVars, sentVars, PublisherTypes
<1> QED
  BY <1>1, <1>3, <1>4, <1>5, <1>6, <1>7, <1>8, <1>9, <1>10 DEF PublisherNext

LEMMA PublisherStarts == PublisherInit => PublisherInv
<1> SUFFICES ASSUME PublisherInit
             PROVE  PublisherInv
  OBVIOUS
<1> USE PublisherAssumption
<1>1. PublisherTypes
  <2>1. NoCall \in Calls
    BY DEF Calls
  <2>2. call \in [Callers -> Calls] /\ latestBar \in [Pairs -> 0 .. MaxBar]
        /\ publishedBar \in [Pairs -> Int]
    BY <2>1 DEF PublisherInit
  <2> QED
    BY <2>2 DEF PublisherInit, PublisherTypes
<1>2. \A c \in Callers, s \in Pairs : ~On(c, s)
  BY DEF PublisherInit, On
<1>3. ASSUME NEW s \in Pairs
      PROVE  InTurn(s)
  <2>1. publishedBar[s] = -1 /\ latestBar[s] = 0 /\ barsSent = {}
    BY DEF PublisherInit
  <2>2. OneCall(s) /\ AnotherBar(s)
    BY <1>2 DEF OneCall, AnotherBar
  <2>3. BarsInTurn(s) /\ SentIsOld(s)
    BY <2>1, <1>2 DEF BarsInTurn, SentIsOld
  <2> QED
    BY <2>2, <2>3 DEF InTurn
<1> QED
  BY <1>1, <1>3 DEF PublisherInit, PublisherInv, OncePerBar

(* As long as no two calls, of the flush or of passes, have met on a       *)
(* symbol, it is sent at most once per bar, updates aside, however bars    *)
(* arrive and broadcasts fail between the waits of the calls.              *)
THEOREM SentOncePerBar == PublisherSpec => []OncePerBar
<1>1. PublisherInv => OncePerBar
  BY DEF PublisherInv
<1> QED
  BY <1>1, PublisherStarts, PublisherKept, PTL DEF PublisherSpec

-----------------------------------------------------------------------------
SentTypes ==
  /\ recent \subseteq Pairs /\ older \in [Revalidations -> SUBSET Revalidations]
  /\ published \in [Pairs -> Signals \cup {NoSignal}]
  /\ publishedBar \in [Pairs -> -1 .. MaxBar]
  /\ barsSent \subseteq Pairs \X (0 .. MaxBar) /\ sentTwice \subseteq barsSent

(* What is published is a signal of the engine, on a bar that has arrived. *)
LEMMA SentTypesKept ==
  PublisherTypes /\ SentTypes /\ [PublisherNext]_publisherVars => SentTypes'
<1> SUFFICES ASSUME PublisherTypes, SentTypes, [PublisherNext]_publisherVars
             PROVE  SentTypes'
  OBVIOUS
<1> USE PublisherAssumption
<1>0. ASSUME UNCHANGED sentVars, recent' \subseteq Pairs,
             older' \in [Revalidations -> SUBSET Revalidations]
      PROVE  SentTypes'
  BY <1>0 DEF sentVars, SentTypes
<1>1. ASSUME NEW c \in Callers, NEW ok \in BOOLEAN, Publish(c, ok)
      PROVE  SentTypes'
  <2>1. call[c] \in [stage : {"gated"}, symbol : Pairs, bar : 0 .. MaxBar, signal : Signals, update : BOOLEAN]
    BY <1>1 DEF Publish, PublisherTypes, Calls, NoCall
  <2>2. call[c].symbol \in Pairs /\ call[c].bar \in 0 .. MaxBar /\ call[c].signal \in Signals
    BY <2>1
  <2>3. \A b \in {<<call[c].symbol, call[c].bar>>} : b \in Pairs \X (0 .. MaxBar)
    BY <2>2
  <2>4. published' \in [Pairs -> Signals \cup {NoSignal}]
    BY <1>1, <2>2 DEF Publish, SentTypes
  <2>5. publishedBar' \in [Pairs -> -1 .. MaxBar]
    BY <1>1, <2>2 DEF Publish, SentTypes
  <2>6. recent' \subseteq Pairs
    BY <1>1, <2>2 DEF Publish, SentTypes
  <2>7. barsSent' \subseteq Pairs \X (0 .. MaxBar) /\ sentTwice' \subseteq barsSent'
    BY <1>1, <2>3 DEF Publish, SentTypes
  <2>8. older' = older
    BY <1>1 DEF Publish
  <2> QED
    BY <2>4, <2>5, <2>6, <2>7, <2>8 DEF SentTypes
<1>2. ASSUME NEW c, NEW s \in Pairs, Begin(c, s), UNCHANGED <<sentVars, older>>
      PROVE  SentTypes'
  BY <1>0, <1>2 DEF Begin, SentTypes
<1>3. ASSUME NEW w \in Revalidations, NEW k \in LiveKeys, LoopCalls(w, k)
      PROVE  SentTypes'
  <2>1. k[1] \in Pairs
    BY DEF LiveKeys
  <2> QED
    BY <1>2, <1>3, <2>1 DEF LoopCalls
<1>4. ASSUME NEW c \in Callers, Filtered(c) \/ NotExecutable(c)
      PROVE  SentTypes'
  <2>1. call[c] # NoCall
    BY <1>4 DEF Filtered, NotExecutable, NoCall
  <2>2. call[c].symbol \in Pairs
    BY <2>1, CallTypes
  <2> QED
    BY <1>0, <1>4, <2>2 DEF Filtered, NotExecutable, SentTypes
<1>5. ASSUME NEW s \in Pairs, FlushCalls(s)
      PROVE  SentTypes'
  BY <1>2, <1>5 DEF FlushCalls
<1>6. ASSUME NEW s \in Pairs, BarArrives(s) \/ MinIntervalPasses(s)
      PROVE  SentTypes'
  BY <1>0, <1>6 DEF BarArrives, MinIntervalPasses, SentTypes
<1>7. ASSUME NEW w \in Revalidations, RevalidatePublishedSignals(w)
      PROVE  SentTypes'
  <2>1. UnderWay \subseteq Revalidations
    BY DEF UnderWay
  <2>2. older' = [v \in Revalidations |-> IF v = w THEN UnderWay ELSE older[v] \ {w}]
    BY <1>7 DEF RevalidatePublishedSignals
  <2>3. older' \in [Revalidations -> SUBSET Revalidations]
    BY <2>1, <2>2 DEF SentTypes
  <2> QED
    BY <1>0, <1>7, <2>3 DEF RevalidatePublishedSignals, SentTypes
<1>8. ASSUME NEW c \in Callers, NEW g \in Signals, GoesToGates(c, g)
      PROVE  SentTypes'
  BY <1>0, <1>8 DEF GoesToGates, SentTypes
<1>9. CASE UNCHANGED publisherVars
  BY <1>0, <1>9 DEF publisherVars, SentTypes
<1> QED
  BY <1>1, <1>3, <1>4, <1>5, <1>6, <1>7, <1>8, <1>9 DEF PublisherNext

(* Calls, signals and bars keep their types, and a bar that was sent twice *)
(* was sent.                                                               *)
THEOREM PublisherTypeCorrect == PublisherSpec => []PublisherTypeOK
<1>1. PublisherInit => SentTypes
  <2> SUFFICES ASSUME PublisherInit
               PROVE  SentTypes
    OBVIOUS
  <2>1. published \in [Pairs -> Signals \cup {NoSignal}] /\ publishedBar \in [Pairs -> -1 .. MaxBar]
    BY PublisherAssumption DEF PublisherInit
  <2> QED
    BY <2>1 DEF PublisherInit, SentTypes
<1>2. PublisherInv => PublisherTypes
  BY DEF PublisherInv
<1>3. PublisherTypes /\ SentTypes => PublisherTypeOK
  BY DEF PublisherTypes, SentTypes, PublisherTypeOK
<1> QED
  BY <1>1, <1>2, <1>3, PublisherStarts, PublisherKept, SentTypesKept, PTL DEF PublisherSpec
=============================================================================
