-------------------------- MODULE Scheduling_proofs --------------------------
(***************************************************************************)
(* Proofs about three services that move on by timers of their own: the    *)
(* queue of symbols, the reconciliation, and the price feed with its       *)
(* refresh cycles, for any symbols, timers, series, providers and limits.  *)
(***************************************************************************)
EXTENDS SymbolQueue, Reconciliation, PriceFeed, FiniteSetTheorems, SequenceTheorems, TLAPS

(***************************************************************************)
(* Remainders                                                              *)
(***************************************************************************)

LEMMA ModRange == \A a \in Int, L \in Nat \ {0} : a % L \in 0 .. L-1
OBVIOUS

LEMMA ModDiv ==
  \A a \in Int, L \in Nat \ {0} : a = L * (a \div L) + (a % L) /\ a \div L \in Int
OBVIOUS

(* No multiple of L lies strictly between 0 and L.                         *)
LEMMA Between == \A k \in Int, L \in Nat \ {0} : ~(0 < L * k /\ L * k < L)
<1> SUFFICES ASSUME NEW k \in Int, NEW L \in Nat \ {0}, 0 < L * k, L * k < L
             PROVE  FALSE
  OBVIOUS
<1>1. CASE k <= 0
  BY <1>1
<1>2. CASE k >= 1
  BY <1>2
<1> QED
  BY <1>1, <1>2

(* Two numbers with one remainder are at least L apart.                    *)
LEMMA SameRest ==
  ASSUME NEW L \in Nat \ {0}, NEW p \in Int, NEW q \in Int, NEW r \in Int,
         NEW a, NEW b, a = L * p + r, b = L * q + r, a < b, b - a < L
  PROVE  FALSE
<1>1. L * p \in Int /\ L * q \in Int
  OBVIOUS
<1>2. b - a = L * q - L * p
  BY <1>1
<1>3. L * q - L * p = L * (q - p)
  OBVIOUS
<1> QED
  BY <1>1, <1>2, <1>3, Between

LEMMA ModDiffers ==
  \A a, b \in Int, L \in Nat \ {0} : a < b /\ b - a < L => a % L # b % L
<1> SUFFICES ASSUME NEW a \in Int, NEW b \in Int, NEW L \in Nat \ {0}, a < b, b - a < L,
                    a % L = b % L
             PROVE  FALSE
  OBVIOUS
<1>1. a = L * (a \div L) + (a % L) /\ a \div L \in Int
  BY ModDiv
<1>2. b = L * (b \div L) + (b % L) /\ b \div L \in Int
  BY ModDiv
<1>3. a % L \in Int
  BY ModRange
<1>4. b = L * (b \div L) + (a % L)
  BY <1>2
<1> QED
  BY <1>1, <1>2, <1>3, <1>4, SameRest

(***************************************************************************)
(* SymbolQueue                                                             *)
(***************************************************************************)

QueueInv == /\ flushTimer \in BOOLEAN /\ flushing \in BOOLEAN
            /\ FlushNotForgotten

(* A step of the queue leaves a timer, or a flush under way, if a symbol   *)
(* waits.                                                                  *)
LEMMA FlushKept == QueueInv /\ [QueueNext]_queueVars => QueueInv'
<1> SUFFICES ASSUME QueueInv, [QueueNext]_queueVars
             PROVE  QueueInv'
  OBVIOUS
<1> USE DEF QueueInv, FlushNotForgotten
<1>1. CASE FlushPending
  BY <1>1 DEF FlushPending
<1>2. CASE SymbolDone
  BY <1>2 DEF SymbolDone
<1>3. CASE FlushEnds
  BY <1>3, Zenon DEF FlushEnds, NeedsAnotherPass
<1>4. ASSUME NEW s \in Symbols, IngestSymbols(s)
      PROVE  QueueInv'
  <2>1. flushing' = flushing /\ flushTimer' = (flushTimer \/ ~flushing)
    BY <1>4 DEF IngestSymbols, ScheduleFlush
  <2> QED
    BY <2>1, Zenon
<1>5. CASE UNCHANGED queueVars
  BY <1>5 DEF queueVars
<1> QED
  BY <1>1, <1>2, <1>3, <1>4, <1>5 DEF QueueNext

(* Symbols that wait have the timer of a flush, or a flush that looks      *)
(* again when it ends, whatever arrives in between.                        *)
THEOREM NoFlushForgotten == QueueSpec => []FlushNotForgotten
<1>1. QueueInit => QueueInv
  BY DEF QueueInit, QueueInv, FlushNotForgotten
<1>2. QueueInv => FlushNotForgotten
  BY DEF QueueInv
<1> QED
  BY <1>1, <1>2, FlushKept, PTL DEF QueueSpec

(* What a flush works through is what waits, turned to the cursor.         *)
LEMMA FromCursorRotates ==
  ASSUME waiting \in Seq(Symbols), cursor \in Nat
  PROVE  /\ FromCursor \in Seq(Symbols) /\ Len(FromCursor) = Len(waiting)
         /\ NoRepetition(waiting) => NoRepetition(FromCursor)
<1> DEFINE L == Len(waiting)
           at(i) == ((cursor + i - 1) % L) + 1
<1>1. L \in Nat /\ \A i \in 1 .. L : waiting[i] \in Symbols
  OBVIOUS
<1>2. ASSUME NEW i \in 1 .. L
      PROVE  at(i) \in 1 .. L
  <2>1. cursor + i - 1 \in Int /\ L \in Nat \ {0}
    BY <1>1
  <2>2. (cursor + i - 1) % L \in 0 .. L - 1
    BY <2>1, ModRange
  <2> QED
    BY <2>2, <1>1
<1>3. FromCursor = [i \in 1 .. L |-> waiting[at(i)]]
  BY DEF FromCursor
<1> HIDE DEF at
<1>4. FromCursor \in [1 .. L -> Symbols]
  BY <1>1, <1>2, <1>3
<1>5. FromCursor \in Seq(Symbols) /\ Len(FromCursor) = L
  BY <1>1, <1>4
<1>6. ASSUME NEW i \in 1 .. L, NEW j \in 1 .. L, i < j
      PROVE  at(i) # at(j)
  <2>1. /\ cursor + i - 1 \in Int /\ cursor + j - 1 \in Int /\ L \in Nat \ {0}
        /\ cursor + i - 1 < cursor + j - 1 /\ (cursor + j - 1) - (cursor + i - 1) < L
    BY <1>1, <1>6
  <2>2. (cursor + i - 1) % L # (cursor + j - 1) % L
    BY <2>1, ModDiffers
  <2>3. (cursor + i - 1) % L \in Int /\ (cursor + j - 1) % L \in Int
    BY <2>1, ModRange
  <2> QED
    BY <2>2, <2>3 DEF at
<1>7. ASSUME NoRepetition(waiting), NEW i \in 1 .. L, NEW j \in 1 .. L,
             FromCursor[i] = FromCursor[j]
      PROVE  i = j
  <2>1. waiting[at(i)] = waiting[at(j)]
    BY <1>3, <1>7
  <2>2. at(i) = at(j)
    BY <2>1, <1>2, <1>7 DEF NoRepetition
  <2> QED
    BY <2>2, <1>6, <1>1
<1> QED
  BY <1>5, <1>7 DEF NoRepetition

(* A part of a sequence without repetition has none.                       *)
LEMMA PartKeepsOnce ==
  ASSUME NEW q \in Seq(Symbols), NEW m \in Nat, NEW n \in Nat, m >= 1, n <= Len(q), m <= n + 1
  PROVE  /\ SubSeq(q, m, n) \in Seq(Symbols)
         /\ Len(SubSeq(q, m, n)) = n - m + 1
         /\ NoRepetition(q) => NoRepetition(SubSeq(q, m, n))
<1>1. /\ SubSeq(q, m, n) \in Seq(Symbols)
      /\ Len(SubSeq(q, m, n)) = n - m + 1
      /\ \A i \in 1 .. n - m + 1 : SubSeq(q, m, n)[i] = q[m + i - 1]
  <2>1. \A i \in m .. n : q[i] \in Symbols
    OBVIOUS
  <2> QED
    BY <2>1, SubSeqProperties
<1>2. ASSUME NoRepetition(q), NEW i \in 1 .. n - m + 1, NEW j \in 1 .. n - m + 1,
             q[m + i - 1] = q[m + j - 1]
      PROVE  i = j
  <2>1. m + i - 1 \in 1 .. Len(q) /\ m + j - 1 \in 1 .. Len(q)
    OBVIOUS
  <2>2. m + i - 1 = m + j - 1
    BY <2>1, <1>2 DEF NoRepetition
  <2> QED
    BY <2>2
<1> QED
  BY <1>1, <1>2 DEF NoRepetition

(* Each symbol waits once, within the limit, and what a flush takes or     *)
(* puts back consists of symbols.                                          *)
OnceInv == QueueTypeOK /\ WaitingBounded

(* A flush parts what waits in two; an arrival adds what does not wait.    *)
LEMMA WaitingKept == OnceInv /\ [QueueNext]_queueVars => OnceInv'
<1> SUFFICES ASSUME OnceInv, [QueueNext]_queueVars
             PROVE  OnceInv'
  OBVIOUS
<1>t. /\ waiting \in Seq(Symbols) /\ batch \in Seq(Symbols) /\ cursor \in Nat
      /\ flushTimer \in BOOLEAN /\ flushQueued \in BOOLEAN /\ flushing \in BOOLEAN
      /\ Len(waiting) \in Nat /\ Len(waiting) <= MaxPending /\ NoRepetition(waiting)
      /\ MaxPending \in Nat /\ MaxSymbolsPerFlush \in Nat
  BY QueueAssumption DEF OnceInv, QueueTypeOK, WaitingBounded
<1>1. CASE FlushPending
  <2>1. /\ FromCursor \in Seq(Symbols) /\ Len(FromCursor) = Len(waiting)
        /\ NoRepetition(FromCursor)
    BY <1>t, FromCursorRotates
  <2>2. BatchSize \in 0 .. Len(waiting)
    BY <1>t DEF BatchSize
  <2>3. SubSeq(FromCursor, 1, BatchSize) \in Seq(Symbols)
    <3>1. BatchSize \in Nat /\ BatchSize <= Len(FromCursor)
      BY <2>1, <2>2, <1>t
    <3> QED
      BY <2>1, <3>1, PartKeepsOnce
  <2>4. LET w == SubSeq(FromCursor, BatchSize + 1, Len(waiting))
        IN  w \in Seq(Symbols) /\ Len(w) = Len(waiting) - BatchSize /\ NoRepetition(w)
    <3>1. BatchSize + 1 \in Nat /\ BatchSize + 1 >= 1 /\ BatchSize + 1 <= Len(waiting) + 1
      BY <2>2, <1>t
    <3>2. Len(waiting) - (BatchSize + 1) + 1 = Len(waiting) - BatchSize
      BY <2>2, <1>t
    <3> QED
      BY <2>1, <3>1, <3>2, <1>t, PartKeepsOnce
  <2>5. cursor' \in Nat
    <3>1. CASE waiting = <<>>
      BY <3>1, <1>1, <1>t DEF FlushPending
    <3>2. CASE waiting # <<>>
      <4>1. Len(waiting) \in Nat \ {0} /\ cursor + BatchSize \in Int
        BY <3>2, <1>t, <2>2
      <4>2. (cursor + BatchSize) % Len(waiting) \in 0 .. Len(waiting) - 1
        BY <4>1, ModRange
      <4> QED
        BY <4>2, <3>2, <1>1, <1>t DEF FlushPending
    <3> QED
      BY <3>1, <3>2
  <2>6. /\ waiting' = SubSeq(FromCursor, BatchSize + 1, Len(waiting))
        /\ batch' = SubSeq(FromCursor, 1, BatchSize)
        /\ flushTimer' = FALSE /\ flushing' = TRUE /\ flushQueued' = flushQueued
    BY <1>1 DEF FlushPending
  <2>7. waiting' \in Seq(Symbols) /\ NoRepetition(waiting') /\ Len(waiting') <= MaxPending
    BY <2>2, <2>4, <2>6, <1>t
  <2>8. batch' \in Seq(Symbols)
    BY <2>3, <2>6
  <2> QED
    BY <1>t, <2>5, <2>6, <2>7, <2>8 DEF OnceInv, QueueTypeOK, WaitingBounded
<1>2. CASE SymbolDone
  BY <1>2, <1>t DEF SymbolDone, OnceInv, QueueTypeOK, WaitingBounded
<1>3. CASE FlushEnds
  BY <1>3, <1>t DEF FlushEnds, OnceInv, QueueTypeOK, WaitingBounded, NeedsAnotherPass
<1>4. ASSUME NEW s \in Symbols, IngestSymbols(s)
      PROVE  OnceInv'
  <2>1. /\ waiting' = IF In(s, waiting) \/ ~Fits(s) THEN waiting ELSE Append(waiting, s)
        /\ flushTimer' = (flushTimer \/ ~flushing) /\ flushQueued' = (flushQueued \/ flushing)
        /\ UNCHANGED <<cursor, flushing, batch>>
    BY <1>4 DEF IngestSymbols, ScheduleFlush
  <2>2. waiting' \in Seq(Symbols) /\ NoRepetition(waiting') /\ Len(waiting') <= MaxPending
    <3>1. CASE waiting' = waiting
      BY <3>1, <1>t
    <3>2. CASE waiting' = Append(waiting, s) /\ ~In(s, waiting) /\ Fits(s)
      <4>1. /\ waiting' \in Seq(Symbols) /\ Len(waiting') = Len(waiting) + 1
            /\ \A i \in 1 .. Len(waiting) : waiting'[i] = waiting[i] /\ waiting'[i] # s
            /\ waiting'[Len(waiting) + 1] = s
        BY <3>2, <1>t DEF In
      <4>2. NoRepetition(waiting')
        BY <4>1, <1>t DEF NoRepetition
      <4> QED
        BY <4>1, <4>2, <3>2, <1>t DEF Fits
    <3> QED
      BY <2>1, <3>1, <3>2
  <2>3. flushTimer' \in BOOLEAN /\ flushQueued' \in BOOLEAN
    BY <2>1
  <2> QED
    BY <2>1, <2>2, <2>3, <1>t DEF OnceInv, QueueTypeOK, WaitingBounded
<1>5. CASE UNCHANGED queueVars
  BY <1>5, <1>t DEF queueVars, OnceInv, QueueTypeOK, WaitingBounded
<1> QED
  BY <1>1, <1>2, <1>3, <1>4, <1>5 DEF QueueNext

LEMMA NoneWaits == QueueInit => OnceInv
<1> SUFFICES ASSUME QueueInit
             PROVE  OnceInv
  OBVIOUS
<1>1. <<>> \in Seq(Symbols) /\ Len(waiting) = 0
  BY DEF QueueInit
<1>2. QueueTypeOK
  BY <1>1 DEF QueueInit, QueueTypeOK
<1>3. WaitingBounded
  BY <1>1, QueueAssumption DEF WaitingBounded, NoRepetition
<1> QED
  BY <1>2, <1>3 DEF OnceInv

(* However often symbols arrive while a flush puts its rest back, each     *)
(* waits once, within the limit.                                           *)
THEOREM EachWaitsOnce == QueueSpec => []WaitingBounded
<1>1. OnceInv => WaitingBounded
  BY DEF OnceInv
<1> QED
  BY <1>1, NoneWaits, WaitingKept, PTL DEF QueueSpec

(* The queue, the batch and the cursor keep their types.                   *)
THEOREM QueueTypeCorrect == QueueSpec => []QueueTypeOK
<1>1. OnceInv => QueueTypeOK
  BY DEF OnceInv
<1> QED
  BY <1>1, NoneWaits, WaitingKept, PTL DEF QueueSpec

(***************************************************************************)
(* Reconciliation                                                          *)
(***************************************************************************)

ChainInv == /\ handle \in armed \cup {NoTimer}
            /\ NoTimer \notin armed
            /\ ReconciliationLives

(* A timer that is set takes the place of the run or of nothing; a stop    *)
(* alone ends the wish.                                                    *)
LEMMA ChainKept == ChainInv /\ [ReconciliationNext]_reconciliationVars => ChainInv'
<1> SUFFICES ASSUME ChainInv, [ReconciliationNext]_reconciliationVars
             PROVE  ChainInv'
  OBVIOUS
<1> USE TimerAssumption DEF ChainInv, ReconciliationLives
<1>1. CASE StartReconciliation
  <2>1. CASE handle # NoTimer
    BY <1>1, <2>1 DEF StartReconciliation
  <2>2. CASE handle = NoTimer
    BY <1>1, <2>2 DEF StartReconciliation, Schedule, Unused
  <2> QED
    BY <2>1, <2>2
<1>2. CASE StopReconciliation
  BY <1>2 DEF StopReconciliation
<1>3. ASSUME NEW t \in Timers, TimerFires(t)
      PROVE  ChainInv'
  BY <1>3 DEF TimerFires
<1>4. ASSUME NEW t \in Timers, NEW ok \in BOOLEAN, RunEnds(t, ok)
      PROVE  ChainInv'
  BY <1>4 DEF RunEnds, Rearms, Schedule
<1>5. CASE UNCHANGED reconciliationVars
  BY <1>5 DEF reconciliationVars
<1> QED
  BY <1>1, <1>2, <1>3, <1>4, <1>5 DEF ReconciliationNext

(* Starts and stops during runs, and runs that fail, never leave a wanted  *)
(* service without a timer or a run.                                       *)
THEOREM ReconciliationGoesOn == ReconciliationSpec => []ReconciliationLives
<1>1. ReconciliationInit => ChainInv
  BY DEF ReconciliationInit, ChainInv, ReconciliationLives
<1>2. ChainInv => ReconciliationLives
  BY DEF ChainInv
<1> QED
  BY <1>1, <1>2, ChainKept, PTL DEF ReconciliationSpec

(* A timer that fires is no longer set while its run is under way.         *)
LEMMA TimersKept ==
  ReconciliationTypeOK /\ [ReconciliationNext]_reconciliationVars => ReconciliationTypeOK'
<1> SUFFICES ASSUME ReconciliationTypeOK, [ReconciliationNext]_reconciliationVars
             PROVE  ReconciliationTypeOK'
  OBVIOUS
<1> USE DEF ReconciliationTypeOK
<1>1. CASE StartReconciliation
  BY <1>1 DEF StartReconciliation, Schedule, Unused
<1>2. CASE StopReconciliation
  BY <1>2 DEF StopReconciliation
<1>3. ASSUME NEW t \in Timers, TimerFires(t)
      PROVE  ReconciliationTypeOK'
  BY <1>3 DEF TimerFires
<1>4. ASSUME NEW t \in Timers, NEW ok \in BOOLEAN, RunEnds(t, ok)
      PROVE  ReconciliationTypeOK'
  BY <1>4 DEF RunEnds, Rearms, Schedule
<1>5. CASE UNCHANGED reconciliationVars
  BY <1>5 DEF reconciliationVars
<1> QED
  BY <1>1, <1>2, <1>3, <1>4, <1>5 DEF ReconciliationNext

LEMMA NoTimerYet == ReconciliationInit => ReconciliationTypeOK
BY DEF ReconciliationInit, ReconciliationTypeOK

(* No timer is set and under way at once, and the handle is of one that is *)
(* set.                                                                    *)
THEOREM ReconciliationTypeCorrect == ReconciliationSpec => []ReconciliationTypeOK
BY NoTimerYet, TimersKept, PTL DEF ReconciliationSpec

(***************************************************************************)
(* PriceFeed                                                               *)
(***************************************************************************)

FeedTypes == /\ usage \in [Providers -> Nat]
             /\ fetch \in [Series -> Providers \cup {NoProvider}]
             /\ untried \in [Series -> SUBSET Providers]

(* The provider that a fetch waits for is not asked again by it.           *)
FeedInv == /\ FeedTypes /\ QuotaOverrunBounded
           /\ \A k \in Series : fetch[k] \notin untried[k]

(* Keys under way at a provider are keys; finitely many.                   *)
LEMMA AskedFinite ==
  ASSUME NEW p, NEW F
  PROVE  LET A == {k \in Series : F[k] = p}
         IN IsFiniteSet(A) /\ Cardinality(A) \in Nat /\ Cardinality(A) <= Cardinality(Series)
BY FeedAssumption, FS_Subset, FS_CardinalityType

(* A provider that is asked has room in its quota, so that the bound holds *)
(* for it whatever is under way.                                           *)
LEMMA AllowedHasRoom == \A p \in Allowed : p \in Providers /\ usage[p] < MaxRequests
BY DEF Allowed, CanMakeRequest

LEMMA StaysBounded ==
  ASSUME FeedTypes, FeedTypes', NEW p \in Providers,
         usage'[p] < MaxRequests
  PROVE  usage'[p] + 2 * Cardinality(Asked(p)') <= MaxRequests - 1 + 2 * Cardinality(Series)
<1>1. Cardinality(Asked(p)') \in Nat /\ Cardinality(Asked(p)') <= Cardinality(Series)
  BY AskedFinite DEF Asked
<1>2. usage'[p] \in Nat /\ MaxRequests \in Nat /\ Cardinality(Series) \in Nat
  BY FeedAssumption, FS_CardinalityType DEF FeedTypes
<1> QED
  BY <1>1, <1>2

(* A key moves from its provider, whose window has the request once or     *)
(* twice, to another one that has room, or to none.                        *)
LEMMA FetchMoves ==
  ASSUME FeedInv, FeedTypes', NEW k \in Series, NEW r \in Providers \cup {NoProvider},
         fetch' = [fetch EXCEPT ![k] = r],
         r # NoProvider => usage'[r] < MaxRequests,
         \A q \in Providers : \/ usage'[q] <= usage[q]
                              \/ q = fetch[k] /\ q # r /\ usage'[q] <= usage[q] + 2
  PROVE  QuotaOverrunBounded'
<1> SUFFICES ASSUME NEW q \in Providers
             PROVE  usage'[q] + 2 * Cardinality(Asked(q)') <= MaxRequests - 1 + 2 * Cardinality(Series)
  BY DEF QuotaOverrunBounded
<1>1. usage[q] \in Nat /\ usage'[q] \in Nat /\ MaxRequests \in Nat /\ Cardinality(Series) \in Nat
  BY FeedAssumption, FS_CardinalityType DEF FeedInv, FeedTypes
<1>2. usage[q] + 2 * Cardinality(Asked(q)) <= MaxRequests - 1 + 2 * Cardinality(Series)
  BY DEF FeedInv, QuotaOverrunBounded
<1>3. IsFiniteSet(Asked(q)) /\ Cardinality(Asked(q)) \in Nat
  BY AskedFinite DEF Asked
<1>4. q # NoProvider
  BY FeedAssumption
<1>5. CASE q = r
  BY <1>4, <1>5, StaysBounded DEF FeedInv
<1>6. CASE q # r /\ q = fetch[k]
  <2>1. Asked(q)' = Asked(q) \ {k} /\ k \in Asked(q)
    BY <1>6 DEF Asked, FeedInv, FeedTypes
  <2>2. Cardinality(Asked(q)') = Cardinality(Asked(q)) - 1
    BY <2>1, <1>3, FS_RemoveElement
  <2>3. usage'[q] <= usage[q] + 2
    BY <1>1
  <2> QED
    BY <2>2, <2>3, <1>1, <1>2, <1>3
<1>7. CASE q # r /\ q # fetch[k]
  <2>1. Asked(q)' = Asked(q)
    BY <1>7 DEF Asked, FeedInv, FeedTypes
  <2>2. usage'[q] <= usage[q]
    BY <1>7
  <2> QED
    BY <2>1, <2>2, <1>1, <1>2, <1>3
<1> QED
  BY <1>5, <1>6, <1>7

(* A request that ends adds one sample or two, to the provider it was sent *)
(* to.                                                                     *)
LEMMA CountedOnOne ==
  ASSUME FeedTypes, NEW k \in Series, Counted(k)
  PROVE  /\ fetch[k] \in Providers /\ usage' \in [Providers -> Nat]
         /\ \A q \in Providers : q # fetch[k] => usage'[q] = usage[q]
         /\ usage'[fetch[k]] <= usage[fetch[k]] + 2
<1>1. fetch[k] \in Providers
  BY DEF Counted, FeedTypes
<1>2. PICK n \in {1, 2} : usage' = [usage EXCEPT ![fetch[k]] = @ + n]
  BY DEF Counted, Samples
<1>3. usage[fetch[k]] \in Nat
  BY <1>1 DEF FeedTypes
<1>4. usage' \in [Providers -> Nat]
  <2>1. usage[fetch[k]] + n \in Nat
    BY <1>3
  <2> QED
    BY <1>2, <2>1 DEF FeedTypes
<1>5. usage'[fetch[k]] = usage[fetch[k]] + n
  BY <1>1, <1>2 DEF FeedTypes
<1>6. \A q \in Providers : q # fetch[k] => usage'[q] = usage[q]
  BY <1>2 DEF FeedTypes
<1>7. usage'[fetch[k]] <= usage[fetch[k]] + 2
  BY <1>3, <1>5
<1> QED
  BY <1>1, <1>4, <1>6, <1>7

(* A fetch that asks an allowed provider, and keeps for later none but     *)
(* others.                                                                 *)
LEMMA AsksKeeps ==
  ASSUME FeedTypes, \A j \in Series : fetch[j] \notin untried[j],
         NEW k \in Series, NEW p \in Providers \cup {NoProvider},
         NEW rest \in SUBSET Providers, p \notin rest, Asks(k, p, rest)
  PROVE  /\ fetch' = [fetch EXCEPT ![k] = p]
         /\ fetch' \in [Series -> Providers \cup {NoProvider}]
         /\ untried' \in [Series -> SUBSET Providers]
         /\ \A j \in Series : fetch'[j] \notin untried'[j]
<1>1. fetch' = [fetch EXCEPT ![k] = p] /\ untried' = [untried EXCEPT ![k] = rest]
  BY DEF Asks
<1>2. fetch' \in [Series -> Providers \cup {NoProvider}]
  BY <1>1 DEF FeedTypes
<1>3. untried' \in [Series -> SUBSET Providers]
  BY <1>1 DEF FeedTypes
<1>4. ASSUME NEW j \in Series
      PROVE  fetch'[j] \notin untried'[j]
  <2>1. CASE j = k
    BY <1>1, <2>1 DEF FeedTypes
  <2>2. CASE j # k
    <3>1. fetch'[j] = fetch[j] /\ untried'[j] = untried[j]
      BY <1>1, <2>2 DEF FeedTypes
    <3> QED
      BY <3>1
  <2> QED
    BY <2>1, <2>2
<1> QED
  BY <1>1, <1>2, <1>3, <1>4

LEMMA BeginsWith ==
  ASSUME NEW k, BeginFetch(k)
  PROVE  \E p \in Allowed : \E rest \in SUBSET Providers : p \notin rest /\ Asks(k, p, rest)
<1>1. PICK p \in Allowed, before \in SUBSET (Providers \ Allowed) :
        Asks(k, p, Providers \ (before \cup {p}))
  BY DEF BeginFetch
<1>2. Providers \ (before \cup {p}) \in SUBSET Providers /\ p \notin Providers \ (before \cup {p})
  OBVIOUS
<1> QED
  BY <1>1, <1>2

LEMMA BeginKeeps ==
  ASSUME FeedInv, NEW k \in Series, BeginFetch(k), usage' = usage
  PROVE  FeedInv'
<1>t. FeedTypes /\ \A j \in Series : fetch[j] \notin untried[j]
  BY DEF FeedInv
<1>1. PICK p \in Allowed : \E rest \in SUBSET Providers : p \notin rest /\ Asks(k, p, rest)
  BY BeginsWith
<1>2. PICK rest \in SUBSET Providers : p \notin rest /\ Asks(k, p, rest)
  BY <1>1
<1>3. p \in Providers /\ usage[p] < MaxRequests
  BY AllowedHasRoom
<1>4. /\ fetch' = [fetch EXCEPT ![k] = p]
      /\ fetch' \in [Series -> Providers \cup {NoProvider}]
      /\ untried' \in [Series -> SUBSET Providers]
      /\ \A j \in Series : fetch'[j] \notin untried'[j]
  BY <1>t, <1>2, <1>3, AsksKeeps
<1>5. FeedTypes'
  BY <1>t, <1>4 DEF FeedTypes
<1>6. \A q \in Providers : usage'[q] <= usage[q]
  BY <1>t DEF FeedTypes
<1>7. QuotaOverrunBounded'
  BY <1>3, <1>4, <1>5, <1>6, FetchMoves
<1> QED
  BY <1>4, <1>5, <1>7 DEF FeedInv

LEMMA FeedKept == FeedInv /\ [FeedNext]_feedVars => FeedInv'
<1> SUFFICES ASSUME FeedInv, [FeedNext]_feedVars
             PROVE  FeedInv'
  OBVIOUS
<1>t. FeedTypes /\ \A j \in Series : fetch[j] \notin untried[j]
  BY DEF FeedInv
<1>i. NoProvider \notin Providers
  BY FeedAssumption
<1>n. \A q \in Providers : usage[q] \in Nat
  BY <1>t DEF FeedTypes
(* Steps that ask nobody, and add no request.                              *)
<1>0. ASSUME fetch' = fetch, untried' = untried, usage' \in [Providers -> Nat],
             \A q \in Providers : usage'[q] <= usage[q]
      PROVE  FeedInv'
  <2>1. FeedTypes'
    BY <1>0, <1>t DEF FeedTypes
  <2>2. ASSUME NEW q \in Providers
        PROVE  usage'[q] + 2 * Cardinality(Asked(q)') <= MaxRequests - 1 + 2 * Cardinality(Series)
    <3>1. Asked(q)' = Asked(q) /\ Cardinality(Asked(q)) \in Nat
      BY <1>0, AskedFinite DEF Asked
    <3>2. usage[q] + 2 * Cardinality(Asked(q)) <= MaxRequests - 1 + 2 * Cardinality(Series)
      BY DEF FeedInv, QuotaOverrunBounded
    <3>3. usage'[q] \in Nat /\ usage[q] \in Nat /\ usage'[q] <= usage[q]
      BY <1>0, <1>n
    <3> QED
      BY <3>1, <3>2, <3>3, FeedAssumption, FS_CardinalityType
  <2>3. \A j \in Series : fetch'[j] \notin untried'[j]
    BY <1>0, <1>t
  <2> QED
    BY <2>1, <2>2, <2>3 DEF FeedInv, QuotaOverrunBounded
<1>5. CASE UNCHANGED <<fetch, untried, usage>>
  <2>1. fetch' = fetch /\ untried' = untried /\ usage' = usage
    BY <1>5
  <2>2. usage' \in [Providers -> Nat] /\ \A q \in Providers : usage'[q] <= usage[q]
    BY <2>1, <1>t, <1>n DEF FeedTypes
  <2> QED
    BY <2>1, <2>2, <1>0
<1>1. ASSUME NEW k \in Series, FetchPriceData(k)
      PROVE  FeedInv'
  BY <1>1, BeginKeeps DEF FetchPriceData
(* A request ends, and its fetch asks an allowed provider or nobody.       *)
<1>2. ASSUME NEW k \in Series, Counted(k), NEW p \in Providers \cup {NoProvider},
             NEW rest \in SUBSET Providers, p \notin rest, Asks(k, p, rest),
             p # fetch[k], p # NoProvider => usage[p] < MaxRequests
      PROVE  FeedInv'
  <2>1. /\ fetch[k] \in Providers /\ usage' \in [Providers -> Nat]
        /\ \A q \in Providers : q # fetch[k] => usage'[q] = usage[q]
        /\ usage'[fetch[k]] <= usage[fetch[k]] + 2
    BY <1>2, <1>t, CountedOnOne
  <2>2. /\ fetch' = [fetch EXCEPT ![k] = p]
        /\ fetch' \in [Series -> Providers \cup {NoProvider}]
        /\ untried' \in [Series -> SUBSET Providers]
        /\ \A j \in Series : fetch'[j] \notin untried'[j]
    BY <1>2, <1>t, AsksKeeps
  <2>3. FeedTypes'
    BY <2>1, <2>2 DEF FeedTypes
  <2>4. \A q \in Providers : \/ usage'[q] <= usage[q]
                             \/ q = fetch[k] /\ q # p /\ usage'[q] <= usage[q] + 2
    BY <2>1, <1>2, <1>n
  <2>5. p # NoProvider => usage'[p] < MaxRequests
    BY <2>1, <1>2
  <2>6. QuotaOverrunBounded'
    BY <2>2, <2>3, <2>4, <2>5, FetchMoves
  <2> QED
    BY <2>2, <2>3, <2>6 DEF FeedInv
<1>p. \A k \in Series : Counted(k) => fetch[k] \in Providers
  BY <1>t DEF Counted, FeedTypes
<1>3. ASSUME NEW k \in Series, AnswerArrives(k)
      PROVE  FeedInv'
  <2>1. Counted(k) /\ Asks(k, NoProvider, {}) /\ NoProvider # fetch[k]
    BY <1>3, <1>p, <1>i DEF AnswerArrives
  <2> QED
    BY <2>1, <1>2
<1>4. ASSUME NEW k \in Series, RequestFails(k)
      PROVE  FeedInv'
  <2>1. Counted(k) /\ fetch[k] \in Providers
    BY <1>4, <1>p DEF RequestFails
  <2>2. CASE \E p \in untried[k] \cap Allowed : \E rest \in SUBSET (untried[k] \ {p}) : Asks(k, p, rest)
    <3>1. PICK p \in untried[k] \cap Allowed :
            \E rest \in SUBSET (untried[k] \ {p}) : Asks(k, p, rest)
      BY <2>2
    <3>2. PICK rest \in SUBSET (untried[k] \ {p}) : Asks(k, p, rest)
      BY <3>1
    <3>3. untried[k] \subseteq Providers
      BY <1>t DEF FeedTypes
    <3>4. rest \in SUBSET Providers /\ p \notin rest
      BY <3>3
    <3>5. p \in Providers /\ usage[p] < MaxRequests /\ p # fetch[k]
      BY <1>t, AllowedHasRoom
    <3> QED
      BY <2>1, <3>2, <3>4, <3>5, <1>2
  <2>3. CASE Asks(k, NoProvider, {})
    BY <2>1, <2>3, <1>i, <1>2
  <2> QED
    BY <1>4, <2>2, <2>3 DEF RequestFails
<1>6. ASSUME NEW p \in Providers, WindowPasses(p)
      PROVE  FeedInv'
  <2>1. fetch' = fetch /\ untried' = untried /\ usage[p] > 0 /\ usage' = [usage EXCEPT ![p] = @ - 1]
    BY <1>6 DEF WindowPasses
  <2>2. usage' \in [Providers -> Nat] /\ \A q \in Providers : usage'[q] <= usage[q]
    BY <2>1, <1>t, <1>n DEF FeedTypes
  <2> QED
    BY <2>1, <2>2, <1>0
<1>7. ASSUME NEW c \in Cycles, ExecuteTask(c), Head(selected[c]) \in Series
      PROVE  FeedInv'
  <2>1. usage' = usage
    BY <1>7 DEF ExecuteTask
  <2>2. CASE UNCHANGED <<fetch, untried>>
    BY <2>1, <2>2, <1>5
  <2>3. CASE BeginFetch(Head(selected[c]))
    BY <2>1, <2>3, <1>7, BeginKeeps
  <2> QED
    BY <1>7, <2>2, <2>3 DEF ExecuteTask
<1>8. ASSUME NEW c \in Cycles, ExecuteTask(c), Head(selected[c]) \notin Series
      PROVE  FeedInv'
  <2>1. usage' = usage
    BY <1>8 DEF ExecuteTask
  <2>2. CASE UNCHANGED <<fetch, untried>>
    BY <2>1, <2>2, <1>5
  <2>3. CASE BeginFetch(Head(selected[c]))
    <3>1. PICK p, rest : Asks(Head(selected[c]), p, rest)
      BY <2>3 DEF BeginFetch
    <3>2. fetch' = fetch /\ untried' = untried
      BY <3>1, <1>8, <1>t DEF Asks, FeedTypes
    <3> QED
      BY <2>1, <3>2, <1>5
  <2> QED
    BY <1>8, <2>2, <2>3 DEF ExecuteTask
<1>9. CASE \E k \in Refreshed : CadencePasses(k)
  BY <1>9, <1>5 DEF CadencePasses
<1>10. CASE \E p \in Providers : BlockPasses(p)
  BY <1>10, <1>5 DEF BlockPasses
<1>11. CASE \E c \in Cycles : \E s \in Selections : RunCycle(c, s)
  BY <1>11, <1>5 DEF RunCycle
<1>12. CASE UNCHANGED feedVars
  BY <1>12, <1>5 DEF feedVars
<1> QED
  BY <1>1, <1>3, <1>4, <1>6, <1>7, <1>8, <1>9, <1>10, <1>11, <1>12 DEF FeedNext

(* Requests under way, each of which may be recorded twice, overrun the    *)
(* quota of a provider by less than two samples for each of the keys of    *)
(* series and quotes, whatever fails, expires or overlaps.                 *)
THEOREM OverrunStaysBounded == FeedSpec => []QuotaOverrunBounded
<1>1. FeedInit => FeedInv
  <2> SUFFICES ASSUME FeedInit
               PROVE  FeedInv
    OBVIOUS
  <2>1. FeedTypes
    BY DEF FeedInit, FeedTypes
  <2>2. ASSUME NEW p \in Providers
        PROVE  usage[p] + 2 * Cardinality(Asked(p)) <= MaxRequests - 1 + 2 * Cardinality(Series)
    <3>1. usage[p] = 0 /\ Asked(p) = {}
      BY FeedAssumption DEF FeedInit, Asked
    <3>2. Cardinality(Asked(p)) = 0 /\ Cardinality(Series) \in Nat
      BY <3>1, FeedAssumption, FS_EmptySet, FS_CardinalityType
    <3> QED
      BY <3>1, <3>2, FeedAssumption
  <2>3. \A k \in Series : fetch[k] \notin untried[k]
    BY DEF FeedInit
  <2> QED
    BY <2>1, <2>2, <2>3 DEF FeedInv, QuotaOverrunBounded
<1>2. FeedInv => QuotaOverrunBounded
  BY DEF FeedInv
<1> QED
  BY <1>1, <1>2, FeedKept, PTL DEF FeedSpec

-----------------------------------------------------------------------------
(* What a cycle has still to do is a sequence of its pairs.                *)
LEMMA AdvanceTypes ==
  ASSUME selected \in [Cycles -> Seq(Refreshed)], NEW k, Advance(Waiting(k))
  PROVE  selected' \in [Cycles -> Seq(Refreshed)]
<1>1. \A c \in Waiting(k) : c \in Cycles /\ selected[c] # <<>>
  BY DEF Waiting
<1>2. \A c \in Waiting(k) : Tail(selected[c]) \in Seq(Refreshed)
  BY <1>1
<1> QED
  BY <1>2 DEF Advance

LEMMA TaskTypes ==
  ASSUME FeedTypeOK, NEW k, NEW ok \in BOOLEAN,
         TaskEnds(k, ok) \/ UNCHANGED <<selected, stale>>
  PROVE  selected' \in [Cycles -> Seq(Refreshed)] /\ stale' \subseteq Refreshed
<1>1. CASE TaskEnds(k, ok)
  <2>1. Advance(Waiting(k)) /\ stale' \subseteq stale
    BY <1>1 DEF TaskEnds
  <2> QED
    BY <2>1, AdvanceTypes DEF FeedTypeOK
<1>2. CASE UNCHANGED <<selected, stale>>
  BY <1>2 DEF FeedTypeOK
<1> QED
  BY <1>1, <1>2

(* The functions that Asks changes keep their types.                       *)
LEMMA AsksTypes ==
  ASSUME FeedTypeOK, NEW k, NEW p \in Providers \cup {NoProvider},
         NEW rest \in SUBSET Providers, Asks(k, p, rest)
  PROVE  /\ fetch' \in [Series -> Providers \cup {NoProvider}]
         /\ untried' \in [Series -> SUBSET Providers]
<1>1. fetch' = [fetch EXCEPT ![k] = p] /\ untried' = [untried EXCEPT ![k] = rest]
  BY DEF Asks
<1>2. fetch' \in [Series -> Providers \cup {NoProvider}]
  BY <1>1 DEF FeedTypeOK
<1>3. untried' \in [Series -> SUBSET Providers]
  BY <1>1 DEF FeedTypeOK
<1> QED
  BY <1>2, <1>3

LEMMA BeginTypes ==
  ASSUME FeedTypeOK, NEW k, BeginFetch(k)
  PROVE  /\ fetch' \in [Series -> Providers \cup {NoProvider}]
         /\ untried' \in [Series -> SUBSET Providers]
<1>1. PICK p \in Allowed : \E rest \in SUBSET Providers : p \notin rest /\ Asks(k, p, rest)
  BY BeginsWith
<1>2. p \in Providers
  BY AllowedHasRoom
<1> QED
  BY <1>1, <1>2, AsksTypes

LEMMA FeedTypesKept == FeedTypeOK /\ [FeedNext]_feedVars => FeedTypeOK'
<1> SUFFICES ASSUME FeedTypeOK, [FeedNext]_feedVars
             PROVE  FeedTypeOK'
  OBVIOUS
<1>t. /\ usage \in [Providers -> Nat] /\ blocked \subseteq Providers
      /\ fetch \in [Series -> Providers \cup {NoProvider}]
      /\ untried \in [Series -> SUBSET Providers]
      /\ stale \subseteq Refreshed /\ selected \in [Cycles -> Seq(Refreshed)]
      /\ Refreshed \subseteq Series
  BY FeedAssumption DEF FeedTypeOK
<1>f. FeedTypes
  BY <1>t DEF FeedTypes
<1>1. ASSUME NEW k \in Series, FetchPriceData(k)
      PROVE  FeedTypeOK'
  <2>1. /\ fetch' \in [Series -> Providers \cup {NoProvider}]
        /\ untried' \in [Series -> SUBSET Providers]
    BY <1>1, BeginTypes DEF FetchPriceData
  <2> QED
    BY <1>1, <2>1, <1>t DEF FetchPriceData, FeedTypeOK
<1>2. ASSUME NEW k \in Series, AnswerArrives(k)
      PROVE  FeedTypeOK'
  <2>1. fetch[k] \in Providers /\ usage' \in [Providers -> Nat]
    BY <1>2, <1>f, CountedOnOne DEF AnswerArrives
  <2>2. TaskEnds(k, TRUE) /\ Asks(k, NoProvider, {})
    BY <1>2 DEF AnswerArrives
  <2>3. selected' \in [Cycles -> Seq(Refreshed)] /\ stale' \subseteq Refreshed
    BY <2>2, TaskTypes
  <2>4. /\ fetch' \in [Series -> Providers \cup {NoProvider}]
        /\ untried' \in [Series -> SUBSET Providers]
    BY <2>2, AsksTypes
  <2>5. blocked' \subseteq Providers
    BY <1>2, <1>t, <2>1 DEF AnswerArrives
  <2> QED
    BY <2>1, <2>3, <2>4, <2>5 DEF FeedTypeOK
<1>3. ASSUME NEW k \in Series, RequestFails(k)
      PROVE  FeedTypeOK'
  <2>1. fetch[k] \in Providers /\ usage' \in [Providers -> Nat]
    BY <1>3, <1>f, CountedOnOne DEF RequestFails
  <2>2. PICK p \in Providers \cup {NoProvider} : \E rest \in SUBSET Providers :
          /\ Asks(k, p, rest)
          /\ TaskEnds(k, FALSE) \/ UNCHANGED <<selected, stale>>
    <3>1. CASE /\ \E p \in untried[k] \cap Allowed : \E rest \in SUBSET (untried[k] \ {p}) : Asks(k, p, rest)
               /\ UNCHANGED <<selected, stale>>
      <4>1. PICK p \in untried[k] \cap Allowed : \E rest \in SUBSET (untried[k] \ {p}) : Asks(k, p, rest)
        BY <3>1
      <4>2. PICK rest \in SUBSET (untried[k] \ {p}) : Asks(k, p, rest)
        BY <4>1
      <4>3. p \in Providers
        BY AllowedHasRoom
      <4>4. rest \in SUBSET Providers
        BY <1>t
      <4> QED
        BY <3>1, <4>2, <4>3, <4>4
    <3>2. CASE Asks(k, NoProvider, {}) /\ TaskEnds(k, FALSE)
      BY <3>2
    <3> QED
      BY <1>3, <3>1, <3>2 DEF RequestFails
  <2>3. selected' \in [Cycles -> Seq(Refreshed)] /\ stale' \subseteq Refreshed
    BY <2>2, TaskTypes
  <2>4. /\ fetch' \in [Series -> Providers \cup {NoProvider}]
        /\ untried' \in [Series -> SUBSET Providers]
    BY <2>2, AsksTypes
  <2>5. blocked' \subseteq Providers
    BY <1>3, <1>t, <2>1 DEF RequestFails
  <2> QED
    BY <2>1, <2>3, <2>4, <2>5 DEF FeedTypeOK
<1>4. ASSUME NEW c \in Cycles, ExecuteTask(c)
      PROVE  FeedTypeOK'
  <2> DEFINE k == Head(selected[c])
  <2>0. usage' = usage /\ blocked' = blocked
    BY <1>4 DEF ExecuteTask
  <2>1. CASE UNCHANGED <<fetch, untried>> /\ TaskEnds(k, FALSE)
    <3>1. TaskEnds(k, FALSE)
      BY <2>1
    <3> HIDE DEF k
    <3>2. selected' \in [Cycles -> Seq(Refreshed)] /\ stale' \subseteq Refreshed
      BY <3>1, TaskTypes
    <3> QED
      BY <2>0, <2>1, <3>2, <1>t DEF FeedTypeOK
  <2>2. CASE BeginFetch(k) /\ UNCHANGED <<stale, selected>>
    <3>1. /\ fetch' \in [Series -> Providers \cup {NoProvider}]
          /\ untried' \in [Series -> SUBSET Providers]
      BY <2>2, BeginTypes
    <3> QED
      BY <2>0, <2>2, <3>1, <1>t DEF FeedTypeOK
  <2> QED
    BY <1>4, <2>1, <2>2 DEF ExecuteTask
<1>5. ASSUME NEW c \in Cycles, NEW s \in Selections, RunCycle(c, s)
      PROVE  FeedTypeOK'
  <2>1. s \in Seq(Refreshed)
    <3>1. PICK n \in 1 .. MaxPerTick : s \in [1 .. n -> Refreshed]
      BY DEF Selections
    <3> QED
      BY <3>1
  <2> QED
    BY <1>5, <1>t, <2>1 DEF RunCycle, FeedTypeOK
<1>6. ASSUME NEW p \in Providers, WindowPasses(p)
      PROVE  FeedTypeOK'
  BY <1>6, <1>t DEF WindowPasses, FeedTypeOK
<1>7. ASSUME NEW p \in Providers, BlockPasses(p)
      PROVE  FeedTypeOK'
  BY <1>7, <1>t DEF BlockPasses, FeedTypeOK
<1>9. ASSUME NEW k \in Refreshed, CadencePasses(k)
      PROVE  FeedTypeOK'
  BY <1>9, <1>t DEF CadencePasses, FeedTypeOK
<1>10. CASE UNCHANGED feedVars
  BY <1>10, <1>t DEF feedVars, FeedTypeOK
<1> QED
  BY <1>1, <1>2, <1>3, <1>4, <1>5, <1>6, <1>7, <1>9, <1>10 DEF FeedNext

LEMMA FeedStarts == FeedInit => FeedTypeOK
<1> SUFFICES ASSUME FeedInit
             PROVE  FeedTypeOK
  OBVIOUS
<1>1. selected \in [Cycles -> Seq(Refreshed)]
  BY DEF FeedInit
<1> QED
  BY <1>1 DEF FeedInit, FeedTypeOK

(* Only series and quotes are asked for, of providers; only pairs of the   *)
(* scheduler are stale or in a cycle.                                      *)
THEOREM FeedTypeCorrect == FeedSpec => []FeedTypeOK
BY FeedStarts, FeedTypesKept, PTL DEF FeedSpec
=============================================================================
