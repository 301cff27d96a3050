------------------------------ MODULE PriceFeed ------------------------------
(***************************************************************************)
(* The price data fetcher and the scheduler that refreshes its pairs.  A   *)
(* fetch, of a series or of a quote, asks the providers one after another, *)
(* in an order made for it from their scores, those whose quota, backoff   *)
(* and breaker allow it; fetches of one key share one promise.  A request  *)
(* counts against the quota only when it is answered, and then often twice *)
(* because the provider and the fetcher both record it; one failure opens  *)
(* the provider's breaker, because a failed request has quality 0.         *)
(* The scheduler fetches some of the pairs that are due; its priorities    *)
(* are left open.  A tick does not ask whether the cycle of the last one   *)
(* has ended, so that cycles overlap.                                      *)
(***************************************************************************)
EXTENDS Integers, Sequences, FiniteSets, Functions

CONSTANTS Series,        \* cache keys, of series and of quotes
          Refreshed,     \* those of the prefetch scheduler (purpose refresh)
          Providers,
          SelfRecording, \* those that record their requests themselves
          NoProvider,
          MaxRequests,   \* maxRequests in the window of a provider
          MaxPerTick,    \* maxPairsPerTick
          Cycles         \* bound: cycles under way at once

ASSUME FeedAssumption ==
  /\ IsFiniteSet(Series) /\ Series # {} /\ Refreshed \subseteq Series
  /\ NoProvider \notin Providers /\ SelfRecording \subseteq Providers
  /\ MaxRequests \in Nat \ {0} /\ MaxPerTick \in Nat \ {0}

VARIABLES
  usage,     \* samples in the quota window of a provider
  blocked,   \* providers with a circuitBreaker, or a backoffUntil ahead
  fetch,     \* inFlight and quoteInFlight: the provider a key is asked from, or none
  untried,   \* per key, the providers that its fetch may still ask
  stale,     \* pairs whose lastPrefetch is as long ago as their cadence
  selected   \* per cycle, the tasks that are still to do

feedVars == <<usage, blocked, fetch, untried, stale, selected>>

FeedInit ==
  /\ usage = [p \in Providers |-> 0] /\ blocked = {}
  /\ fetch = [k \in Series |-> NoProvider] /\ untried = [k \in Series |-> {}]
  /\ stale = Refreshed /\ selected = [c \in Cycles |-> <<>>]

-----------------------------------------------------------------------------
(* Mutant: the quota is not looked at.                                     *)
AllowedUnlimited(p) == p \notin blocked

CanMakeRequest(p) == p \notin blocked /\ usage[p] < MaxRequests

Allowed == {p \in Providers : CanMakeRequest(p)}

Asks(k, p, rest) == fetch' = [fetch EXCEPT ![k] = p] /\ untried' = [untried EXCEPT ![k] = rest]

(* A fetch asks the first provider in its order that is allowed; those     *)
(* before it are out.                                                      *)
BeginFetch(k) ==
  \E p \in Allowed, before \in SUBSET (Providers \ Allowed) : Asks(k, p, Providers \ (before \cup {p}))

(* Another caller asks for a series or a quote that is not cached.         *)
FetchPriceData(k) ==
  /\ k \notin Refreshed /\ fetch[k] = NoProvider
  /\ BeginFetch(k)
  /\ UNCHANGED <<usage, blocked, stale, selected>>

WindowPasses(p) ==
  /\ usage[p] > 0 /\ usage' = [usage EXCEPT ![p] = @ - 1]
  /\ UNCHANGED <<blocked, fetch, untried, stale, selected>>

(* The breaker and the backoff of a provider have passed.                  *)
BlockPasses(p) ==
  /\ p \in blocked /\ blocked' = blocked \ {p}
  /\ UNCHANGED <<usage, fetch, untried, stale, selected>>

-----------------------------------------------------------------------------
(* The cycles that wait for a series share its fetch; for each of them the *)
(* task ends, well or not, and only a success is noted.                    *)
Waiting(k) == {c \in Cycles : selected[c] # <<>> /\ Head(selected[c]) = k}

Advance(C) == selected' = [c \in Cycles |-> IF c \in C THEN Tail(selected[c]) ELSE selected[c]]

(* Mutant: a failed task is left in the cycle.                             *)
TaskEndsIfOk(k, ok) ==
  IF Waiting(k) # {} /\ ok THEN Advance(Waiting(k)) /\ stale' = stale \ {k}
                          ELSE UNCHANGED <<selected, stale>>

TaskEnds(k, ok) ==
  /\ Advance(Waiting(k))
  /\ stale' = IF ok /\ Waiting(k) # {} THEN stale \ {k} ELSE stale

(* recordRequest: a sample is added now, and a second one if the provider  *)
(* has recorded the request too, as it does unless it knows no symbol.     *)
Samples(p) == IF p \in SelfRecording THEN {1, 2} ELSE {1}

Counted(k) == /\ fetch[k] # NoProvider
               /\ \E n \in Samples(fetch[k]) : usage' = [usage EXCEPT ![fetch[k]] = @ + n]

(* A short or late series is used, but may open the breaker.               *)
AnswerArrives(k) ==
  /\ Counted(k) /\ Asks(k, NoProvider, {})
  /\ blocked' \in {blocked, blocked \cup {fetch[k]}}
  /\ TaskEnds(k, TRUE)

(* The request fails or returns nothing, perhaps at the provider's own     *)
(* limit.  The fetch of a series judges the other providers by the time of *)
(* its beginning, so that it may leave out some that are free by now.      *)
RequestFails(k) ==
  /\ Counted(k)
  /\ blocked' = blocked \cup {fetch[k]}
  /\ \/ /\ \E p \in untried[k] \cap Allowed : \E rest \in SUBSET (untried[k] \ {p}) : Asks(k, p, rest)
        /\ UNCHANGED <<selected, stale>>
     \/ Asks(k, NoProvider, {}) /\ TaskEnds(k, FALSE)

-----------------------------------------------------------------------------
CadencePasses(k) ==
  /\ k \in Refreshed \ stale /\ stale' = stale \cup {k}
  /\ UNCHANGED <<usage, blocked, fetch, untried, selected>>

QuotaPressure == \E p \in Providers : 100 * usage[p] >= 85 * MaxRequests

(* runCycle takes the due pairs of the highest priority, as many as a tick *)
(* allows, and one under pressure.                                         *)
RunCycle(c, s) ==
  /\ selected[c] = <<>> /\ stale # {}
  /\ Range(s) \subseteq stale /\ IsInjective(s)
  /\ Len(s) = IF QuotaPressure THEN 1
              ELSE IF Cardinality(stale) < MaxPerTick THEN Cardinality(stale) ELSE MaxPerTick
  /\ selected' = [selected EXCEPT ![c] = s]
  /\ UNCHANGED <<usage, blocked, fetch, untried, stale>>

(* The cache is bypassed, and without a provider the task fails at once.   *)
ExecuteTask(c) ==
  /\ selected[c] # <<>> /\ fetch[Head(selected[c])] = NoProvider
  /\ LET k == Head(selected[c]) IN
       \/ Allowed = {} /\ UNCHANGED <<fetch, untried>> /\ TaskEnds(k, FALSE)
       \/ BeginFetch(k) /\ UNCHANGED <<stale, selected>>
  /\ UNCHANGED <<usage, blocked>>

Selections == UNION {[1 .. n -> Refreshed] : n \in 1 .. MaxPerTick}

FeedNext ==
  \/ \E k \in Series : FetchPriceData(k) \/ AnswerArrives(k) \/ RequestFails(k)
  \/ \E k \in Refreshed : CadencePasses(k)
  \/ \E p \in Providers : WindowPasses(p) \/ BlockPasses(p)
  \/ \E c \in Cycles : ExecuteTask(c) \/ \E s \in Selections : RunCycle(c, s)

FeedSpec == FeedInit /\ [][FeedNext]_feedVars

(* Requests are answered and the scheduler goes on.                        *)
FeedFairness ==
  /\ \A k \in Series : WF_feedVars(AnswerArrives(k) \/ RequestFails(k))
  /\ \A c \in Cycles : WF_feedVars(ExecuteTask(c))

-----------------------------------------------------------------------------
FeedTypeOK ==
  /\ usage \in [Providers -> Nat] /\ blocked \subseteq Providers
  /\ fetch \in [Series -> Providers \cup {NoProvider}]
  /\ untried \in [Series -> SUBSET Providers]
  /\ stale \subseteq Refreshed /\ selected \in [Cycles -> Seq(Refreshed)]

Asked(p) == {k \in Series : fetch[k] = p}

(* Requests under way do not count against the quota and may be recorded   *)
(* twice, so that it is overrun; but by no more than two samples for each  *)
(* of the keys that can be under way at once.                              *)
QuotaOverrunBounded ==
  \A p \in Providers : usage[p] + 2 * Cardinality(Asked(p)) <= MaxRequests - 1 + 2 * Cardinality(Series)

(* A cycle ends whatever its requests come to, and whatever other cycles   *)
(* ask for meanwhile: each task is left after one pass over the providers. *)
CycleEnds == \A c \in Cycles : selected[c] # <<>> ~> selected[c] = <<>>
=============================================================================
