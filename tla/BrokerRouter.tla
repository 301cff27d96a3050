---------------------------- MODULE BrokerRouter ----------------------------
(***************************************************************************)
(* The router that every broker order passes: kill switch, idempotency     *)
(* cache, circuit breaker per broker and retries with backoff.  Calls of   *)
(* placeOrder and manualOrder overlap freely, because each waits for the   *)
(* broker and for its backoff timers.  A success means that the broker     *)
(* accepted the order: a connector does not wait for the execution.  A     *)
(* broker may accept an order whose answer is then lost, which the router  *)
(* cannot tell from a failure.                                             *)
(***************************************************************************)
EXTENDS Integers

CONSTANTS Requests,       \* calls of placeOrder and manualOrder
          Keys,           \* idempotency keys
          Brokers,
          NoKey,          \* a manual order without a key
          RetryAttempts,  \* brokerRetryAttempts
          Threshold,      \* brokerBreakerThreshold
          Nothing

ASSUME RetryAssumption     == RetryAttempts \in Nat
ASSUME ThresholdAssumption == Threshold \in Nat \ {0}
ASSUME NamesAssumption     == NoKey \notin Keys /\ Nothing \notin {"ok", "failed"}

VARIABLES
  kill,       \* killSwitchEnabled
  breaker,    \* brokerBreakers: failures, and the window of the cooldown
  cache,      \* idempotencyCache
  request,    \* what each call is doing
  accepted,   \* how many orders of each call the brokers accepted
  lost,       \* calls that lost the answer to an accepted order
  overlapped, \* calls that began while another one of their key was at work
  expired     \* keys whose cached result has expired

routerVars == <<kill, breaker, cache, request, accepted, lost, overlapped, expired>>
external   == <<accepted, lost>>

Windows  == {"none", "open", "over"}     \* expiresAt unset, ahead, passed
Verdicts == {"ok", "failed"}
Working  == {"asking", "backoff"}
Settled  == {"ok", "failed", "refused", "replayed"}

NoEntry    == [failures |-> 0, window |-> "none"]
NewRequest == [phase |-> "new", key |-> NoKey, broker |-> Nothing, tries |-> 0, done |-> FALSE]

-----------------------------------------------------------------------------
RouterInit ==
  /\ kill = FALSE
  /\ breaker = [b \in Brokers |-> NoEntry]
  /\ cache = [k \in Keys |-> Nothing]
  /\ request = [c \in Requests |-> NewRequest]
  /\ accepted = [c \in Requests |-> 0]
  /\ lost = {} /\ overlapped = {} /\ expired = {}

Become(c, rec) == request' = [request EXCEPT ![c] = rec]
AtWork(k) == {c \in Requests : request[c].phase \in Working /\ request[c].key = k}

-----------------------------------------------------------------------------
(* placeOrder and manualOrder up to the first await.  The kill switch, the *)
(* breaker, the market rules and an unknown broker refuse a call; the      *)
(* rules are data, so that any call may be refused.                        *)
Refuse(c) ==
  /\ request[c].phase = "new"
  /\ Become(c, [NewRequest EXCEPT !.phase = "refused"])
  /\ UNCHANGED <<kill, breaker, cache, external, overlapped, expired>>

(* Mutant: only successes are replayed, a failed key may be tried again.   *)
ReplayableIfOk(k) == k \in Keys /\ cache[k] = "ok"

Replayable(k) == k \in Keys /\ cache[k] # Nothing

(* The switch lets the call pass, or a manual order bypasses it.           *)
Passes(bypass) == ~kill \/ bypass

Replay(c, k, bypass) ==
  /\ request[c].phase = "new" /\ Passes(bypass) /\ Replayable(k)
  /\ Become(c, [NewRequest EXCEPT !.phase = "replayed", !.key = k, !.done = cache[k] = "ok"])
  /\ UNCHANGED <<kill, breaker, cache, external, overlapped, expired>>

(* isBrokerBreakerActive also forgets an entry whose window has passed.    *)
Checked(b) == IF breaker[b].window = "over" THEN NoEntry ELSE breaker[b]

(* The first attempt leaves for the broker.                                *)
Ask(c, k, b, bypass) ==
  /\ request[c].phase = "new" /\ Passes(bypass) /\ ~Replayable(k)
  /\ breaker[b].window # "open"
  /\ breaker' = [breaker EXCEPT ![b] = Checked(b)]
  /\ Become(c, [NewRequest EXCEPT !.phase = "asking", !.key = k, !.broker = b])
  /\ overlapped' = IF k \in Keys /\ AtWork(k) # {} THEN overlapped \cup {c} ELSE overlapped
  /\ UNCHANGED <<kill, cache, external, expired>>

-----------------------------------------------------------------------------
(* Mutant: a late success leaves an open window open.                      *)
SuccessKeepsWindow(b) == [breaker[b] EXCEPT !.failures = 0]

Success(b) == NoEntry

Failure(b) ==
  LET n == breaker[b].failures + 1 IN
  [failures |-> n, window |-> IF n >= Threshold THEN "open" ELSE breaker[b].window]

Store(k, verdict) ==
  cache' = IF k \in Keys THEN [cache EXCEPT ![k] = verdict] ELSE cache

(* retryBrokerCall, when the connector reports success, which says that    *)
(* the broker took the order: the call is over, logged and cached.         *)
AnswerAccepted(c) ==
  LET b == request[c].broker IN
  /\ request[c].phase = "asking"
  /\ accepted' = [accepted EXCEPT ![c] = @ + 1]
  /\ breaker' = [breaker EXCEPT ![b] = Success(b)]
  /\ Become(c, [request[c] EXCEPT !.phase = "ok", !.done = TRUE])
  /\ Store(request[c].key, "ok")
  /\ UNCHANGED <<kill, lost, overlapped, expired>>

(* Mutant: one attempt too many.                                           *)
OnceMore(c) == request[c].tries <= RetryAttempts

MayRetry(c) == request[c].tries < RetryAttempts

(* Mutant: an answer that does not throw counts as a success, so a refused *)
(* order is reported and cached as one.                                    *)
FailTakenForSuccess(c) ==
  /\ Become(c, [request[c] EXCEPT !.phase = "ok", !.done = TRUE])
  /\ Store(request[c].key, "ok")

Fail(c) ==
  \/ /\ MayRetry(c)
     /\ Become(c, [request[c] EXCEPT !.phase = "backoff", !.tries = @ + 1])
     /\ UNCHANGED cache
  \/ /\ ~MayRetry(c)
     /\ Become(c, [request[c] EXCEPT !.phase = "failed"])
     /\ Store(request[c].key, "failed")

(* The broker refused the order, or the request failed before it acted.    *)
AnswerRefused(c) ==
  LET b == request[c].broker IN
  /\ request[c].phase = "asking"
  /\ breaker' = [breaker EXCEPT ![b] = Failure(b)]
  /\ Fail(c)
  /\ UNCHANGED <<kill, external, overlapped, expired>>

(* The broker took the order and the answer did not come in time.          *)
AnswerLost(c) ==
  LET b == request[c].broker IN
  /\ request[c].phase = "asking"
  /\ accepted' = [accepted EXCEPT ![c] = @ + 1]
  /\ lost' = lost \cup {c}
  /\ breaker' = [breaker EXCEPT ![b] = Failure(b)]
  /\ Fail(c)
  /\ UNCHANGED <<kill, overlapped, expired>>

(* Mutant: a retry waits for the breaker, and nothing else resets it.      *)
RetryIfClosed(c) ==
  /\ request[c].phase = "backoff" /\ breaker[request[c].broker].window = "none"
  /\ Become(c, [request[c] EXCEPT !.phase = "asking"])
  /\ UNCHANGED <<kill, breaker, cache, external, overlapped, expired>>

(* The backoff timer fires: neither the switch nor the breaker is asked.   *)
Retry(c) ==
  /\ request[c].phase = "backoff"
  /\ Become(c, [request[c] EXCEPT !.phase = "asking"])
  /\ UNCHANGED <<kill, breaker, cache, external, overlapped, expired>>

-----------------------------------------------------------------------------
SetKillSwitch ==
  /\ kill' = ~kill
  /\ UNCHANGED <<breaker, cache, request, external, overlapped, expired>>

ResetBreaker(b) ==
  /\ breaker[b] # NoEntry
  /\ breaker' = [breaker EXCEPT ![b] = NoEntry]
  /\ UNCHANGED <<kill, cache, request, external, overlapped, expired>>

(* brokerBreakerCooldownMs passes.                                         *)
CooldownOver(b) ==
  /\ breaker[b].window = "open"
  /\ breaker' = [breaker EXCEPT ![b].window = "over"]
  /\ UNCHANGED <<kill, cache, request, external, overlapped, expired>>

(* idempotencyTtlMs passes.                                                *)
CacheExpires(k) ==
  /\ cache[k] # Nothing
  /\ cache' = [cache EXCEPT ![k] = Nothing]
  /\ expired' = expired \cup {k}
  /\ UNCHANGED <<kill, breaker, request, external, overlapped>>

RouterNext ==
  \/ \E c \in Requests :
       \/ Refuse(c) \/ AnswerAccepted(c) \/ AnswerRefused(c) \/ AnswerLost(c) \/ Retry(c)
       \/ \E k \in Keys, bypass \in BOOLEAN : Replay(c, k, bypass)
       \/ \E k \in Keys \cup {NoKey}, b \in Brokers, bypass \in BOOLEAN : Ask(c, k, b, bypass)
  \/ \E b \in Brokers : ResetBreaker(b) \/ CooldownOver(b)
  \/ \E k \in Keys : CacheExpires(k)
  \/ SetKillSwitch

RouterSpec == RouterInit /\ [][RouterNext]_routerVars

(* Requests have a timeout, and timers fire.                               *)
RouterFairness ==
  \A c \in Requests : /\ WF_routerVars(AnswerAccepted(c) \/ AnswerRefused(c) \/ AnswerLost(c))
                      /\ WF_routerVars(Retry(c))

FairRouterSpec == RouterSpec /\ RouterFairness

-----------------------------------------------------------------------------
RequestType == [phase : {"new"} \cup Working \cup Settled, key : Keys \cup {NoKey},
                broker : Brokers \cup {Nothing}, tries : 0 .. RetryAttempts, done : BOOLEAN]

RouterTypeOK ==
  /\ kill \in BOOLEAN
  /\ breaker \in [Brokers -> [failures : Nat, window : Windows]]
  /\ cache \in [Keys -> Verdicts \cup {Nothing}]
  /\ request \in [Requests -> RequestType]
  /\ accepted \in [Requests -> 0 .. RetryAttempts + 1]
  /\ lost \subseteq Requests /\ overlapped \subseteq Requests /\ expired \subseteq Keys

(* An idempotency key buys one order: a second one is accepted only when   *)
(* an answer was lost and the call retried, when two calls of the key were *)
(* at work at once, or when the cached result had expired.                 *)
OneOrderPerKey ==
  /\ \A c \in Requests : accepted[c] > 1 => c \in lost
  /\ \A c, d \in Requests :
       (/\ c # d /\ request[c].key = request[d].key /\ request[c].key \in Keys
        /\ accepted[c] > 0 /\ accepted[d] > 0)
          => {c, d} \cap overlapped # {} \/ request[c].key \in expired

(* Whoever is told that an order succeeded, even by a replay, can rely on  *)
(* it: the broker accepted an order of that key.                           *)
SuccessIsReal ==
  /\ \A c \in Requests : (request[c].done /\ request[c].phase = "ok") => accepted[c] > 0
  /\ \A k \in Keys : cache[k] = "ok" =>
        \E c \in Requests : request[c].key = k /\ request[c].phase = "ok" /\ accepted[c] > 0
  /\ \A c \in Requests : (request[c].done /\ request[c].phase = "replayed") =>
        \E d \in Requests : request[d].key = request[c].key /\ request[d].phase = "ok" /\ accepted[d] > 0

(* The window of the breaker is open only while the failures since the     *)
(* last success have reached the threshold, and it is set whenever they    *)
(* have, however late the answers of overlapping calls arrive.             *)
BreakerCountsFailures ==
  \A b \in Brokers : breaker[b].failures >= Threshold <=> breaker[b].window # "none"

(* Every order is answered: ok, failed or refused.                         *)
RequestsSettle ==
  \A c \in Requests : request[c].phase \in Working ~> request[c].phase \in Settled
=============================================================================
