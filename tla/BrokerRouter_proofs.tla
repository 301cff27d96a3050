------------------------ MODULE BrokerRouter_proofs ------------------------
(***************************************************************************)
(* Proofs about the two ends of a broker.  The router, for any number of   *)
(* calls, keys and brokers, any number of retries and any threshold: two   *)
(* calls of one key that both asked a broker overlapped, or the result of  *)
(* the first one had expired, which is what the idempotency cache is       *)
(* worth.  The management of the terminal's positions, for any symbols,    *)
(* decisions and limits: its types.                                        *)
(***************************************************************************)
EXTENDS BrokerRouter, EaManagement, FiniteSetTheorems, SequenceTheorems, TLAPS

Asked == Working \cup {"ok", "failed"}

(* A call at work knows its broker and counts its accepted orders.         *)
WorkingIsCounted ==
  \A c \in Requests : request[c].phase \in Working =>
     request[c].broker \in Brokers /\ accepted[c] <= request[c].tries

(* Only a call that asked a broker has accepted orders.                    *)
AcceptedAsked ==
  \A c \in Requests : request[c].phase \notin Asked => accepted[c] = 0

(* A call that goes on after an accepted order has lost the answer.        *)
GoesOnBecauseLost ==
  \A c \in Requests : (request[c].phase \in Working /\ accepted[c] > 0) => c \in lost

OkIsAccepted == \A c \in Requests : request[c].phase = "ok" => accepted[c] > 0

(* The result of a settled call is cached until it expires.                *)
SettledIsCached ==
  \A c \in Requests :
     (/\ request[c].phase \in {"ok", "failed"} /\ request[c].key \in Keys
      /\ request[c].key \notin expired) => cache[request[c].key] # Nothing

(* Two calls of one key that asked a broker overlapped, or came after an   *)
(* expiry.                                                                 *)
OverlappedOrExpired ==
  \A c, d \in Requests :
     (/\ c # d /\ request[c].key = request[d].key /\ request[c].key \in Keys
      /\ request[c].phase \in Asked /\ request[d].phase \in Asked)
        => {c, d} \cap overlapped # {} \/ request[c].key \in expired

IInv ==
  /\ RouterTypeOK
  /\ WorkingIsCounted
  /\ AcceptedAsked
  /\ GoesOnBecauseLost
  /\ OkIsAccepted
  /\ SettledIsCached
  /\ OverlappedOrExpired
  /\ OneOrderPerKey
  /\ SuccessIsReal
  /\ BreakerCountsFailures

USE RetryAssumption, ThresholdAssumption, NamesAssumption

LEMMA Initial == RouterInit => IInv
<1> SUFFICES ASSUME RouterInit PROVE IInv
  OBVIOUS
<1> USE DEF RouterInit, NewRequest, NoEntry
<1>1. RouterTypeOK
  <2>1. NewRequest \in RequestType
    BY DEF RequestType
  <2>2. request \in [Requests -> RequestType]
    BY <2>1
  <2>3. breaker \in [Brokers -> [failures : Nat, window : Windows]]
    BY DEF Windows
  <2>4. accepted \in [Requests -> 0 .. RetryAttempts + 1]
    OBVIOUS
  <2>5. cache \in [Keys -> Verdicts \cup {Nothing}]
    OBVIOUS
  <2> QED
    BY <2>2, <2>3, <2>4, <2>5 DEF RouterTypeOK
<1>2. WorkingIsCounted
  BY DEF WorkingIsCounted, Working
<1>3. AcceptedAsked
  BY DEF AcceptedAsked
<1>4. GoesOnBecauseLost
  BY DEF GoesOnBecauseLost, Working
<1>5. OkIsAccepted
  BY DEF OkIsAccepted
<1>6. SettledIsCached
  BY DEF SettledIsCached
<1>7. OverlappedOrExpired
  BY DEF OverlappedOrExpired, Asked, Working
<1>8. OneOrderPerKey
  BY DEF OneOrderPerKey
<1>9. SuccessIsReal
  BY DEF SuccessIsReal
<1>10. BreakerCountsFailures
  BY DEF BreakerCountsFailures
<1> QED
  BY <1>1, <1>2, <1>3, <1>4, <1>5, <1>6, <1>7, <1>8, <1>9, <1>10 DEF IInv

(* The records that a call becomes.                                        *)
LEMMA NewTyped == NewRequest \in RequestType
BY DEF NewRequest, RequestType

LEMMA BackoffTyped ==
  ASSUME NEW r \in RequestType, r.tries < RetryAttempts
  PROVE  [r EXCEPT !.phase = "backoff", !.tries = @ + 1] \in RequestType
<1>1. ASSUME NEW n \in 0 .. RetryAttempts
      PROVE  [r EXCEPT !.phase = "backoff", !.tries = n] \in RequestType
  BY DEF RequestType, Working
<1>2. r.tries + 1 \in 0 .. RetryAttempts
  BY DEF RequestType
<1> QED
  BY <1>1, <1>2

LEMMA BackoffFields ==
  ASSUME NEW r \in RequestType
  PROVE  LET s == [r EXCEPT !.phase = "backoff", !.tries = @ + 1] IN
         /\ s.phase = "backoff" /\ s.tries = r.tries + 1
         /\ s.key = r.key /\ s.broker = r.broker /\ s.done = r.done
BY DEF RequestType

LEMMA FailedFields ==
  ASSUME NEW r \in RequestType
  PROVE  LET s == [r EXCEPT !.phase = "failed"] IN
         /\ s \in RequestType /\ s.phase = "failed" /\ s.tries = r.tries
         /\ s.key = r.key /\ s.broker = r.broker /\ s.done = r.done
BY DEF RequestType, Settled

LEMMA Inductive == IInv /\ [RouterNext]_routerVars => IInv'
<1> SUFFICES ASSUME IInv, [RouterNext]_routerVars PROVE IInv'
  OBVIOUS
<1>1. ASSUME NEW c \in Requests, Refuse(c)
      PROVE  IInv'
  <2> DEFINE r == [NewRequest EXCEPT !.phase = "refused"]
  <2>1. /\ r \in RequestType
        /\ r.phase = "refused" /\ r.key = NoKey /\ r.broker = Nothing /\ r.tries = 0 /\ r.done = FALSE
    <3>1. r \in RequestType
      BY NewTyped DEF RequestType, Working, Settled
    <3>2. r.phase = "refused" /\ r.key = NoKey /\ r.broker = Nothing /\ r.tries = 0 /\ r.done = FALSE
      BY DEF NewRequest
    <3> QED
      BY <3>1, <3>2
  <2>2. /\ request[c].phase = "new"
        /\ request' = [request EXCEPT ![c] = r]
        /\ UNCHANGED <<kill, breaker, cache, accepted, lost, overlapped, expired>>
    BY <1>1 DEF Refuse, Become, external
  <2> HIDE DEF r
  <2>3. request' \in [Requests -> RequestType] /\ request'[c] = r /\ \A d \in Requests \ {c} : request'[d] = request[d]
    BY <2>1, <2>2 DEF IInv, RouterTypeOK
  <2>4. request'[c].phase = "refused" /\ request'[c].key = NoKey /\ request'[c].broker = Nothing /\ request'[c].tries = 0
        /\ request'[c].done = FALSE
    BY <2>1, <2>3
  <2>5. RouterTypeOK'
    BY <2>2, <2>3 DEF IInv, RouterTypeOK, Windows
  <2>6. WorkingIsCounted'
    BY <2>2, <2>3, <2>4 DEF IInv, RouterTypeOK, WorkingIsCounted, AcceptedAsked, Asked, Working
  <2>7. AcceptedAsked'
    BY <2>2, <2>3, <2>4 DEF IInv, RouterTypeOK, AcceptedAsked, Asked, Working
  <2>8. GoesOnBecauseLost'
    BY <2>2, <2>3, <2>4 DEF IInv, RouterTypeOK, GoesOnBecauseLost, AcceptedAsked, Asked, Working
  <2>9. OkIsAccepted'
    BY <2>2, <2>3, <2>4 DEF IInv, RouterTypeOK, OkIsAccepted, Working
  <2>10. SettledIsCached'
    BY <2>2, <2>3, <2>4 DEF IInv, RouterTypeOK, SettledIsCached, Working
  <2>11. OverlappedOrExpired'
    BY <2>2, <2>3, <2>4 DEF IInv, RouterTypeOK, OverlappedOrExpired, SettledIsCached, Asked, Working
  <2>12. OneOrderPerKey'
    BY <2>2, <2>3, <2>4 DEF IInv, RouterTypeOK, OneOrderPerKey, OverlappedOrExpired, AcceptedAsked, GoesOnBecauseLost, Asked, Working
  <2>13. SuccessIsReal'
    BY <2>2, <2>3, <2>4 DEF IInv, RouterTypeOK, SuccessIsReal, OkIsAccepted, Working
  <2>14. BreakerCountsFailures'
    BY <2>2, <2>3, <2>4 DEF IInv, RouterTypeOK, BreakerCountsFailures, Windows, NoEntry
  <2> QED
    BY <2>5, <2>6, <2>7, <2>8, <2>9, <2>10, <2>11, <2>12, <2>13, <2>14 DEF IInv
<1>2. ASSUME NEW c \in Requests, NEW k \in Keys, NEW bypass \in BOOLEAN, Replay(c, k, bypass)
      PROVE  IInv'
  <2> DEFINE r == [NewRequest EXCEPT !.phase = "replayed", !.key = k, !.done = cache[k] = "ok"]
  <2>1. /\ r \in RequestType
        /\ r.phase = "replayed" /\ r.key = k /\ r.broker = Nothing /\ r.tries = 0 /\ r.done = (cache[k] = "ok")
    <3>1. r \in RequestType
      BY NewTyped DEF RequestType, Working, Settled
    <3>2. r.phase = "replayed" /\ r.key = k /\ r.broker = Nothing /\ r.tries = 0 /\ r.done = (cache[k] = "ok")
      BY DEF NewRequest
    <3> QED
      BY <3>1, <3>2
  <2>2. /\ request[c].phase = "new"
        /\ request' = [request EXCEPT ![c] = r]
        /\ UNCHANGED <<kill, breaker, cache, accepted, lost, overlapped, expired>>
    BY <1>2 DEF Replay, Replayable, Become, external
  <2> HIDE DEF r
  <2>3. request' \in [Requests -> RequestType] /\ request'[c] = r /\ \A d \in Requests \ {c} : request'[d] = request[d]
    BY <2>1, <2>2 DEF IInv, RouterTypeOK
  <2>4. request'[c].phase = "replayed" /\ request'[c].key = k /\ request'[c].broker = Nothing /\ request'[c].tries = 0
        /\ request'[c].done = (cache[k] = "ok")
    BY <2>1, <2>3
  <2>5. \A d \in Requests : request[d].phase = "ok" => request'[d] = request[d]
    BY <2>2, <2>3 DEF Working
  <2>6. RouterTypeOK'
    BY <2>2, <2>3 DEF IInv, RouterTypeOK, Windows
  <2>7. WorkingIsCounted'
    BY <2>2, <2>3, <2>4, <2>5 DEF IInv, RouterTypeOK, WorkingIsCounted, AcceptedAsked, Asked, Working
  <2>8. AcceptedAsked'
    BY <2>2, <2>3, <2>4, <2>5 DEF IInv, RouterTypeOK, AcceptedAsked, Asked, Working
  <2>9. GoesOnBecauseLost'
    BY <2>2, <2>3, <2>4, <2>5 DEF IInv, RouterTypeOK, GoesOnBecauseLost, AcceptedAsked, Asked, Working
  <2>10. OkIsAccepted'
    BY <2>2, <2>3, <2>4, <2>5 DEF IInv, RouterTypeOK, OkIsAccepted, Working
  <2>11. SettledIsCached'
    BY <2>2, <2>3, <2>4, <2>5 DEF IInv, RouterTypeOK, SettledIsCached, Working
  <2>12. OverlappedOrExpired'
    BY <2>2, <2>3, <2>4, <2>5 DEF IInv, RouterTypeOK, OverlappedOrExpired, SettledIsCached, Asked, Working
  <2>13. OneOrderPerKey'
    BY <2>2, <2>3, <2>4, <2>5 DEF IInv, RouterTypeOK, OneOrderPerKey, OverlappedOrExpired, AcceptedAsked, GoesOnBecauseLost, Asked, Working
  <2>14. SuccessIsReal'
    <3>1. \A j \in Keys : cache[j] = "ok" =>
            \E d \in Requests : request'[d].key = j /\ request'[d].phase = "ok" /\ accepted'[d] > 0
      BY <2>2, <2>5 DEF IInv, SuccessIsReal
    <3>2. \A d \in Requests : (request'[d].done /\ request'[d].phase = "replayed") =>
            \E e \in Requests : request'[e].key = request'[d].key /\ request'[e].phase = "ok" /\ accepted'[e] > 0
      <4>1. ASSUME request'[c].done
            PROVE  \E e \in Requests : request'[e].key = request'[c].key /\ request'[e].phase = "ok" /\ accepted'[e] > 0
        BY <4>1, <2>4, <3>1
      <4>2. ASSUME NEW d \in Requests \ {c}, request[d].done, request[d].phase = "replayed"
            PROVE  \E e \in Requests : request'[e].key = request[d].key /\ request'[e].phase = "ok" /\ accepted'[e] > 0
        <5>1. PICK e \in Requests : request[e].key = request[d].key /\ request[e].phase = "ok" /\ accepted[e] > 0
          BY <4>2 DEF IInv, SuccessIsReal
        <5> QED
          BY <5>1, <2>2, <2>5
      <4> QED
        BY <4>1, <4>2, <2>3
    <3> QED
      BY <2>2, <2>3, <2>4, <3>1, <3>2 DEF IInv, SuccessIsReal
  <2>15. BreakerCountsFailures'
    BY <2>2, <2>3, <2>4, <2>5 DEF IInv, RouterTypeOK, BreakerCountsFailures, Windows, NoEntry
  <2> QED
    BY <2>6, <2>7, <2>8, <2>9, <2>10, <2>11, <2>12, <2>13, <2>14, <2>15 DEF IInv
<1>3. ASSUME NEW c \in Requests, NEW k \in Keys \cup {NoKey}, NEW b \in Brokers,
             NEW bypass \in BOOLEAN, Ask(c, k, b, bypass)
      PROVE  IInv'
  <2> DEFINE r == [NewRequest EXCEPT !.phase = "asking", !.key = k, !.broker = b]
  <2>1. /\ r \in RequestType
        /\ r.phase = "asking" /\ r.key = k /\ r.broker = b /\ r.tries = 0 /\ r.done = FALSE
    <3>1. r \in RequestType
      BY NewTyped DEF RequestType, Working, Settled
    <3>2. r.phase = "asking" /\ r.key = k /\ r.broker = b /\ r.tries = 0 /\ r.done = FALSE
      BY DEF NewRequest
    <3> QED
      BY <3>1, <3>2
  <2>2. /\ request[c].phase = "new" /\ (k \in Keys => cache[k] = Nothing)
        /\ request' = [request EXCEPT ![c] = r]
        /\ breaker' = [breaker EXCEPT ![b] = Checked(b)]
        /\ overlapped' = IF k \in Keys /\ AtWork(k) # {} THEN overlapped \cup {c} ELSE overlapped
        /\ UNCHANGED <<kill, cache, accepted, lost, expired>>
    BY <1>3 DEF Ask, Replayable, Become, external
  <2> HIDE DEF r
  <2>3. request' \in [Requests -> RequestType] /\ request'[c] = r /\ \A d \in Requests \ {c} : request'[d] = request[d]
    BY <2>1, <2>2 DEF IInv, RouterTypeOK
  <2>4. request'[c].phase = "asking" /\ request'[c].key = k /\ request'[c].broker = b /\ request'[c].tries = 0
        /\ request'[c].done = FALSE
    BY <2>1, <2>3
  <2>5. \A d \in Requests : request[d].phase = "ok" => request'[d] = request[d]
    BY <2>2, <2>3 DEF Working
  <2>6. RouterTypeOK'
    BY <2>2, <2>3 DEF IInv, RouterTypeOK, Checked, Windows, NoEntry
  <2>7. WorkingIsCounted'
    BY <2>2, <2>3, <2>4, <2>5 DEF IInv, RouterTypeOK, WorkingIsCounted, AcceptedAsked, Asked, Working
  <2>8. AcceptedAsked'
    BY <2>2, <2>3, <2>4, <2>5 DEF IInv, RouterTypeOK, AcceptedAsked, Asked, Working
  <2>9. GoesOnBecauseLost'
    BY <2>2, <2>3, <2>4, <2>5 DEF IInv, RouterTypeOK, GoesOnBecauseLost, AcceptedAsked, Asked, Working
  <2>10. OkIsAccepted'
    BY <2>2, <2>3, <2>4, <2>5 DEF IInv, RouterTypeOK, OkIsAccepted, Working
  <2>11. SettledIsCached'
    BY <2>2, <2>3, <2>4, <2>5 DEF IInv, RouterTypeOK, SettledIsCached, Working
  <2>12. OverlappedOrExpired'
    <3>1. \A d \in Requests \ {c} : (k \in Keys /\ request[d].key = k /\ request[d].phase \in Asked)
               => c \in overlapped' \/ k \in expired
      BY <2>2 DEF IInv, SettledIsCached, Asked, Working, AtWork
    <3>2. overlapped \subseteq overlapped' /\ expired' = expired
      BY <2>2
    <3> QED
      BY <2>3, <2>4, <3>1, <3>2 DEF IInv, OverlappedOrExpired
  <2>13. OneOrderPerKey'
    BY <2>2, <2>3, <2>4, <2>5 DEF IInv, RouterTypeOK, OneOrderPerKey, OverlappedOrExpired, AcceptedAsked, GoesOnBecauseLost, Asked, Working
  <2>14. SuccessIsReal'
    BY <2>2, <2>3, <2>4, <2>5 DEF IInv, RouterTypeOK, SuccessIsReal, OkIsAccepted, Working
  <2>15. BreakerCountsFailures'
    BY <2>2 DEF IInv, RouterTypeOK, BreakerCountsFailures, Windows, NoEntry, Checked
  <2> QED
    BY <2>6, <2>7, <2>8, <2>9, <2>10, <2>11, <2>12, <2>13, <2>14, <2>15 DEF IInv
<1>4. ASSUME NEW c \in Requests, AnswerAccepted(c)
      PROVE  IInv'
  <2>1. /\ request[c].phase = "asking" /\ request[c].broker \in Brokers
        /\ accepted[c] <= request[c].tries
        /\ accepted' = [accepted EXCEPT ![c] = @ + 1]
        /\ breaker' = [breaker EXCEPT ![request[c].broker] = NoEntry]
        /\ request' = [request EXCEPT ![c] = [request[c] EXCEPT !.phase = "ok", !.done = TRUE]]
        /\ cache' = IF request[c].key \in Keys THEN [cache EXCEPT ![request[c].key] = "ok"] ELSE cache
        /\ UNCHANGED <<kill, lost, overlapped, expired>>
    BY <1>4 DEF AnswerAccepted, Success, Store, Become, IInv, WorkingIsCounted, Working
  <2>2. request' \in [Requests -> RequestType] /\ accepted' \in [Requests -> 0 .. RetryAttempts + 1]
    <3>1. [request[c] EXCEPT !.phase = "ok", !.done = TRUE] \in RequestType
      BY DEF IInv, RouterTypeOK, RequestType, Settled
    <3> QED
      BY <2>1, <3>1 DEF IInv, RouterTypeOK, RequestType
  <2>3. /\ request'[c].phase = "ok" /\ request'[c].done /\ request'[c].key = request[c].key
        /\ accepted'[c] = accepted[c] + 1 /\ accepted'[c] > 0
        /\ \A d \in Requests \ {c} : request'[d] = request[d] /\ accepted'[d] = accepted[d]
    BY <2>1 DEF IInv, RouterTypeOK, RequestType
  <2>4. RouterTypeOK'
    BY <2>1, <2>2 DEF IInv, RouterTypeOK, Verdicts, Windows, NoEntry, RequestType
  <2>5. WorkingIsCounted'
    BY <2>1, <2>2, <2>3 DEF IInv, RouterTypeOK, WorkingIsCounted, AcceptedAsked, Asked, Working
  <2>6. AcceptedAsked'
    BY <2>1, <2>2, <2>3 DEF IInv, RouterTypeOK, AcceptedAsked, Asked, Working
  <2>7. GoesOnBecauseLost'
    BY <2>1, <2>2, <2>3 DEF IInv, RouterTypeOK, GoesOnBecauseLost, AcceptedAsked, Asked, Working
  <2>8. OkIsAccepted'
    BY <2>1, <2>2, <2>3 DEF IInv, RouterTypeOK, OkIsAccepted, Working
  <2>9. SettledIsCached'
    BY <2>1, <2>2, <2>3 DEF IInv, RouterTypeOK, SettledIsCached, Working
  <2>10. OverlappedOrExpired'
    BY <2>1, <2>2, <2>3 DEF IInv, RouterTypeOK, OverlappedOrExpired, SettledIsCached, Asked, Working
  <2>11. OneOrderPerKey'
    BY <2>1, <2>2, <2>3 DEF IInv, RouterTypeOK, OneOrderPerKey, OverlappedOrExpired, AcceptedAsked, GoesOnBecauseLost, Asked, Working
  <2>12. SuccessIsReal'
    BY <2>1, <2>2, <2>3 DEF IInv, RouterTypeOK, SuccessIsReal, OkIsAccepted, Working
  <2>13. BreakerCountsFailures'
    BY <2>1, <2>2, <2>3 DEF IInv, RouterTypeOK, BreakerCountsFailures, Windows, NoEntry
  <2> QED
    BY <2>4, <2>5, <2>6, <2>7, <2>8, <2>9, <2>10, <2>11, <2>12, <2>13 DEF IInv
<1>5. ASSUME NEW c \in Requests, AnswerRefused(c) \/ AnswerLost(c)
      PROVE  IInv'
  <2>1. /\ request[c].phase = "asking" /\ request[c].broker \in Brokers
        /\ accepted[c] <= request[c].tries
        /\ breaker' = [breaker EXCEPT ![request[c].broker] = Failure(request[c].broker)]
        /\ UNCHANGED <<kill, overlapped, expired>>
    BY <1>5 DEF AnswerRefused, AnswerLost, external, IInv, WorkingIsCounted, Working
  <2>2. \/ /\ request[c].tries < RetryAttempts /\ cache' = cache
           /\ request' = [request EXCEPT ![c] = [request[c] EXCEPT !.phase = "backoff", !.tries = @ + 1]]
        \/ /\ cache' = IF request[c].key \in Keys THEN [cache EXCEPT ![request[c].key] = "failed"] ELSE cache
           /\ request' = [request EXCEPT ![c] = [request[c] EXCEPT !.phase = "failed"]]
    BY <1>5 DEF AnswerRefused, AnswerLost, Fail, MayRetry, Store, Become
  <2>3. \/ accepted' = accepted /\ lost' = lost
        \/ accepted' = [accepted EXCEPT ![c] = @ + 1] /\ lost' = lost \cup {c}
    BY <1>5 DEF AnswerRefused, AnswerLost, external
  <2>4. request' \in [Requests -> RequestType]
    <3>1. request[c] \in RequestType
      BY DEF IInv, RouterTypeOK
    <3>2. [request[c] EXCEPT !.phase = "failed"] \in RequestType
      BY <3>1 DEF RequestType, Settled
    <3>3. request[c].tries < RetryAttempts =>
            [request[c] EXCEPT !.phase = "backoff", !.tries = @ + 1] \in RequestType
      BY <3>1, BackoffTyped
    <3> QED
      BY <2>2, <3>2, <3>3 DEF IInv, RouterTypeOK
  <2>5. accepted' \in [Requests -> 0 .. RetryAttempts + 1] /\ lost' \subseteq Requests
    BY <2>1, <2>3 DEF IInv, RouterTypeOK, RequestType
  <2>6. /\ \/ request'[c].phase = "backoff" /\ request'[c].tries = request[c].tries + 1
           \/ request'[c].phase = "failed"
        /\ request'[c].key = request[c].key /\ request'[c].broker = request[c].broker /\ request'[c].done = request[c].done
        /\ \A d \in Requests \ {c} : request'[d] = request[d]
    <3>1. request[c] \in RequestType /\ request \in [Requests -> RequestType]
      BY DEF IInv, RouterTypeOK
    <3>2. CASE request' = [request EXCEPT ![c] = [request[c] EXCEPT !.phase = "backoff", !.tries = @ + 1]]
      <4>1. request'[c] = [request[c] EXCEPT !.phase = "backoff", !.tries = @ + 1]
        BY <3>1, <3>2
      <4>2. \A d \in Requests \ {c} : request'[d] = request[d]
        BY <3>1, <3>2
      <4> QED
        BY <3>1, <4>1, <4>2, BackoffFields
    <3>3. CASE request' = [request EXCEPT ![c] = [request[c] EXCEPT !.phase = "failed"]]
      <4>1. request'[c] = [request[c] EXCEPT !.phase = "failed"]
        BY <3>1, <3>3
      <4>2. \A d \in Requests \ {c} : request'[d] = request[d]
        BY <3>1, <3>3
      <4> QED
        BY <3>1, <4>1, <4>2, FailedFields
    <3> QED
      BY <2>2, <3>2, <3>3
  <2>7. /\ \/ accepted'[c] = accepted[c] /\ lost' = lost
           \/ accepted'[c] = accepted[c] + 1 /\ lost' = lost \cup {c}
        /\ \A d \in Requests \ {c} : accepted'[d] = accepted[d]
    BY <2>3 DEF IInv, RouterTypeOK
  <2>8. cache' \in [Keys -> Verdicts \cup {Nothing}]
    BY <2>2 DEF IInv, RouterTypeOK, Verdicts
  <2>9. /\ \A k \in Keys : cache[k] # Nothing => cache'[k] # Nothing
        /\ \A k \in Keys : cache'[k] = "ok" => cache[k] = "ok"
        /\ request'[c].phase = "failed" => (request[c].key \in Keys => cache'[request[c].key] # Nothing)
    <3>1. cache \in [Keys -> Verdicts \cup {Nothing}]
      BY DEF IInv, RouterTypeOK
    <3>2. CASE cache' = cache /\ request' = [request EXCEPT ![c] = [request[c] EXCEPT !.phase = "backoff", !.tries = @ + 1]]
      <4>1. request'[c] = [request[c] EXCEPT !.phase = "backoff", !.tries = @ + 1]
        BY <3>2 DEF IInv, RouterTypeOK
      <4>2. request'[c].phase = "backoff"
        BY <4>1, BackoffFields DEF IInv, RouterTypeOK
      <4> QED
        BY <3>2, <4>2
    <3>3. CASE cache' = IF request[c].key \in Keys THEN [cache EXCEPT ![request[c].key] = "failed"] ELSE cache
      <4>1. \A k \in Keys : cache'[k] = cache[k] \/ cache'[k] = "failed"
        BY <3>1, <3>3
      <4>2. request[c].key \in Keys => cache'[request[c].key] = "failed"
        BY <3>1, <3>3
      <4> QED
        BY <4>1, <4>2
    <3> QED
      BY <2>2, <3>2, <3>3
  <2>10. RouterTypeOK'
    BY <2>1, <2>4, <2>5, <2>8 DEF IInv, RouterTypeOK, Failure, Windows
  <2>11. WorkingIsCounted'
    BY <2>1, <2>4, <2>5, <2>6, <2>7 DEF IInv, RouterTypeOK, WorkingIsCounted, AcceptedAsked, Asked, Working, RequestType
  <2>12. AcceptedAsked'
    BY <2>1, <2>6, <2>7 DEF IInv, RouterTypeOK, AcceptedAsked, Asked, Working
  <2>13. GoesOnBecauseLost'
    BY <2>1, <2>5, <2>6, <2>7 DEF IInv, RouterTypeOK, GoesOnBecauseLost, AcceptedAsked, Asked, Working
  <2>14. OkIsAccepted'
    BY <2>1, <2>6, <2>7 DEF IInv, RouterTypeOK, OkIsAccepted, Working
  <2>15. SettledIsCached'
    BY <2>1, <2>6, <2>9 DEF IInv, RouterTypeOK, SettledIsCached, Working
  <2>16. OverlappedOrExpired'
    BY <2>1, <2>6 DEF IInv, RouterTypeOK, OverlappedOrExpired, SettledIsCached, Asked, Working
  <2>17. OneOrderPerKey'
    <3>1. \A d \in Requests : accepted'[d] > 1 => d \in lost'
      <4>1. accepted'[c] > 1 => c \in lost'
        BY <2>1, <2>5, <2>7 DEF IInv, RouterTypeOK, GoesOnBecauseLost, OneOrderPerKey, Working
      <4>2. \A d \in Requests \ {c} : accepted'[d] > 1 => d \in lost'
        BY <2>7 DEF IInv, OneOrderPerKey
      <4> QED
        BY <4>1, <4>2
    <3>2. \A d \in Requests : accepted'[d] > 0 => request'[d].phase \in Asked
      BY <2>12, <2>5 DEF AcceptedAsked, Asked, Working
    <3> QED
      BY <3>1, <3>2, <2>16 DEF OneOrderPerKey, OverlappedOrExpired
  <2>18. SuccessIsReal'
    <3>1. \A d \in Requests : request[d].phase = "ok" => request'[d] = request[d] /\ accepted'[d] = accepted[d]
      BY <2>1, <2>6, <2>7
    <3>2. \A d \in Requests : request'[d].phase \in {"ok", "replayed"} => request'[d] = request[d] /\ accepted'[d] = accepted[d]
      BY <2>1, <2>6, <2>7
    <3>3. \A k \in Keys : cache'[k] = "ok" => cache[k] = "ok"
      BY <2>9
    <3> QED
      BY <3>1, <3>2, <3>3 DEF IInv, SuccessIsReal
  <2>19. BreakerCountsFailures'
    BY <2>1 DEF IInv, RouterTypeOK, BreakerCountsFailures, Failure, Windows
  <2> QED
    BY <2>10, <2>11, <2>12, <2>13, <2>14, <2>15, <2>16, <2>17, <2>18, <2>19 DEF IInv
<1>6. ASSUME NEW c \in Requests, Retry(c)
      PROVE  IInv'
  <2>1. /\ request[c].phase = "backoff"
        /\ request' = [request EXCEPT ![c] = [request[c] EXCEPT !.phase = "asking"]]
        /\ UNCHANGED <<kill, breaker, cache, accepted, lost, overlapped, expired>>
    BY <1>6 DEF Retry, Become, external
  <2>2. request' \in [Requests -> RequestType]
    BY <2>1 DEF IInv, RouterTypeOK, RequestType, Working, Settled
  <2>3. /\ request'[c].phase = "asking" /\ request'[c].key = request[c].key /\ request'[c].broker = request[c].broker
        /\ request'[c].tries = request[c].tries /\ request'[c].done = request[c].done
        /\ \A d \in Requests \ {c} : request'[d] = request[d]
    BY <2>1 DEF IInv, RouterTypeOK, RequestType
  <2>4. RouterTypeOK'
    BY <2>1, <2>2 DEF IInv, RouterTypeOK, Windows
  <2>5. WorkingIsCounted'
    BY <2>1, <2>2, <2>3 DEF IInv, RouterTypeOK, WorkingIsCounted, AcceptedAsked, Asked, Working
  <2>6. AcceptedAsked'
    BY <2>1, <2>2, <2>3 DEF IInv, RouterTypeOK, AcceptedAsked, Asked, Working
  <2>7. GoesOnBecauseLost'
    BY <2>1, <2>2, <2>3 DEF IInv, RouterTypeOK, GoesOnBecauseLost, AcceptedAsked, Asked, Working
  <2>8. OkIsAccepted'
    BY <2>1, <2>2, <2>3 DEF IInv, RouterTypeOK, OkIsAccepted, Working
  <2>9. SettledIsCached'
    BY <2>1, <2>2, <2>3 DEF IInv, RouterTypeOK, SettledIsCached, Working
  <2>10. OverlappedOrExpired'
    BY <2>1, <2>2, <2>3 DEF IInv, RouterTypeOK, OverlappedOrExpired, SettledIsCached, Asked, Working
  <2>11. OneOrderPerKey'
    BY <2>1, <2>2, <2>3 DEF IInv, RouterTypeOK, OneOrderPerKey, OverlappedOrExpired, AcceptedAsked, GoesOnBecauseLost, Asked, Working
  <2>12. SuccessIsReal'
    BY <2>1, <2>2, <2>3 DEF IInv, RouterTypeOK, SuccessIsReal, OkIsAccepted, Working
  <2>13. BreakerCountsFailures'
    BY <2>1, <2>2, <2>3 DEF IInv, RouterTypeOK, BreakerCountsFailures, Windows, NoEntry
  <2> QED
    BY <2>4, <2>5, <2>6, <2>7, <2>8, <2>9, <2>10, <2>11, <2>12, <2>13 DEF IInv
<1>7. ASSUME NEW b \in Brokers, ResetBreaker(b) \/ CooldownOver(b)
      PROVE  IInv'
  <2>1. /\ \/ breaker' = [breaker EXCEPT ![b] = NoEntry]
           \/ breaker[b].window = "open" /\ breaker' = [breaker EXCEPT ![b].window = "over"]
        /\ UNCHANGED <<kill, cache, request, accepted, lost, overlapped, expired>>
    BY <1>7 DEF ResetBreaker, CooldownOver, external
  <2>2. RouterTypeOK'
    BY <2>1 DEF IInv, RouterTypeOK, Windows, NoEntry
  <2>3. WorkingIsCounted'
    BY <2>1 DEF IInv, RouterTypeOK, WorkingIsCounted, AcceptedAsked, Asked, Working
  <2>4. AcceptedAsked'
    BY <2>1 DEF IInv, RouterTypeOK, AcceptedAsked, Asked, Working
  <2>5. GoesOnBecauseLost'
    BY <2>1 DEF IInv, RouterTypeOK, GoesOnBecauseLost, AcceptedAsked, Asked, Working
  <2>6. OkIsAccepted'
    BY <2>1 DEF IInv, RouterTypeOK, OkIsAccepted, Working
  <2>7. SettledIsCached'
    BY <2>1 DEF IInv, RouterTypeOK, SettledIsCached, Working
  <2>8. OverlappedOrExpired'
    BY <2>1 DEF IInv, RouterTypeOK, OverlappedOrExpired, SettledIsCached, Asked, Working
  <2>9. OneOrderPerKey'
    BY <2>1 DEF IInv, RouterTypeOK, OneOrderPerKey, OverlappedOrExpired, AcceptedAsked, GoesOnBecauseLost, Asked, Working
  <2>10. SuccessIsReal'
    BY <2>1 DEF IInv, RouterTypeOK, SuccessIsReal, OkIsAccepted, Working
  <2>11. BreakerCountsFailures'
    BY <2>1 DEF IInv, RouterTypeOK, BreakerCountsFailures, Windows, NoEntry
  <2> QED
    BY <2>2, <2>3, <2>4, <2>5, <2>6, <2>7, <2>8, <2>9, <2>10, <2>11 DEF IInv
<1>8. ASSUME NEW k \in Keys, CacheExpires(k)
      PROVE  IInv'
  <2>1. /\ cache' = [cache EXCEPT ![k] = Nothing] /\ expired' = expired \cup {k}
        /\ UNCHANGED <<kill, breaker, request, accepted, lost, overlapped>>
    BY <1>8 DEF CacheExpires, external
  <2>2. RouterTypeOK'
    BY <2>1 DEF IInv, RouterTypeOK, Windows
  <2>3. WorkingIsCounted'
    BY <2>1 DEF IInv, RouterTypeOK, WorkingIsCounted, AcceptedAsked, Asked, Working
  <2>4. AcceptedAsked'
    BY <2>1 DEF IInv, RouterTypeOK, AcceptedAsked, Asked, Working
  <2>5. GoesOnBecauseLost'
    BY <2>1 DEF IInv, RouterTypeOK, GoesOnBecauseLost, AcceptedAsked, Asked, Working
  <2>6. OkIsAccepted'
    BY <2>1 DEF IInv, RouterTypeOK, OkIsAccepted, Working
  <2>7. SettledIsCached'
    BY <2>1 DEF IInv, RouterTypeOK, SettledIsCached, Working
  <2>8. OverlappedOrExpired'
    BY <2>1 DEF IInv, RouterTypeOK, OverlappedOrExpired, SettledIsCached, Asked, Working
  <2>9. OneOrderPerKey'
    BY <2>1 DEF IInv, RouterTypeOK, OneOrderPerKey, OverlappedOrExpired, AcceptedAsked, GoesOnBecauseLost, Asked, Working
  <2>10. SuccessIsReal'
    BY <2>1 DEF IInv, RouterTypeOK, SuccessIsReal, OkIsAccepted, Working
  <2>11. BreakerCountsFailures'
    BY <2>1 DEF IInv, RouterTypeOK, BreakerCountsFailures, Windows, NoEntry
  <2> QED
    BY <2>2, <2>3, <2>4, <2>5, <2>6, <2>7, <2>8, <2>9, <2>10, <2>11 DEF IInv
<1>9. ASSUME SetKillSwitch \/ UNCHANGED routerVars
      PROVE  IInv'
  <2>1. /\ kill' \in BOOLEAN
        /\ UNCHANGED <<breaker, cache, request, accepted, lost, overlapped, expired>>
    BY <1>9 DEF SetKillSwitch, routerVars, external, IInv, RouterTypeOK
  <2>2. RouterTypeOK'
    BY <2>1 DEF IInv, RouterTypeOK, Windows
  <2>3. WorkingIsCounted'
    BY <2>1 DEF IInv, RouterTypeOK, WorkingIsCounted, AcceptedAsked, Asked, Working
  <2>4. AcceptedAsked'
    BY <2>1 DEF IInv, RouterTypeOK, AcceptedAsked, Asked, Working
  <2>5. GoesOnBecauseLost'
    BY <2>1 DEF IInv, RouterTypeOK, GoesOnBecauseLost, AcceptedAsked, Asked, Working
  <2>6. OkIsAccepted'
    BY <2>1 DEF IInv, RouterTypeOK, OkIsAccepted, Working
  <2>7. SettledIsCached'
    BY <2>1 DEF IInv, RouterTypeOK, SettledIsCached, Working
  <2>8. OverlappedOrExpired'
    BY <2>1 DEF IInv, RouterTypeOK, OverlappedOrExpired, SettledIsCached, Asked, Working
  <2>9. OneOrderPerKey'
    BY <2>1 DEF IInv, RouterTypeOK, OneOrderPerKey, OverlappedOrExpired, AcceptedAsked, GoesOnBecauseLost, Asked, Working
  <2>10. SuccessIsReal'
    BY <2>1 DEF IInv, RouterTypeOK, SuccessIsReal, OkIsAccepted, Working
  <2>11. BreakerCountsFailures'
    BY <2>1 DEF IInv, RouterTypeOK, BreakerCountsFailures, Windows, NoEntry
  <2> QED
    BY <2>2, <2>3, <2>4, <2>5, <2>6, <2>7, <2>8, <2>9, <2>10, <2>11 DEF IInv
<1> QED
  BY <1>1, <1>2, <1>3, <1>4, <1>5, <1>6, <1>7, <1>8, <1>9 DEF RouterNext

(* The inductive invariant holds in every reachable state of the router.   *)
THEOREM IInvHolds == RouterSpec => []IInv
<1> QED
  BY Initial, Inductive, PTL DEF RouterSpec

(* Calls, breakers and the cache keep their types: no call is asked more   *)
(* than once and brokerRetryAttempts times again.                          *)
THEOREM TypeCorrect == RouterSpec => []RouterTypeOK
<1>1. IInv => RouterTypeOK
  BY DEF IInv
<1> QED
  BY <1>1, IInvHolds, PTL

(* An idempotency key buys one order, unless an answer was lost, calls of  *)
(* the key overlapped or its cached result expired.                        *)
THEOREM KeyBuysOneOrder == RouterSpec => []OneOrderPerKey
<1>1. IInv => OneOrderPerKey
  BY DEF IInv
<1> QED
  BY <1>1, IInvHolds, PTL

(* A success that placeOrder reports, caches or replays is an order that a *)
(* broker accepted.                                                        *)
THEOREM SuccessIsAlwaysReal == RouterSpec => []SuccessIsReal
<1>1. IInv => SuccessIsReal
  BY DEF IInv
<1> QED
  BY <1>1, IInvHolds, PTL

(* The breaker window is set exactly while the failures since the last     *)
(* reset have reached the threshold.                                       *)
THEOREM BreakerAlwaysCounts == RouterSpec => []BreakerCountsFailures
<1>1. IInv => BreakerCountsFailures
  BY DEF IInv
<1> QED
  BY <1>1, IInvHolds, PTL

(***************************************************************************)
(* Sequences                                                               *)
(***************************************************************************)

(* Numbers up to n, of which one is least.                                 *)
LEMMA LeastNumber ==
  ASSUME NEW n \in Nat, NEW B \in SUBSET (0 .. n), B # {}
  PROVE  \E m \in B : \A k \in B : m <= k
<1> DEFINE T == {1 .. m : m \in B}
<1>1. IsFiniteSet(1 .. n)
  BY FS_Interval
<1>2. IsWellFoundedOn(StrictSubsetOrdering(1 .. n), FiniteSubsetsOf(1 .. n))
  BY FS_StrictSubsetOrderingWellFounded
<1>3. T \subseteq FiniteSubsetsOf(1 .. n) /\ T # {}
  <2>1. \A m \in B : IsFiniteSet(1 .. m) /\ 1 .. m \subseteq 1 .. n
    <3>1. ASSUME NEW m \in B
          PROVE  IsFiniteSet(1 .. m) /\ 1 .. m \subseteq 1 .. n
      BY FS_Interval
    <3> QED
      BY <3>1
  <2> QED
    BY <2>1 DEF FiniteSubsetsOf
<1> HIDE DEF T
<1>4. PICK t \in T : \A u \in T : ~(<<u, t>> \in StrictSubsetOrdering(1 .. n))
  BY <1>2, <1>3, WFMin
<1>5. PICK m \in B : t = 1 .. m
  BY DEF T
<1>6. ASSUME NEW k \in B, k < m
      PROVE  FALSE
  <2>1. 1 .. k \in T
    BY DEF T
  <2>2. 1 .. k \subseteq 1 .. m /\ 1 .. m \subseteq 1 .. n /\ 1 .. k \subseteq 1 .. n
    BY <1>6
  <2>3. m \in 1 .. m /\ m \notin 1 .. k
    BY <1>6
  <2>4. <<1 .. k, 1 .. m>> \in StrictSubsetOrdering(1 .. n)
    BY <2>2, <2>3, Zenon DEF StrictSubsetOrdering
  <2> QED
    BY <2>1, <2>4, <1>4, <1>5
<1> QED
  BY <1>6

(* f joins the first n sequences of seqs, step by step.                    *)
Joins(f, seqs, n) == f = [i \in 1 .. n |-> IF i = 1 THEN seqs[i] ELSE f[i-1] \o seqs[i]]

LEMMA FlattenIsJoin ==
  ASSUME NEW seqs, Len(seqs) # 0
  PROVE  FlattenSeq(seqs) = (CHOOSE f : Joins(f, seqs, Len(seqs)))[Len(seqs)]
BY DEF FlattenSeq, Joins

LEMMA JoinGrows ==
  ASSUME NEW seqs, NEW n \in Nat, NEW f, Joins(f, seqs, n)
  PROVE  \E g : Joins(g, seqs, n + 1)
<1> DEFINE last == IF n = 0 THEN seqs[1] ELSE f[n] \o seqs[n + 1]
           g == [i \in 1 .. n + 1 |-> IF i = n + 1 THEN last ELSE f[i]]
<1>1. \A i \in 1 .. n : f[i] = IF i = 1 THEN seqs[i] ELSE f[i-1] \o seqs[i]
  BY DEF Joins
<1>2. ASSUME NEW i \in 1 .. n + 1
      PROVE  g[i] = IF i = 1 THEN seqs[i] ELSE g[i-1] \o seqs[i]
  <2>1. CASE i = n + 1
    <3>1. CASE n = 0
      BY <2>1, <3>1
    <3>2. CASE n # 0
      <4>1. i # 1 /\ i - 1 = n /\ n \in 1 .. n + 1 /\ n # n + 1
        BY <2>1, <3>2
      <4> QED
        BY <2>1, <3>2, <4>1
    <3> QED
      BY <3>1, <3>2
  <2>2. CASE i # n + 1
    <3>1. i \in 1 .. n /\ g[i] = f[i]
      BY <2>2
    <3>2. i # 1 => i - 1 \in 1 .. n + 1 /\ i - 1 # n + 1 /\ g[i-1] = f[i-1]
      BY <2>2
    <3> QED
      BY <3>1, <3>2, <1>1
  <2> QED
    BY <2>1, <2>2
<1>3. g = [i \in 1 .. n + 1 |-> g[i]]
  OBVIOUS
<1> HIDE DEF g
<1>4. g = [i \in 1 .. n + 1 |-> IF i = 1 THEN seqs[i] ELSE g[i-1] \o seqs[i]]
  BY <1>2, <1>3
<1> QED
  BY <1>4 DEF Joins

LEMMA JoinExists ==
  ASSUME NEW seqs, NEW n \in Nat
  PROVE  \E f : Joins(f, seqs, n)
<1> DEFINE B == {k \in 0 .. n : ~\E f : Joins(f, seqs, k)}
<1>1. B \in SUBSET (0 .. n)
  OBVIOUS
<1>2. ASSUME B # {}
      PROVE  FALSE
  <2> HIDE DEF B
  <2>1. PICK m \in B : \A k \in B : m <= k
    BY <1>1, <1>2, LeastNumber
  <2> USE DEF B
  <2>2. m # 0
    <3>1. Joins(<<>>, seqs, 0)
      BY DEF Joins
    <3> QED
      BY <3>1
  <2>3. m - 1 \in 0 .. n /\ m - 1 \in Nat /\ m - 1 + 1 = m /\ m - 1 \notin B
    BY <2>1, <2>2
  <2>4. PICK f : Joins(f, seqs, m - 1)
    BY <2>3
  <2>5. \E g : Joins(g, seqs, m - 1 + 1)
    BY <2>3, <2>4, JoinGrows
  <2>6. \E g : Joins(g, seqs, m)
    BY <2>3, <2>5
  <2> QED
    BY <2>6
<1> QED
  BY <1>2

(* A sequence of sequences, flattened, is a sequence of their elements.    *)
LEMMA FlattenType ==
  ASSUME NEW S, NEW seqs \in Seq(Seq(S))
  PROVE  FlattenSeq(seqs) \in Seq(S)
<1>1. CASE Len(seqs) = 0
  BY <1>1 DEF FlattenSeq
<1>2. CASE Len(seqs) # 0
  <2> DEFINE n == Len(seqs)
             h == CHOOSE f : Joins(f, seqs, n)
             B == {k \in 0 .. n : k # 0 /\ h[k] \notin Seq(S)}
  <2>1. n \in Nat /\ \A i \in 1 .. n : seqs[i] \in Seq(S)
    OBVIOUS
  <2>2. Joins(h, seqs, n)
    BY <2>1, JoinExists
  <2>3. FlattenSeq(seqs) = h[n]
    BY <1>2, FlattenIsJoin
  <2> HIDE DEF h
  <2>4. \A i \in 1 .. n : h[i] = IF i = 1 THEN seqs[i] ELSE h[i-1] \o seqs[i]
    BY <2>2 DEF Joins
  <2>5. B \in SUBSET (0 .. n)
    OBVIOUS
  <2>6. ASSUME B # {}
        PROVE  FALSE
    <3> HIDE DEF B
    <3>1. PICK m \in B : \A k \in B : m <= k
      BY <2>1, <2>5, <2>6, LeastNumber
    <3> USE DEF B
    <3>2. m \in 1 .. n /\ m - 1 \in 0 .. n /\ m - 1 \notin B
      BY <2>1, <3>1
    <3>3. m # 1 => h[m - 1] \in Seq(S)
      BY <3>2
    <3>4. h[m] \in Seq(S)
      <4>1. seqs[m] \in Seq(S) /\ h[m] = IF m = 1 THEN seqs[m] ELSE h[m-1] \o seqs[m]
        BY <2>1, <2>4, <3>2
      <4> HIDE DEF n, B
      <4> QED
        BY <4>1, <3>3, ConcatProperties
    <3> QED
      BY <3>1, <3>4
  <2> QED
    BY <2>1, <2>3, <2>6, <1>2
<1> QED
  BY <1>1, <1>2

(* A sequence without its element at i, or parted anywhere.                *)
LEMMA RemoveAtType ==
  ASSUME NEW S, NEW q \in Seq(S), NEW i \in DOMAIN q
  PROVE  RemoveAt(q, i) \in Seq(S) /\ Len(RemoveAt(q, i)) = Len(q) - 1
<1>1. Len(q) \in Nat /\ i \in 1 .. Len(q) /\ \A j \in 1 .. Len(q) : q[j] \in S
  OBVIOUS
<1>2. SubSeq(q, 1, i - 1) \in Seq(S) /\ Len(SubSeq(q, 1, i - 1)) = i - 1
  BY <1>1, SubSeqProperties
<1>3. SubSeq(q, i + 1, Len(q)) \in Seq(S) /\ Len(SubSeq(q, i + 1, Len(q))) = Len(q) - i
  BY <1>1, SubSeqProperties
<1> DEFINE a == SubSeq(q, 1, i - 1)
           b == SubSeq(q, i + 1, Len(q))
<1>4. RemoveAt(q, i) = a \o b
  BY DEF RemoveAt
<1> HIDE DEF a, b
<1>5. a \o b \in Seq(S) /\ Len(a \o b) = Len(a) + Len(b)
  BY <1>2, <1>3, ConcatProperties DEF a, b
<1>6. Len(a) = i - 1 /\ Len(b) = Len(q) - i
  BY <1>2, <1>3 DEF a, b
<1>7. Len(a) + Len(b) = Len(q) - 1
  BY <1>1, <1>6
<1> QED
  BY <1>4, <1>5, <1>7

LEMMA SuffixType ==
  ASSUME NEW S, NEW q \in Seq(S), NEW m \in 1 .. Len(q) + 1
  PROVE  SubSeq(q, m, Len(q)) \in Seq(S) /\ Len(SubSeq(q, m, Len(q))) = Len(q) - m + 1
<1>1. \A j \in m .. Len(q) : q[j] \in S
  OBVIOUS
<1> QED
  BY <1>1, SubSeqProperties

LEMMA PrefixType ==
  ASSUME NEW S, NEW q \in Seq(S), NEW n \in 0 .. Len(q)
  PROVE  SubSeq(q, 1, n) \in Seq(S)
<1>1. \A j \in 1 .. n : q[j] \in S
  OBVIOUS
<1> QED
  BY <1>1, SubSeqProperties

(***************************************************************************)
(* EaManagement                                                            *)
(***************************************************************************)

(* What is decided for a position is a command for its symbol.             *)
LEMMA CommandedTypes ==
  ASSUME NEW symbol \in Instruments, NEW d \in Seq(Types)
  PROVE  Commanded(symbol, d) \in Seq(Commands)
<1>1. ASSUME NEW n \in 1 .. Len(d)
      PROVE  [type |-> d[n], symbol |-> symbol] \in Commands
  <2>1. d[n] \in Types
    OBVIOUS
  <2> QED
    BY <2>1 DEF Commands
<1>2. Commanded(symbol, d) = [n \in 1 .. Len(d) |-> [type |-> d[n], symbol |-> symbol]]
  BY DEF Commanded
<1> QED
  BY <1>1, <1>2

(* The commands that are built are commands for positions' symbols.        *)
LEMMA BuildTypes ==
  ASSUME NEW p \in Seq(Instruments), NEW plan \in [DOMAIN p -> Decisions]
  PROVE  BuildManagementCommands(p, plan) \in Seq(Commands)
<1> DEFINE all == [i \in DOMAIN p |-> Commanded(p[i], plan[i])]
<1>1. ASSUME NEW i \in DOMAIN p
      PROVE  Commanded(p[i], plan[i]) \in Seq(Commands)
  <2>1. p[i] \in Instruments /\ plan[i] \in Seq(Types)
    BY ManagementAssumption
  <2> QED
    BY <2>1, CommandedTypes
<1>2. all \in Seq(Seq(Commands))
  <2>1. DOMAIN p = 1 .. Len(p) /\ Len(p) \in Nat
    OBVIOUS
  <2>2. all \in [1 .. Len(p) -> Seq(Commands)]
    BY <1>1, <2>1
  <2> HIDE DEF all
  <2> QED
    BY <2>1, <2>2
<1>3. BuildManagementCommands(p, plan) = FlattenSeq(all)
  BY DEF BuildManagementCommands
<1> HIDE DEF all
<1> QED
  BY <1>2, <1>3, FlattenType

(* What the EA reads are commands for one symbol or for any.               *)
LEMMA ParseTypes ==
  ASSUME NEW cmds \in Seq(Commands), NEW next \in Instruments \cup {AnySymbol}
  PROVE  ParseCommands(cmds, next) \in Seq(Addressed)
<1>1. ASSUME NEW i \in 1 .. Len(cmds)
      PROVE  ParseCommands(cmds, next)[i] \in Addressed
  <2>1. cmds[i] \in Commands /\ (i < Len(cmds) => cmds[i + 1] \in Commands)
    OBVIOUS
  <2>2. cmds[i].type \in Types /\ (i < Len(cmds) => cmds[i + 1].symbol \in Instruments)
    BY <2>1 DEF Commands
  <2> QED
    BY <2>2 DEF ParseCommands, Addressed
<1>2. ParseCommands(cmds, next) = [i \in 1 .. Len(cmds) |-> ParseCommands(cmds, next)[i]]
  BY DEF ParseCommands
<1> QED
  BY <1>1, <1>2

(* So is what it reads of the list of actions.                             *)
LEMMA ActionTypes ==
  ASSUME NEW p \in Seq(Instruments), NEW plan, NEW cmds \in Seq(Commands)
  PROVE  ParseActions(p, plan, cmds) \in Seq(Addressed)
<1> DEFINE next(i) == IF i < Len(p) THEN p[i + 1] ELSE IF cmds = <<>> THEN AnySymbol ELSE cmds[1].symbol
           read(i) == IF "partial" \in ToSet(plan[i]) THEN <<[type |-> "partial", symbol |-> next(i)]>> ELSE <<>>
           all == [i \in DOMAIN p |-> read(i)]
<1>1. ASSUME NEW i \in DOMAIN p
      PROVE  read(i) \in Seq(Addressed)
  <2>1. i < Len(p) => p[i + 1] \in Instruments
    OBVIOUS
  <2>2. cmds # <<>> => cmds[1].symbol \in Instruments
    <3>1. cmds # <<>> => cmds[1] \in Commands
      OBVIOUS
    <3> QED
      BY <3>1 DEF Commands
  <2>3. next(i) \in Instruments \cup {AnySymbol}
    BY <2>1, <2>2
  <2> HIDE DEF next
  <2>4. [type |-> "partial", symbol |-> next(i)] \in Addressed
    BY <2>3 DEF Addressed, Types
  <2> QED
    BY <2>4
<1> HIDE DEF read
<1>2. all \in Seq(Seq(Addressed))
  <2>1. DOMAIN p = 1 .. Len(p) /\ Len(p) \in Nat
    OBVIOUS
  <2>2. all \in [1 .. Len(p) -> Seq(Addressed)]
    BY <1>1, <2>1
  <2> HIDE DEF all
  <2> QED
    BY <2>1, <2>2
<1>3. ParseActions(p, plan, cmds) = FlattenSeq(all)
  BY DEF ParseActions, read, next
<1> HIDE DEF all
<1> QED
  BY <1>2, <1>3, FlattenType

(* The queue holds the latest commands, up to its limit.                   *)
LEMMA EnqueueTypes ==
  ASSUME queue \in Seq(Commands), NEW cmds \in Seq(Commands), EnqueueManagementCommands(cmds)
  PROVE  queue' \in Seq(Commands) /\ Len(queue') <= ManagementQueueMax
<1> USE ManagementAssumption
<1> DEFINE all == queue \o cmds
<1>1. all \in Seq(Commands) /\ Len(all) \in Nat
  BY ConcatProperties
<1>2. queue' = IF Len(all) <= ManagementQueueMax THEN all
               ELSE SubSeq(all, Len(all) - ManagementQueueMax + 1, Len(all))
  BY DEF EnqueueManagementCommands
<1> HIDE DEF all
<1>3. CASE Len(all) > ManagementQueueMax
  <2> DEFINE m == Len(all) - ManagementQueueMax + 1
  <2>1. m \in 1 .. Len(all) + 1 /\ Len(all) - m + 1 = ManagementQueueMax
    BY <1>1, <1>3
  <2>2. queue' = SubSeq(all, m, Len(all))
    BY <1>1, <1>2, <1>3
  <2> HIDE DEF m
  <2> QED
    BY <1>1, <2>1, <2>2, SuffixType
<1> QED
  BY <1>1, <1>2, <1>3

(* Commands are built, queued, drained, read and executed, and positions   *)
(* come and go.                                                            *)
LEMMA ManagementKept == ManagementTypeOK /\ [ManagementNext]_managementVars => ManagementTypeOK'
<1> SUFFICES ASSUME ManagementTypeOK, [ManagementNext]_managementVars
             PROVE  ManagementTypeOK'
  OBVIOUS
<1> USE ManagementAssumption
<1>t. /\ positions \in Seq(Instruments) /\ Len(positions) <= MaxPositions
      /\ reason \in BOOLEAN /\ killSwitch \in BOOLEAN
      /\ queue \in Seq(Commands) /\ Len(queue) <= ManagementQueueMax
      /\ reply \in Seq(Addressed) /\ Len(positions) \in Nat /\ Len(queue) \in Nat
  BY DEF ManagementTypeOK
<1>e. <<>> \in Seq(Addressed)
  OBVIOUS
<1>1. ASSUME NEW s \in Instruments, OpenPosition(s)
      PROVE  ManagementTypeOK'
  BY <1>1, <1>t DEF OpenPosition, ManagementTypeOK
<1>2. ASSUME NEW i \in DOMAIN positions, StopHit(i)
      PROVE  ManagementTypeOK'
  BY <1>2, <1>t, RemoveAtType DEF StopHit, ManagementTypeOK
<1>3. CASE ReasonChanges
  BY <1>3, <1>t DEF ReasonChanges, ManagementTypeOK
<1>4. ASSUME NEW arrives \in BOOLEAN, PostPositionManagement(arrives)
      PROVE  ManagementTypeOK'
  <2> DEFINE p == Reverse(positions)
  <2>1. p \in Seq(Instruments)
    BY <1>t DEF Reverse
  <2>2. PICK plan \in [DOMAIN p -> Decisions], next \in {AnySymbol} \cup ToSet(p) :
          LET cmds == BuildManagementCommands(p, plan)
          IN  /\ EnqueueManagementCommands(cmds)
              /\ Answers(ParseActions(p, plan, cmds) \o ParseCommands(cmds, next), arrives)
    BY <1>4 DEF PostPositionManagement
  <2> DEFINE cmds == BuildManagementCommands(p, plan)
             actions == ParseActions(p, plan, cmds)
             commands == ParseCommands(cmds, next)
  <2>3. EnqueueManagementCommands(cmds) /\ Answers(actions \o commands, arrives)
    BY <2>2
  <2>4. next \in Instruments \cup {AnySymbol}
    BY <2>1 DEF ToSet
  <2> HIDE DEF p
  <2>5. cmds \in Seq(Commands)
    BY <2>1, BuildTypes
  <2> HIDE DEF cmds
  <2>6. queue' \in Seq(Commands) /\ Len(queue') <= ManagementQueueMax
    BY <2>3, <2>5, <1>t, EnqueueTypes
  <2>7. actions \in Seq(Addressed) /\ commands \in Seq(Addressed)
    BY <2>1, <2>4, <2>5, ActionTypes, ParseTypes
  <2> HIDE DEF actions, commands
  <2>8. actions \o commands \in Seq(Addressed)
    BY <2>7, ConcatProperties
  <2>9. reply' \in Seq(Addressed)
    BY <2>3, <2>8, <1>e DEF Answers
  <2> QED
    BY <1>4, <1>t, <2>6, <2>9 DEF PostPositionManagement, ManagementTypeOK
<1>5. ASSUME NEW arrives \in BOOLEAN, PollManagementCommands(arrives)
      PROVE  ManagementTypeOK'
  <2> DEFINE n == IF Len(queue) < DrainLimit THEN Len(queue) ELSE DrainLimit
  <2>1. n \in 0 .. Len(queue) /\ n + 1 \in 1 .. Len(queue) + 1 /\ n \in Nat
    BY <1>t
  <2>2. Answers(ParseCommands(SubSeq(queue, 1, n), AnySymbol), arrives) /\ queue' = SubSeq(queue, n + 1, Len(queue))
    BY <1>5 DEF PollManagementCommands
  <2> HIDE DEF n
  <2>3. SubSeq(queue, 1, n) \in Seq(Commands)
    BY <2>1, <1>t, PrefixType
  <2>4. queue' \in Seq(Commands) /\ Len(queue') = Len(queue) - (n + 1) + 1
    BY <2>1, <2>2, <1>t, SuffixType
  <2>5. Len(queue') <= ManagementQueueMax
    BY <2>1, <2>4, <1>t
  <2>6. ParseCommands(SubSeq(queue, 1, n), AnySymbol) \in Seq(Addressed)
    BY <2>3, ParseTypes
  <2>7. reply' \in Seq(Addressed)
    BY <2>2, <2>6, <1>e DEF Answers
  <2> QED
    BY <1>5, <1>t, <2>4, <2>5, <2>7 DEF PollManagementCommands, ManagementTypeOK
<1>o. CASE OperatorSetsSwitch
  BY <1>o, <1>t DEF OperatorSetsSwitch, ManagementTypeOK
<1>6. CASE CommandExpires
  BY <1>6, <1>t DEF CommandExpires, ManagementTypeOK
<1>7. CASE CloseExecuted
  <2>1. PICK i \in DOMAIN positions : positions' = RemoveAt(positions, i)
    BY <1>7 DEF CloseExecuted, Match
  <2> QED
    BY <1>7, <1>t, <2>1, RemoveAtType DEF CloseExecuted, ManagementTypeOK
<1>8. CASE CommandWithoutClose
  BY <1>8, <1>t DEF CommandWithoutClose, ManagementTypeOK
<1>9. CASE UNCHANGED managementVars
  BY <1>9, <1>t DEF managementVars, ManagementTypeOK
<1> QED
  BY <1>1, <1>2, <1>3, <1>4, <1>5, <1>6, <1>7, <1>8, <1>9, <1>o DEF ManagementNext

(* Whatever the EA opens, loses or misreads, positions and queue stay      *)
(* within their limits, and what it reads are commands for one symbol or   *)
(* for any.                                                                *)
THEOREM ManagementTypeCorrect == ManagementSpec => []ManagementTypeOK
<1>1. ManagementInit => ManagementTypeOK
  <2> SUFFICES ASSUME ManagementInit
               PROVE  ManagementTypeOK
    OBVIOUS
  <2>1. /\ positions \in Seq(Instruments) /\ queue \in Seq(Commands) /\ reply \in Seq(Addressed)
        /\ Len(positions) = 0 /\ Len(queue) = 0
    BY DEF ManagementInit
  <2>2. reason \in BOOLEAN /\ killSwitch \in BOOLEAN
    BY DEF ManagementInit
  <2> QED
    BY <2>1, <2>2, ManagementAssumption DEF ManagementTypeOK
<1> QED
  BY <1>1, ManagementKept, PTL DEF ManagementSpec
=============================================================================
