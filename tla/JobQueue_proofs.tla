-------------------------- MODULE JobQueue_proofs --------------------------
(***************************************************************************)
(* Proofs about JobQueue, for any finite set of jobs and any limits.       *)
(* Waiting and running jobs are counted together: what a step of the       *)
(* queue moves from one set to the other does not change the sum.          *)
(***************************************************************************)
EXTENDS JobQueue, FiniteSetTheorems, TLAPS

(* A job that waits has an attempt left.                                   *)
AttemptsLeft ==
  \A j \in Jobs : /\ status[j] = "new" => attempts[j] = 0
                  /\ status[j] = "queued" => attempts[j] <= RetryAttempts

IInv ==
  /\ TypeOK
  /\ AttemptsLeft
  /\ NoLostWakeup
  /\ QueueBounded
  /\ DeadAfterAllRetries

USE JobsAssumption, LimitsAssumption

LEMMA PartsFinite ==
  /\ IsFiniteSet(pending) /\ Cardinality(pending) \in Nat
  /\ IsFiniteSet(inFlight) /\ Cardinality(inFlight) \in Nat
<1>1. pending \in SUBSET Jobs /\ inFlight \in SUBSET Jobs
  BY DEF pending, inFlight
<1>2. IsFiniteSet(pending) /\ IsFiniteSet(inFlight)
  BY <1>1, FS_Subset
<1> QED
  BY <1>2, FS_CardinalityType

(* Jobs that are shared out again, some of them gone, are not more.        *)
LEMMA SharedOut ==
  ASSUME NEW P, NEW F, NEW Q, NEW G, IsFiniteSet(P), IsFiniteSet(F),
         P \cap F = {}, Q \cap G = {}, Q \cup G \subseteq P \cup F
  PROVE  Cardinality(Q) + Cardinality(G) <= Cardinality(P) + Cardinality(F)
<1>1. IsFiniteSet(P \cup F) /\ Cardinality(P \cup F) = Cardinality(P) + Cardinality(F) - Cardinality(P \cap F)
  BY FS_Union
<1>2. IsFiniteSet(Q) /\ IsFiniteSet(G)
  BY <1>1, FS_Subset
<1>3. Cardinality(Q \cup G) = Cardinality(Q) + Cardinality(G) - Cardinality(Q \cap G)
  BY <1>2, FS_Union
<1>4. Cardinality(Q \cup G) <= Cardinality(P \cup F)
  BY <1>1, FS_Subset
<1>5. Cardinality(P \cap F) = 0 /\ Cardinality(Q \cap G) = 0
  BY FS_EmptySet
<1>6. Cardinality(P) \in Nat /\ Cardinality(F) \in Nat /\ Cardinality(Q) \in Nat /\ Cardinality(G) \in Nat
  BY <1>2, FS_CardinalityType
<1> QED
  BY <1>1, <1>3, <1>4, <1>5, <1>6

(* A step that lets no job wait that neither waited nor ran, and lets no   *)
(* more jobs run than Concurrency, keeps the bound.                        *)
LEMMA BoundKept ==
  ASSUME QueueBounded, Cardinality(inFlight') <= Concurrency,
         pending' \cup inFlight' \subseteq pending \cup inFlight
  PROVE  QueueBounded'
<1>1. pending \cap inFlight = {} /\ pending' \cap inFlight' = {}
  BY DEF pending, inFlight
<1>2. Cardinality(pending') + Cardinality(inFlight') <= Cardinality(pending) + Cardinality(inFlight)
  BY <1>1, PartsFinite, SharedOut
<1>3. /\ Cardinality(pending) \in Nat /\ Cardinality(inFlight) \in Nat
      /\ Cardinality(pending)' \in Nat /\ Cardinality(inFlight)' \in Nat
  <2>1. IsFiniteSet(pending') /\ IsFiniteSet(inFlight')
    BY FS_Subset DEF pending, inFlight
  <2> QED
    BY <2>1, PartsFinite, FS_CardinalityType
<1> QED
  BY <1>2, <1>3 DEF QueueBounded

LEMMA Initial == Init => IInv
<1> SUFFICES ASSUME Init PROVE IInv
  OBVIOUS
<1>1. pending = {} /\ inFlight = {}
  BY DEF Init, pending, inFlight
<1>2. QueueBounded
  BY <1>1, FS_EmptySet DEF QueueBounded
<1>3. TypeOK
  <2>1. status \in [Jobs -> Statuses]
    BY DEF Init, Statuses
  <2>2. attempts \in [Jobs -> 0 .. RetryAttempts + 1]
    BY DEF Init
  <2> QED
    BY <2>1, <2>2 DEF Init, TypeOK
<1>4. AttemptsLeft /\ NoLostWakeup /\ DeadAfterAllRetries
  BY DEF Init, AttemptsLeft, NoLostWakeup, DeadAfterAllRetries
<1> QED
  BY <1>2, <1>3, <1>4 DEF IInv

LEMMA Inductive == IInv /\ [Next]_vars => IInv'
<1> SUFFICES ASSUME IInv, [Next]_vars PROVE IInv'
  OBVIOUS
<1> USE DEF IInv
<1>1. ASSUME NEW j \in Jobs, Enqueue(j)
      PROVE  IInv'
  <2>1. /\ status[j] = "new" /\ status' = [status EXCEPT ![j] = "queued"]
        /\ due' \in {due, due \cup {j}} /\ processing' = (processing \/ running)
        /\ UNCHANGED <<attempts, running, wake>>
        /\ Cardinality(pending) < MaxQueueSize
    BY <1>1 DEF Enqueue, Scheduled, Room
  <2>2. pending' = pending \cup {j} /\ inFlight' = inFlight
    BY <2>1 DEF TypeOK, pending, inFlight
  <2>3. TypeOK'
    BY <2>1, <2>2 DEF TypeOK, Statuses
  <2>4. AttemptsLeft'
    BY <2>1 DEF TypeOK, AttemptsLeft
  <2>5. NoLostWakeup'
    BY <2>1 DEF TypeOK, NoLostWakeup
  <2>6. QueueBounded'
    <3>1. Cardinality(pending') <= Cardinality(pending) + 1 /\ Cardinality(pending') \in Nat
      <4>1. IsFiniteSet(pending)
        BY PartsFinite
      <4>2. /\ IsFiniteSet(pending \cup {j})
            /\ Cardinality(pending \cup {j}) = IF j \in pending THEN Cardinality(pending) ELSE Cardinality(pending) + 1
        BY <4>1, FS_AddElement
      <4> QED
        BY <4>2, <2>2, PartsFinite
    <3> QED
      BY <2>1, <2>2, <3>1, PartsFinite DEF QueueBounded
  <2>7. DeadAfterAllRetries'
    BY <2>1 DEF TypeOK, DeadAfterAllRetries
  <2> QED
    BY <2>3, <2>4, <2>5, <2>6, <2>7
<1>2. ASSUME NEW j \in Jobs, Overflow(j)
      PROVE  IInv'
  <2>1. /\ status[j] = "new" /\ status' = [status EXCEPT ![j] = "dropped"]
        /\ UNCHANGED <<due, attempts, running, processing, wake>>
    BY <1>2 DEF Overflow
  <2>2. pending' = pending /\ inFlight' = inFlight
    BY <2>1 DEF TypeOK, pending, inFlight
  <2> QED
    BY <2>1, <2>2 DEF TypeOK, Statuses, AttemptsLeft, NoLostWakeup, QueueBounded, DeadAfterAllRetries
<1>3. ASSUME NEW S \in SUBSET due, ProcessNext(S)
      PROVE  IInv'
  <2>1. CASE ~running
    <3>1. UNCHANGED <<status, due, attempts, wake, running>> /\ processing' = FALSE
      BY <1>3, <2>1 DEF ProcessNext
    <3>2. pending' = pending /\ inFlight' = inFlight
      BY <3>1 DEF pending, inFlight
    <3> QED
      BY <2>1, <3>1, <3>2 DEF TypeOK, AttemptsLeft, NoLostWakeup, QueueBounded, DeadAfterAllRetries
  <2>2. CASE running
    <3>1. /\ Takes(S) /\ due' = due \ S /\ wake' = (wake \/ pending \ S # {})
          /\ status' = [j \in Jobs |-> IF j \notin S THEN status[j]
                                       ELSE IF j \in Unhandled THEN "dead" ELSE "running"]
          /\ attempts' = [j \in Jobs |-> IF j \in S \ Unhandled THEN attempts[j] + 1 ELSE attempts[j]]
          /\ processing' = FALSE /\ UNCHANGED running
      BY <1>3, <2>2 DEF ProcessNext, WakeLater
    <3>2. S \subseteq pending /\ pending \subseteq Jobs
      BY DEF TypeOK, pending
    <3>3. pending' = pending \ S /\ inFlight' = inFlight \cup (S \ Unhandled)
      BY <3>1, <3>2 DEF pending, inFlight
    <3>4. TypeOK'
      <4>1. status' \in [Jobs -> Statuses]
        BY <3>1 DEF TypeOK, Statuses
      <4>2. attempts' \in [Jobs -> 0 .. RetryAttempts + 1]
        BY <3>1, <3>2 DEF TypeOK, AttemptsLeft, pending
      <4>3. wake' \in BOOLEAN
        BY <3>1 DEF TypeOK
      <4> QED
        BY <3>1, <3>3, <4>1, <4>2, <4>3 DEF TypeOK
    <3>5. AttemptsLeft'
      BY <3>1, <3>2 DEF TypeOK, AttemptsLeft, pending
    <3>6. NoLostWakeup'
      BY <3>1, <3>3 DEF NoLostWakeup
    <3>7. QueueBounded'
      BY <3>1, <3>2, <3>3, BoundKept DEF Takes
    <3>8. DeadAfterAllRetries'
      BY <3>1, <3>2 DEF TypeOK, DeadAfterAllRetries, pending
    <3> QED
      BY <3>4, <3>5, <3>6, <3>7, <3>8
  <2> QED
    BY <2>1, <2>2 DEF TypeOK
<1>4. ASSUME NEW j \in Jobs, Completes(j) \/ Fails(j)
      PROVE  IInv'
  <2>1. /\ status[j] = "running" /\ processing' = (processing \/ running)
        /\ UNCHANGED <<due, attempts, running, wake>>
    BY <1>4 DEF Completes, Fails, Scheduled, inFlight
  <2>2. \/ status' = [status EXCEPT ![j] = "completed"]
        \/ attempts[j] <= RetryAttempts /\ status' = [status EXCEPT ![j] = "queued"]
        \/ ~(attempts[j] <= RetryAttempts) /\ status' = [status EXCEPT ![j] = "dead"]
    BY <1>4 DEF Completes, Fails, Retries
  <2>3. /\ inFlight' = inFlight \ {j} /\ pending \subseteq pending'
        /\ pending' \cup inFlight' \subseteq pending \cup inFlight
    BY <2>1, <2>2 DEF TypeOK, pending, inFlight
  <2>4. TypeOK'
    BY <2>1, <2>2, <2>3 DEF TypeOK, Statuses
  <2>5. AttemptsLeft'
    BY <2>1, <2>2 DEF TypeOK, AttemptsLeft
  <2>6. NoLostWakeup'
    BY <2>1 DEF TypeOK, NoLostWakeup
  <2>7. QueueBounded'
    <3>1. Cardinality(inFlight') <= Cardinality(inFlight) /\ Cardinality(inFlight') \in Nat
      <4>1. inFlight' \in SUBSET inFlight
        BY <2>3
      <4> QED
        BY <4>1, PartsFinite, FS_Subset, FS_CardinalityType
    <3>2. Cardinality(inFlight') <= Concurrency
      BY <3>1, PartsFinite DEF QueueBounded
    <3> QED
      BY <2>3, <3>2, BoundKept
  <2>8. DeadAfterAllRetries'
    BY <2>1, <2>2 DEF TypeOK, DeadAfterAllRetries
  <2> QED
    BY <2>4, <2>5, <2>6, <2>7, <2>8
<1>5. ASSUME NEW j \in Jobs, RunAtPasses(j)
      PROVE  IInv'
  <2>1. /\ due' = due \cup {j} /\ j \in pending
        /\ UNCHANGED <<status, attempts, running, processing, wake>>
    BY <1>5 DEF RunAtPasses
  <2>2. pending' = pending /\ inFlight' = inFlight
    BY <2>1 DEF pending, inFlight
  <2> QED
    BY <2>1, <2>2 DEF TypeOK, AttemptsLeft, NoLostWakeup, QueueBounded, DeadAfterAllRetries
<1>6. ASSUME Start \/ Stop \/ WakeFires \/ UNCHANGED vars
      PROVE  IInv'
  <2>1. /\ UNCHANGED <<status, due, attempts>>
        /\ running' \in BOOLEAN /\ processing' \in BOOLEAN /\ wake' \in BOOLEAN
        /\ \/ processing' = TRUE \/ running' = FALSE
           \/ UNCHANGED <<running, processing, wake>>
    BY <1>6 DEF Start, Stop, WakeFires, Scheduled, vars, TypeOK
  <2>2. pending' = pending /\ inFlight' = inFlight
    BY <2>1 DEF pending, inFlight
  <2> QED
    BY <2>1, <2>2 DEF TypeOK, AttemptsLeft, NoLostWakeup, QueueBounded, DeadAfterAllRetries
<1> QED
  BY <1>1, <1>2, <1>3, <1>4, <1>5, <1>6 DEF Next

(* The inductive invariant holds in every reachable state of the queue.    *)
THEOREM IInvHolds == Spec => []IInv
<1> QED
  BY Initial, Inductive, PTL DEF Spec

(* Jobs keep a known status, and no job is run more often than its first   *)
(* attempt and its retries.                                                *)
THEOREM TypeCorrect == Spec => []TypeOK
<1>1. IInv => TypeOK
  BY DEF IInv
<1> QED
  BY <1>1, IInvHolds, PTL

(* While jobs wait in a running queue, a callback, a timer or the end of a *)
(* job is going to call schedule.                                          *)
THEOREM NoWakeupLost == Spec => []NoLostWakeup
<1>1. IInv => NoLostWakeup
  BY DEF IInv
<1> QED
  BY <1>1, IInvHolds, PTL

(* The retries that pass the size limit stay within maxQueueSize and       *)
(* concurrency together.                                                   *)
THEOREM QueueStaysBounded == Spec => []QueueBounded
<1>1. IInv => QueueBounded
  BY DEF IInv
<1> QED
  BY <1>1, IInvHolds, PTL

(* A dead job had all of its attempts, unless nobody handles its type.     *)
THEOREM DeadOnlyAfterRetries == Spec => []DeadAfterAllRetries
<1>1. IInv => DeadAfterAllRetries
  BY DEF IInv
<1> QED
  BY <1>1, IInvHolds, PTL
=============================================================================
