------------------------------ MODULE JobQueue ------------------------------
(***************************************************************************)
(* The background job queue: jobs wait for their time, run a few at once,  *)
(* are retried with backoff and end as completed or dead.  The queue has   *)
(* no thread of its own: it moves on only when a setImmediate callback, a  *)
(* timer or the end of a job calls schedule, so a wake-up that nobody      *)
(* arranged would leave jobs waiting for ever.                             *)
(***************************************************************************)
EXTENDS Integers, FiniteSets

CONSTANTS Jobs,
          Unhandled,      \* jobs whose type has no registered handler
          Concurrency,    \* concurrency
          RetryAttempts,  \* maxAttempts of a job
          MaxQueueSize    \* maxQueueSize

ASSUME JobsAssumption   == IsFiniteSet(Jobs) /\ Unhandled \subseteq Jobs
ASSUME LimitsAssumption == /\ Concurrency \in Nat \ {0} /\ MaxQueueSize \in Nat \ {0}
                           /\ RetryAttempts \in Nat

VARIABLES
  status,      \* job.status, "new" before enqueue
  due,         \* queued jobs whose runAt has passed
  attempts,    \* job.attempts
  running,     \* the queue is started
  processing,  \* a setImmediate callback is pending
  wake         \* a timer of processNext is pending

vars == <<status, due, attempts, running, processing, wake>>

Statuses == {"new", "dropped", "queued", "running", "completed", "dead"}

pending  == {j \in Jobs : status[j] = "queued"}
inFlight == {j \in Jobs : status[j] = "running"}

-----------------------------------------------------------------------------
Init ==
  /\ status = [j \in Jobs |-> "new"] /\ due = {}
  /\ attempts = [j \in Jobs |-> 0]
  /\ running = FALSE /\ processing = FALSE /\ wake = FALSE

(* schedule: at most one callback, and none while stopped.                 *)
Scheduled(on) == processing' = (processing \/ on)

(* Mutant: the new job is counted after the test.                          *)
RoomOnceMore == Cardinality(pending) <= MaxQueueSize

Room == Cardinality(pending) < MaxQueueSize

Enqueue(j) ==
  /\ status[j] = "new" /\ Room
  /\ status' = [status EXCEPT ![j] = "queued"]
  /\ due' \in {due, due \cup {j}}
  /\ Scheduled(running)
  /\ UNCHANGED <<attempts, running, wake>>

Overflow(j) ==
  /\ status[j] = "new" /\ ~Room
  /\ status' = [status EXCEPT ![j] = "dropped"]
  /\ UNCHANGED <<due, attempts, running, processing, wake>>

RunAtPasses(j) ==
  /\ j \in pending \ due
  /\ due' = due \cup {j}
  /\ UNCHANGED <<status, attempts, running, processing, wake>>

Start ==
  /\ ~running /\ running' = TRUE
  /\ Scheduled(TRUE)
  /\ UNCHANGED <<status, due, attempts, wake>>

Stop ==
  /\ running /\ running' = FALSE
  /\ UNCHANGED <<status, due, attempts, processing, wake>>

-----------------------------------------------------------------------------
(* The loop of processNext takes due jobs until the slots are full or no   *)
(* job is due; a job without a handler takes no slot.                      *)
Takes(S) ==
  LET busy == Cardinality(inFlight \cup (S \ Unhandled)) IN
  /\ S # {} => Cardinality(inFlight) < Concurrency
  /\ busy <= Concurrency
  /\ S = due \/ busy = Concurrency

(* Mutant: a timer is set only when a job was started.                     *)
WakeIfStarted(S) == wake' = (wake \/ (S # {} /\ pending \ S # {}))

(* Jobs that stay behind are looked at again at the latest of 50 ms and    *)
(* the next runAt.                                                         *)
WakeLater(S) == wake' = (wake \/ pending \ S # {})

ProcessNext(S) ==
  /\ processing /\ processing' = FALSE
  /\ IF running
       THEN /\ Takes(S)
            /\ status' = [j \in Jobs |-> IF j \notin S THEN status[j]
                                         ELSE IF j \in Unhandled THEN "dead" ELSE "running"]
            /\ attempts' = [j \in Jobs |-> IF j \in S \ Unhandled THEN attempts[j] + 1 ELSE attempts[j]]
            /\ due' = due \ S
            /\ WakeLater(S)
       ELSE S = {} /\ UNCHANGED <<status, attempts, due, wake>>
  /\ UNCHANGED running

(* Several timers may be pending; one of them fires.                       *)
WakeFires ==
  /\ wake /\ wake' \in BOOLEAN
  /\ Scheduled(running)
  /\ UNCHANGED <<status, due, attempts, running>>

-----------------------------------------------------------------------------
Completes(j) ==
  /\ j \in inFlight
  /\ status' = [status EXCEPT ![j] = "completed"]
  /\ Scheduled(running)
  /\ UNCHANGED <<due, attempts, running, wake>>

(* Mutant: the last retry is not made.                                     *)
RetriesLess(j) == attempts[j] < RetryAttempts

(* Mutant: a job that keeps failing is retried for ever.                   *)
RetriesForever(j) == TRUE

Retries(j) == attempts[j] <= RetryAttempts

(* A failed job waits for its backoff, even if the queue is full, or goes  *)
(* to the dead letters.                                                    *)
Fails(j) ==
  /\ j \in inFlight
  /\ status' = [status EXCEPT ![j] = IF Retries(j) THEN "queued" ELSE "dead"]
  /\ Scheduled(running)
  /\ UNCHANGED <<due, attempts, running, wake>>

Next ==
  \/ Start \/ Stop \/ WakeFires
  \/ \E j \in Jobs : Enqueue(j) \/ Overflow(j) \/ RunAtPasses(j) \/ Completes(j) \/ Fails(j)
  \/ \E S \in SUBSET due : ProcessNext(S)

Spec == Init /\ [][Next]_vars

(* Callbacks and timers fire, time passes, and handlers end.               *)
Fairness ==
  /\ WF_vars(\E S \in SUBSET due : ProcessNext(S))
  /\ WF_vars(WakeFires)
  /\ \A j \in Jobs : WF_vars(RunAtPasses(j)) /\ WF_vars(Completes(j) \/ Fails(j))

FairSpec == Spec /\ Fairness

-----------------------------------------------------------------------------
TypeOK ==
  /\ status \in [Jobs -> Statuses] /\ due \subseteq pending
  /\ attempts \in [Jobs -> 0 .. RetryAttempts + 1]
  /\ running \in BOOLEAN /\ processing \in BOOLEAN /\ wake \in BOOLEAN

(* While the queue runs and jobs wait, something that is going to happen   *)
(* looks at the queue again: a callback, a timer or the end of a job.      *)
NoLostWakeup == running /\ pending # {} => processing \/ wake \/ inFlight # {}

(* No more jobs run at once than allowed, and the retries that enter the   *)
(* queue past its limit never bring it above the limit and the jobs that   *)
(* can run: waiting and running jobs share one bound.                      *)
QueueBounded ==
  /\ Cardinality(inFlight) <= Concurrency
  /\ Cardinality(pending) + Cardinality(inFlight) <= MaxQueueSize + Concurrency

(* A job with a handler is given up only after its first attempt and all   *)
(* of its retries.                                                         *)
DeadAfterAllRetries ==
  \A j \in Jobs \ Unhandled : status[j] = "dead" => attempts[j] = RetryAttempts + 1

(* If the queue is not stopped for good, every accepted job ends.          *)
JobsEnd ==
  (<>[]running) => \A j \in Jobs : (status[j] = "queued" ~> status[j] \in {"completed", "dead"})
=============================================================================
