--------------------------- MODULE DataQualityGuard ---------------------------
(***************************************************************************)
(* The data-quality guard of one pair: assessments of its market data, the *)
(* breaker that a bad one trips, and the streak of healthy ones that       *)
(* resets it before its time.  An assessment notes when it began and the   *)
(* breaker it found, waits for the data, and then does the rest at once;   *)
(* callers do not know of each other, so that two may overlap.             *)
(***************************************************************************)
EXTENDS Integers

CONSTANTS Assessors,        \* callers of generateSignal for the pair
          Ttl,              \* dataQualityTtlMs: an assessment is used that long
          Window,           \* autoReenableWindowMs
          BreakerLife,      \* durationMs of the breaker
          MinHealthyCount,  \* autoReenableMinHealthyCount
          MaxWait           \* bound: how long an assessment waits for its data

ASSUME GuardAssumption ==
  /\ Ttl \in Nat \ {0} /\ Window \in Nat /\ BreakerLife \in Nat \ {0}
  /\ MinHealthyCount \in Nat \ {0} /\ MaxWait \in Nat

(* What an assessment finds: weak is degraded, or critical with a score    *)
(* that trips nothing.                                                     *)
Findings == {"healthy", "weak", "bad"}
Quiet    == [stage |-> "quiet"]

VARIABLES
  feed,        \* what an assessment would find now
  assessing,   \* per caller, its assessment under way
  report,      \* recommendation of the latest report, or none
  reportAge,   \* time since its assessedAt, up to Ttl
  left,        \* time until the breaker expires, 0 if there is none
  streak,      \* healthyCount, up to MinHealthyCount
  since,       \* time since healthySince
  resetEarly   \* history: a breaker was reset before its time

guardVars == <<feed, assessing, report, reportAge, left, streak, since, resetEarly>>

GuardInit ==
  /\ feed \in Findings /\ assessing = [a \in Assessors |-> Quiet]
  /\ report = "none" /\ reportAge = 0 /\ left = 0 /\ streak = 0 /\ since = 0
  /\ resetEarly = FALSE

-----------------------------------------------------------------------------
UpTo(n, max) == IF n < max THEN n ELSE max

Underway == {a \in Assessors : assessing[a] # Quiet}

FeedChanges(f) ==
  /\ f # feed /\ feed' = f
  /\ UNCHANGED <<assessing, report, reportAge, left, streak, since, resetEarly>>

TimePassesBy ==
  /\ \A a \in Underway : assessing[a].age < MaxWait
  /\ assessing' = [a \in Assessors |-> IF a \in Underway THEN [assessing[a] EXCEPT !.age = @ + 1] ELSE Quiet]
  /\ reportAge' = UpTo(reportAge + 1, Ttl)
  /\ left' = IF left = 0 THEN 0 ELSE left - 1
  /\ since' = UpTo(since + 1, Window + MaxWait + 1)
  /\ UNCHANGED <<feed, report, streak, resetEarly>>

(* Mutant: a pair that is blocked is not assessed again.                   *)
RefreshUnlessBlocked == report = "none" \/ (reportAge = Ttl /\ report # "block")

NeedsRefresh == report = "none" \/ reportAge = Ttl

AssessmentBegins(a) ==
  /\ a \notin Underway /\ NeedsRefresh
  /\ assessing' = [assessing EXCEPT ![a] = [stage |-> "fetching", age |-> 0, breaker |-> left > 0]]
  /\ UNCHANGED <<feed, report, reportAge, left, streak, since, resetEarly>>

DataArrive(a) ==
  /\ assessing[a].stage = "fetching"
  /\ assessing' = [assessing EXCEPT ![a] = [stage |-> "fetched", age |-> @.age, breaker |-> @.breaker, found |-> feed]]
  /\ UNCHANGED <<feed, report, reportAge, left, streak, since, resetEarly>>

-----------------------------------------------------------------------------
LeftAfter(a) == IF assessing[a].found = "bad" THEN BreakerLife ELSE left

(* Mutant: only the breaker found at the beginning counts.                 *)
BreakerAsFound(a) == assessing[a].breaker

(* breakerAfter: the breaker as it is now, or else as it was found.        *)
BreakerAfter(a) == LeftAfter(a) > 0 \/ assessing[a].breaker

StreakAfter(a) == IF assessing[a].found = "healthy" THEN UpTo(streak + 1, MinHealthyCount) ELSE 0

SinceAfter(a) == IF StreakAfter(a) > 0 /\ streak = 0 THEN assessing[a].age ELSE since

(* assessedAt - healthySince is measured from beginning to beginning.      *)
Reenables(a) ==
  /\ BreakerAfter(a) /\ assessing[a].found = "healthy"
  /\ StreakAfter(a) >= MinHealthyCount
  /\ SinceAfter(a) - assessing[a].age <= Window

Recommendations(a) ==
  IF assessing[a].found = "bad" \/ (BreakerAfter(a) /\ ~Reenables(a)) THEN {"block"}
  ELSE IF assessing[a].found = "weak" THEN {"caution", "block"}
  ELSE {"proceed"}

AssessmentEnds(a) ==
  /\ assessing[a].stage = "fetched"
  /\ assessing' = [assessing EXCEPT ![a] = Quiet]
  /\ report' \in Recommendations(a)
  /\ reportAge' = UpTo(assessing[a].age, Ttl)
  /\ left' = IF Reenables(a) THEN 0 ELSE LeftAfter(a)
  /\ streak' = StreakAfter(a) /\ since' = SinceAfter(a)
  /\ resetEarly' = (resetEarly \/ (Reenables(a) /\ left > 0))
  /\ UNCHANGED feed

GuardNext ==
  \/ TimePassesBy
  \/ \E f \in Findings : FeedChanges(f)
  \/ \E a \in Assessors : AssessmentBegins(a) \/ DataArrive(a) \/ AssessmentEnds(a)

GuardSpec == GuardInit /\ [][GuardNext]_guardVars

(* A pair whose signals are asked for all the time: an assessment that is  *)
(* due is begun at once.                                                   *)
PromptNext == GuardNext /\ (TimePassesBy => ~NeedsRefresh \/ Underway # {})

PromptSpec ==
  /\ GuardInit /\ [][PromptNext]_guardVars /\ WF_guardVars(TimePassesBy)
  /\ \A a \in Assessors : /\ WF_guardVars(AssessmentBegins(a)) /\ WF_guardVars(DataArrive(a))
                          /\ WF_guardVars(AssessmentEnds(a))

-----------------------------------------------------------------------------
GuardTypeOK ==
  /\ feed \in Findings /\ report \in {"none", "block", "caution", "proceed"}
  /\ assessing \in [Assessors -> {Quiet}
       \cup [stage : {"fetching"}, age : 0 .. MaxWait, breaker : BOOLEAN]
       \cup [stage : {"fetched"}, age : 0 .. MaxWait, breaker : BOOLEAN, found : Findings]]
  /\ reportAge \in 0 .. Ttl /\ left \in 0 .. BreakerLife /\ streak \in 0 .. MinHealthyCount
  /\ since \in 0 .. Window + MaxWait + 1
  /\ resetEarly \in BOOLEAN

(* While the breaker of a pair is active its latest report blocks it,      *)
(* whichever of the overlapping assessments has ended last.                *)
BreakerIsReported == left > 0 => report = "block"

(* A pair whose data stay healthy is traded again, although an assessment  *)
(* may report a breaker that has gone meanwhile.                           *)
HealthyPairReopens == (<>[](feed = "healthy")) => <>[](report # "block")

(* docs/ENVIRONMENT.md:69-72 says that consecutive healthy assessments, 2  *)
(* of them within 240000 ms, clear the breaker of a pair: one whose data   *)
(* are healthy from the moment the breaker trips, and that is assessed as  *)
(* often as the engine ever does, is cleared before its time.              *)
HealthyClearsBreaker == (left = BreakerLife /\ [](feed = "healthy")) ~> resetEarly
=============================================================================
