------------------------------ MODULE MCServices ------------------------------
(* Small instances of the services around the engine of which something     *)
(* must happen eventually.  They share no state; in a behaviour one of      *)
(* them, in focus, takes the steps, so that a run checks each for itself.   *)
EXTENDS JobQueue, SymbolQueue, PriceFeed, DataQualityGuard, EaManagement

VARIABLE focus

Services == {"jobs", "symbols", "feed", "guard", "terminal"}

allVars == <<focus, vars, queueVars, feedVars, guardVars, managementVars>>

(* A service out of focus stays as it begins.                               *)
Turn(service, Step, v) == IF focus = service THEN Step ELSE UNCHANGED v

ServicesInit ==
  /\ focus \in Services
  /\ Init /\ QueueInit /\ FeedInit /\ ManagementInit
  /\ GuardInit /\ (focus # "guard" => feed = "healthy")

ServicesNext ==
  /\ UNCHANGED focus
  /\ Turn("jobs", Next, vars) /\ Turn("symbols", QueueNext, queueVars)
  /\ Turn("feed", FeedNext, feedVars) /\ Turn("guard", GuardNext, guardVars)
  /\ Turn("terminal", ManagementNext, managementVars)

(* The fairness of the guard: time passes, data arrive and every caller     *)
(* asks for signals again.  Out of focus the others have nothing enabled.   *)
Guarded(Step) == focus = "guard" /\ Step

ServicesFairness ==
  /\ Fairness /\ QueueFairness /\ FeedFairness /\ ManagementFairness
  /\ WF_guardVars(Guarded(TimePassesBy))
  /\ \A a \in Assessors : /\ WF_guardVars(Guarded(AssessmentBegins(a)))
                          /\ WF_guardVars(Guarded(DataArrive(a)))
                          /\ WF_guardVars(Guarded(AssessmentEnds(a)))

ServicesSpec == ServicesInit /\ [][ServicesNext]_allVars /\ ServicesFairness

(* Every service keeps its types.                                           *)
ServicesTypeOK == TypeOK /\ QueueTypeOK /\ FeedTypeOK /\ GuardTypeOK /\ ManagementTypeOK

(* What may be decided for a position: nothing, to close it, to close a     *)
(* part of it, and a stop or a part followed by a close.                    *)
MCDecisions == {<<>>, <<"partial">>, <<"stop", "close">>, <<"partial", "close">>}
=============================================================================
