---------------------------- MODULE Reconciliation ----------------------------
(***************************************************************************)
(* The timers of the broker reconciliation service.  The service keeps the *)
(* handle of one timer; a timer that fires drops the handle, runs a        *)
(* reconciliation and sets the next timer when the run ends, so that a     *)
(* start or a stop during a run meets no handle.                           *)
(***************************************************************************)
EXTENDS Integers, FiniteSets

CONSTANTS Timers,    \* handles: bounds how many timers are set at a time
          NoTimer

ASSUME TimerAssumption == NoTimer \notin Timers

VARIABLES
  armed,    \* timers that are set
  handle,   \* this.timer
  underWay,  \* timers whose run is under way
  wanted    \* history: the latest of start and stop was start

reconciliationVars == <<armed, handle, underWay, wanted>>

ReconciliationInit == armed = {} /\ handle = NoTimer /\ underWay = {} /\ wanted = FALSE

Unused == Timers \ (armed \cup underWay)

(* schedule: the new timer takes the handle, whatever it held.             *)
Schedule(t) == armed' = armed \cup {t} /\ handle' = t

StartReconciliation ==
  /\ wanted' = TRUE /\ UNCHANGED underWay
  /\ IF handle # NoTimer THEN UNCHANGED <<armed, handle>> ELSE \E t \in Unused : Schedule(t)

StopReconciliation ==
  /\ wanted' = FALSE /\ UNCHANGED underWay
  /\ armed' = armed \ {handle} /\ handle' = NoTimer

(* Whichever timer fires, the handle is dropped.                           *)
TimerFires(t) ==
  /\ t \in armed /\ armed' = armed \ {t} /\ handle' = NoTimer
  /\ underWay' = underWay \cup {t} /\ UNCHANGED wanted

(* Mutant: the next timer is set after a run that succeeded only.          *)
RearmsAfterSuccess(t, ok) == IF ok THEN Schedule(t) ELSE UNCHANGED <<armed, handle>>

Rearms(t, ok) == Schedule(t)

(* The run ends, with an error or not; its timer is used again.            *)
RunEnds(t, ok) ==
  /\ t \in underWay /\ underWay' = underWay \ {t}
  /\ Rearms(t, ok) /\ UNCHANGED wanted

ReconciliationNext ==
  \/ StartReconciliation \/ StopReconciliation
  \/ \E t \in Timers : TimerFires(t) \/ \E ok \in BOOLEAN : RunEnds(t, ok)

ReconciliationSpec == ReconciliationInit /\ [][ReconciliationNext]_reconciliationVars

-----------------------------------------------------------------------------
ReconciliationTypeOK ==
  /\ armed \subseteq Timers /\ underWay \subseteq Timers /\ armed \cap underWay = {}
  /\ handle \in armed \cup {NoTimer} /\ wanted \in BOOLEAN

(* As long as the service is wanted a next reconciliation is due or one is *)
(* under way, however starts, stops and failing runs overlap.              *)
ReconciliationLives == wanted => armed \cup underWay # {}
=============================================================================
