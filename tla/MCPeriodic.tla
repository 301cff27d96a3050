------------------------------ MODULE MCPeriodic ------------------------------
(* Small instances of what timers start again and again while the last run  *)
(* may still wait: the passes over an open trade, the revalidation of       *)
(* published signals, the analyses that refresh snapshots, the cycles that  *)
(* prefetch prices, and the broker reconciliation.  They share no state; in *)
(* a behaviour one of them, in focus, takes the steps, so that a run checks *)
(* each for itself.                                                         *)
EXTENDS MCTradeProtection, SignalPublisher, SignalSnapshots, PriceFeed, Reconciliation, TLC

VARIABLE focus

PeriodicParts == {"protection", "publisher", "snapshots", "feed", "reconciliation"}

periodicVars == <<focus, vars, publisherVars, snapshotVars, feedVars,
                  reconciliationVars>>

(* A part out of focus stays as it begins.                                  *)
Turn(part, Does, v) == IF focus = part THEN Does ELSE UNCHANGED v

PeriodicInit ==
  /\ focus \in PeriodicParts
  /\ Init /\ PublisherInit /\ SnapshotsInit /\ FeedInit /\ ReconciliationInit

PeriodicNext ==
  /\ UNCHANGED focus
  /\ Turn("protection", Next, vars) /\ Turn("publisher", PublisherNext, publisherVars)
  /\ Turn("snapshots", SnapshotsNext, snapshotVars) /\ Turn("feed", FeedNext, feedVars)
  /\ Turn("reconciliation", ReconciliationNext, reconciliationVars)

PeriodicSpec == PeriodicInit /\ [][PeriodicNext]_periodicVars

(* The parts share the names of what runs twice (passes, requesters and     *)
(* cycles), of scores and quotes, and of entries, symbols and keys.         *)
AllSymmetry == Permutations(Passes) \cup Permutations(Revalidations)
               \cup Permutations(Scores) \cup Permutations(Entries)

(* Every part keeps its types.                                              *)
PeriodicTypeOK ==
  TypeOK /\ PublisherTypeOK /\ SnapshotsTypeOK /\ FeedTypeOK /\ ReconciliationTypeOK
=============================================================================
