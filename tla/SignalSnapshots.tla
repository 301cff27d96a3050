---------------------------- MODULE SignalSnapshots ----------------------------
(***************************************************************************)
(* The snapshots of a broker's symbols: the quotes of the EA refresh them, *)
(* and the signal factory keeps in them the signal it computed last and    *)
(* answers with it while the snapshot is recent.  An analysis takes time,  *)
(* in which quotes arrive and a snapshot may be evicted.                   *)
(***************************************************************************)
EXTENDS Integers, FiniteSets

CONSTANTS Tracked,        \* symbols
          Quotes,         \* distinguishable quotes
          Requesters,     \* callers of generateSignal
          MaxSnapshots,   \* maxSnapshots
          FreshFor,       \* 2500 ms, in steps of the clock
          NoQuote

ASSUME SnapshotAssumption == MaxSnapshots \in Nat \ {0} /\ FreshFor \in Nat \ {0} /\ NoQuote \notin Quotes

NoSnapshot  == [kept |-> FALSE]
EmptySignal == [valid |-> FALSE, age |-> FreshFor]
NotAsking   == [busy |-> FALSE]

VARIABLES
  snapshots,  \* per symbol: quote, age since updatedAt, signal with its own age
  lastQuote,  \* per symbol, the quote the EA has sent last
  analyses,   \* per caller, the symbol it analyses and the quote it saw
  servedAge   \* per caller, the age of the signal it got from the snapshot

snapshotVars == <<snapshots, lastQuote, analyses, servedAge>>

SnapshotsInit ==
  /\ snapshots = [s \in Tracked |-> NoSnapshot] /\ lastQuote = [s \in Tracked |-> NoQuote]
  /\ analyses  = [r \in Requesters |-> NotAsking] /\ servedAge = [r \in Requesters |-> 0]

-----------------------------------------------------------------------------
Kept   == {s \in Tracked : snapshots[s] # NoSnapshot}
Older(n) == IF n < FreshFor THEN n + 1 ELSE FreshFor

(* The quote and the signal that createSnapshot takes over.                *)
QuoteOf(s)  == IF s \in Kept THEN snapshots[s].quote ELSE NoQuote
SignalOf(s) == IF s \in Kept THEN snapshots[s].signal ELSE EmptySignal

Oldest(S) == {s \in S : \A t \in S : snapshots[t].age <= snapshots[s].age}

(* createSnapshot stores the snapshot under its key; one too many costs    *)
(* the oldest of the others its place.                                     *)
CreateSnapshot(s, quote, signal) ==
  LET Stored == [snapshots EXCEPT ![s] = [kept |-> TRUE, quote |-> quote, age |-> 0, signal |-> signal]]
  IN IF Cardinality(Kept \cup {s}) <= MaxSnapshots
     THEN snapshots' = Stored
     ELSE \E old \in Oldest(Kept \ {s}) : snapshots' = [Stored EXCEPT ![old] = NoSnapshot]

ClockTicks ==
  /\ snapshots' = [s \in Tracked |->
       IF s \in Kept THEN [snapshots[s] EXCEPT !.age = Older(@), !.signal.age = Older(@)] ELSE NoSnapshot]
  /\ UNCHANGED <<lastQuote, analyses, servedAge>>

(* updateQuote, for every quote the EA sends.                              *)
UpdateQuote(s, q) ==
  /\ lastQuote' = [lastQuote EXCEPT ![s] = q]
  /\ CreateSnapshot(s, q, SignalOf(s))
  /\ UNCHANGED <<analyses, servedAge>>

AnswersFromSnapshot(s) == s \in Kept /\ snapshots[s].signal.valid /\ snapshots[s].age < FreshFor

CachedAnswer(r, s) ==
  /\ analyses[r] = NotAsking /\ AnswersFromSnapshot(s)
  /\ servedAge' = [servedAge EXCEPT ![r] = snapshots[s].signal.age]
  /\ UNCHANGED <<snapshots, lastQuote, analyses>>

GenerateSignal(r, s) ==
  /\ analyses[r] = NotAsking /\ ~AnswersFromSnapshot(s)
  /\ IF s \in Kept THEN UNCHANGED snapshots ELSE CreateSnapshot(s, NoQuote, EmptySignal)
  /\ analyses' = [analyses EXCEPT ![r] = [busy |-> TRUE, symbol |-> s, seen |-> QuoteOf(s)]]
  /\ UNCHANGED <<lastQuote, servedAge>>

(* The orchestration, its quality check or the layers failed: the snapshot *)
(* keeps the signal it has.                                                *)
SignalRejected(r) ==
  /\ analyses[r] # NotAsking /\ analyses' = [analyses EXCEPT ![r] = NotAsking]
  /\ UNCHANGED <<snapshots, lastQuote, servedAge>>

(* Mutant: the update is merged with the snapshot of the beginning.        *)
MergedWithSeen(r) == analyses[r].seen

MergedQuote(r) == QuoteOf(analyses[r].symbol)

(* updateSnapshot with the signal, tradeable or not.                       *)
SignalGenerated(r, valid) ==
  /\ analyses[r] # NotAsking /\ analyses' = [analyses EXCEPT ![r] = NotAsking]
  /\ CreateSnapshot(analyses[r].symbol, MergedQuote(r), [valid |-> valid, age |-> 0])
  /\ UNCHANGED <<lastQuote, servedAge>>

SnapshotsNext ==
  \/ ClockTicks
  \/ \E s \in Tracked, q \in Quotes : UpdateQuote(s, q)
  \/ \E r \in Requesters, s \in Tracked : CachedAnswer(r, s) \/ GenerateSignal(r, s)
  \/ \E r \in Requesters : SignalRejected(r) \/ \E valid \in BOOLEAN : SignalGenerated(r, valid)

SnapshotsSpec == SnapshotsInit /\ [][SnapshotsNext]_snapshotVars

-----------------------------------------------------------------------------
SnapshotsTypeOK ==
  /\ snapshots \in [Tracked -> {NoSnapshot} \cup
       [kept : {TRUE}, quote : Quotes \cup {NoQuote}, age : 0 .. FreshFor,
        signal : [valid : BOOLEAN, age : 0 .. FreshFor]]]
  /\ lastQuote \in [Tracked -> Quotes \cup {NoQuote}]
  /\ analyses \in [Requesters -> {NotAsking} \cup
       [busy : {TRUE}, symbol : Tracked, seen : Quotes \cup {NoQuote}]]
  /\ servedAge \in [Requesters -> 0 .. FreshFor]
  /\ Cardinality(Kept) <= MaxSnapshots

(* A snapshot has the latest quote of its symbol, or none since it was     *)
(* evicted: an analysis that ends late does not bring back the quote it    *)
(* began with.                                                             *)
QuoteKept == \A s \in Kept : snapshots[s].quote \in {NoQuote, lastQuote[s]}

(* signal-factory.js says of the signal it answers with from a snapshot    *)
(* that it "is fresh" (less than 2.5 s old, by the test above the comment).*)
SignalIsFresh == \A r \in Requesters : servedAge[r] < FreshFor
=============================================================================
