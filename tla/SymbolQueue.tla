----------------------------- MODULE SymbolQueue -----------------------------
(***************************************************************************)
(* The symbols of one broker that wait for the realtime signal runner.     *)
(* ingestSymbols adds those whose market data changed, a debounced flush   *)
(* takes a batch of them from a cursor on, puts the rest back and works    *)
(* through the batch; symbols that arrive meanwhile come after the rest,   *)
(* and the cursor counts in that new order.                                *)
(***************************************************************************)
EXTENDS Integers, Sequences

CONSTANTS Symbols,
          MaxSymbolsPerFlush,   \* maxSymbolsPerFlush
          MaxPending            \* maxPendingSymbolsPerBroker

ASSUME QueueAssumption == MaxSymbolsPerFlush \in Nat \ {0} /\ MaxPending \in Nat \ {0}

VARIABLES
  waiting,      \* pendingByBroker: a set in the order of insertion
  cursor,       \* cursorByBroker
  flushTimer,   \* flushTimer is set
  flushQueued,  \* flushQueued
  flushing,     \* flushInProgress
  batch         \* what the flush still has to do

queueVars == <<waiting, cursor, flushTimer, flushQueued, flushing, batch>>

QueueInit == /\ waiting = <<>> /\ cursor = 0 /\ batch = <<>>
             /\ flushTimer = FALSE /\ flushQueued = FALSE /\ flushing = FALSE

In(s, q) == \E i \in 1 .. Len(q) : q[i] = s

(* scheduleFlush: a flush under way looks again at its end.                *)
ScheduleFlush == /\ flushTimer' = (flushTimer \/ ~flushing)
                 /\ flushQueued' = (flushQueued \/ flushing)

(* Mutant: the limit is tested after the insertion.                        *)
FitsOnceMore(s) == Len(waiting) <= MaxPending

Fits(s) == Len(waiting) < MaxPending

IngestSymbols(s) ==
  /\ waiting' = IF In(s, waiting) \/ ~Fits(s) THEN waiting ELSE Append(waiting, s)
  /\ ScheduleFlush
  /\ UNCHANGED <<cursor, flushing, batch>>

(* The symbols from the cursor on, around the end.                         *)
FromCursor == [i \in 1 .. Len(waiting) |-> waiting[((cursor + i - 1) % Len(waiting)) + 1]]

BatchSize == IF Len(waiting) < MaxSymbolsPerFlush THEN Len(waiting) ELSE MaxSymbolsPerFlush

FlushPending ==
  /\ flushTimer /\ ~flushing
  /\ flushTimer' = FALSE /\ flushing' = TRUE
  /\ batch'   = SubSeq(FromCursor, 1, BatchSize)
  /\ waiting' = SubSeq(FromCursor, BatchSize + 1, Len(waiting))
  /\ cursor'  = IF waiting = <<>> THEN cursor ELSE (cursor + BatchSize) % Len(waiting)
  /\ UNCHANGED flushQueued

(* The call for the next symbol of the batch returns.                      *)
SymbolDone ==
  /\ batch # <<>> /\ batch' = Tail(batch)
  /\ UNCHANGED <<waiting, cursor, flushTimer, flushQueued, flushing>>

(* Mutant: only what arrived during the flush is looked at again.          *)
AgainIfQueued == flushQueued

NeedsAnotherPass == waiting # <<>> \/ flushQueued

FlushEnds ==
  /\ flushing /\ batch = <<>>
  /\ flushing' = FALSE /\ flushQueued' = FALSE
  /\ flushTimer' = (flushTimer \/ NeedsAnotherPass)
  /\ UNCHANGED <<waiting, cursor, batch>>

QueueNext == FlushPending \/ SymbolDone \/ FlushEnds \/ \E s \in Symbols : IngestSymbols(s)

QueueSpec == QueueInit /\ [][QueueNext]_queueVars

(* The timer fires and the calls return.                                   *)
QueueFairness == WF_queueVars(FlushPending) /\ WF_queueVars(SymbolDone) /\ WF_queueVars(FlushEnds)

-----------------------------------------------------------------------------
NoRepetition(q) == \A i, j \in 1 .. Len(q) : q[i] = q[j] => i = j

QueueTypeOK ==
  /\ waiting \in Seq(Symbols) /\ batch \in Seq(Symbols) /\ cursor \in Nat
  /\ flushTimer \in BOOLEAN /\ flushQueued \in BOOLEAN /\ flushing \in BOOLEAN

(* However often symbols arrive while a flush puts its rest back, each     *)
(* waits once, within the limit.                                           *)
WaitingBounded == NoRepetition(waiting) /\ Len(waiting) <= MaxPending

(* A symbol that waits is going to be looked at: the timer of a flush is   *)
(* set, or a flush is under way that looks again when it ends.             *)
FlushNotForgotten == waiting # <<>> => flushTimer \/ flushing

(* After a burst of symbols every one that waits is taken up: when no more *)
(* arrive the flushes that follow each other empty the queue.  While       *)
(* symbols keep arriving one can be passed by for ever, for the cursor     *)
(* counts in an order that has turned already.                             *)
BurstIsWorkedOff ==
  (<>[][~\E s \in Symbols : IngestSymbols(s)]_queueVars) => <>[](waiting = <<>>)
=============================================================================
