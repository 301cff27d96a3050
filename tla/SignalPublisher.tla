--------------------------- MODULE SignalPublisher ---------------------------
(***************************************************************************)
(* maybeGenerateSignal of the realtime signal runner: what is generated    *)
(* for a symbol, and what of it is sent to the clients and to the trade    *)
(* manager.  The flush of the waiting symbols and the passes that          *)
(* revalidate the published ones call it, each for one symbol after the    *)
(* other; a pass starts at every interval, whether or not the last one has *)
(* ended, so that any of them may be in the middle of the same symbol.  A  *)
(* call awaits the engine and then the execution gates; it compares its    *)
(* signal with the published one between the two waits and remembers it    *)
(* after them.                                                             *)
(***************************************************************************)
EXTENDS Integers

CONSTANTS Pairs,
          Scores, Entries,  \* confluence scores and entry prices of signals
          MaxBar,           \* bound: bars that arrive after the first
          Revalidations,    \* bound: revalidation passes under way at once
          BroadcastMayFail  \* broadcast may throw

ASSUME PublisherAssumption ==
  MaxBar \in Nat /\ BroadcastMayFail \in BOOLEAN /\ "flush" \notin Revalidations

Callers  == {"flush"} \cup Revalidations
LiveKeys == Pairs \X {"signal", "candidate"}   \* keys of lastPublishedMeta
WaitSignal == [state |-> "WAIT"]   \* never sent, so that its score is never compared
Signals  == {WaitSignal} \cup [state : {"ENTER"}, score : Scores, price : Entries]
NoSignal == [state |-> "none"]
NoCall   == [stage |-> "idle"]

VARIABLES
  latestBar,     \* time of the latest bar
  recent,        \* symbols whose lastGeneratedAt is within minIntervalMs
  call,          \* per caller, where its maybeGenerateSignal waits
  keys,          \* per pass, what it still has to do
  older,         \* per pass, those that were under way when it started
  published,     \* lastFingerprint and lastPublishedMeta
  publishedBar,  \* lastPublishedBarTime
  candidates,    \* symbols with a published candidate
  barsSent,      \* history: bars with a broadcast that was no update
  sentTwice,     \* history: bars with two such broadcasts
  overlapped     \* history: symbols on which two calls met

sentVars      == <<published, publishedBar, barsSent, sentTwice>>
publisherVars == <<latestBar, sentVars, recent, call, keys, older, candidates, overlapped>>

PublisherInit ==
  /\ latestBar = [s \in Pairs |-> 0]
  /\ recent = {} /\ call = [c \in Callers |-> NoCall] /\ candidates = {}
  /\ keys = [w \in Revalidations |-> {}] /\ older = [w \in Revalidations |-> {}]
  /\ published = [s \in Pairs |-> NoSignal] /\ publishedBar = [s \in Pairs |-> -1]
  /\ barsSent = {} /\ sentTwice = {} /\ overlapped = {}

-----------------------------------------------------------------------------
(* Bars arrive, and minIntervalMs passes.                                  *)
BarArrives(s) ==
  /\ latestBar[s] < MaxBar
  /\ latestBar' = [latestBar EXCEPT ![s] = @ + 1]
  /\ UNCHANGED <<sentVars, recent, call, keys, older, candidates, overlapped>>

MinIntervalPasses(s) ==
  /\ s \in recent /\ recent' = recent \ {s}
  /\ UNCHANGED <<latestBar, sentVars, call, keys, older, candidates, overlapped>>

-----------------------------------------------------------------------------
Meets(s) == \E c \in Callers : call[c] # NoCall /\ call[c].symbol = s

(* A call goes as far as its first wait, or returns for want of a quote,   *)
(* bars or a snapshot.                                                     *)
Begin(c, s) ==
  \/ /\ call' = [call EXCEPT ![c] = [stage |-> "generating", symbol |-> s, bar |-> latestBar[s]]]
     /\ overlapped' = overlapped \cup {t \in {s} : Meets(t)}
     /\ UNCHANGED recent
  \/ /\ recent' \in {recent, recent \cup {s}}
     /\ UNCHANGED <<call, overlapped>>

FlushCalls(s) ==
  /\ call["flush"] = NoCall /\ s \notin recent
  /\ Begin("flush", s)
  /\ UNCHANGED <<latestBar, sentVars, keys, older, candidates>>

UnderWay == {w \in Revalidations : keys[w] # {} \/ call[w] # NoCall}

(* The interval starts a pass.  A symbol with a published signal and a     *)
(* published candidate has two keys.                                       *)
RevalidatePublishedSignals(w) ==
  LET live == {s \in Pairs : published[s] # NoSignal} \X {"signal"} \cup candidates \X {"candidate"}
  IN /\ w \notin UnderWay /\ live # {}
     /\ keys' = [keys EXCEPT ![w] = live]
     /\ older' = [v \in Revalidations |-> IF v = w THEN UnderWay ELSE older[v] \ {w}]
  /\ UNCHANGED <<latestBar, sentVars, recent, call, candidates, overlapped>>

(* force: the minimal interval does not hold up the revalidation.  What is *)
(* noted of a key is the time at which the pass started, so that the older *)
(* passes leave the key out, and the younger ones do not.                  *)
LoopCalls(w, k) ==
  /\ k \in keys[w] /\ call[w] = NoCall
  /\ keys' = [v \in Revalidations |-> IF v = w \/ v \in older[w] THEN keys[v] \ {k} ELSE keys[v]]
  /\ Begin(w, k[1])
  /\ UNCHANGED <<latestBar, sentVars, older, candidates>>

-----------------------------------------------------------------------------
(* isLifecycleUpdate: published before, with another state or score.       *)
LifecycleUpdate(s, g) ==
  published[s] # NoSignal /\ (g.state = published[s].state => g.score # published[s].score)

Publishable(s, g) == \/ g.state = "ENTER"
                     \/ LifecycleUpdate(s, g) /\ published[s].state = "ENTER"

(* Mutant: the bar of the last broadcast is not compared.                  *)
NewsOnAnyBar(s, g, bar) == published[s] # g

(* At most once per bar but for updates, and never the same twice.         *)
News(s, g, bar) == /\ LifecycleUpdate(s, g) \/ publishedBar[s] # bar
                   /\ published[s] # g

Returns(c) == call' = [call EXCEPT ![c] = NoCall]

(* The engine answers g, which goes on to the execution gates.             *)
GoesToGates(c, g) ==
  /\ call[c].stage = "generating"
  /\ LET s == call[c].symbol
     IN /\ Publishable(s, g) /\ News(s, g, call[c].bar)
        /\ call' = [call EXCEPT ![c] = [stage |-> "gated", symbol |-> s, bar |-> call[c].bar,
                                        signal |-> g, update |-> LifecycleUpdate(s, g)]]
  /\ UNCHANGED <<latestBar, sentVars, recent, keys, older, candidates, overlapped>>

(* There is none, or it is weak, filtered or no news: at most a candidate  *)
(* is sent.                                                                *)
Filtered(c) ==
  /\ call[c].stage = "generating" /\ Returns(c)
  /\ LET s == call[c].symbol IN
       /\ recent' \in {recent, recent \cup {s}}
       /\ candidates' \in {candidates, candidates \cup {s}}
  /\ UNCHANGED <<latestBar, sentVars, keys, older, overlapped>>

(* What is not executable is not sent.                                     *)
NotExecutable(c) ==
  /\ call[c].stage = "gated" /\ Returns(c)
  /\ recent' = recent \cup {call[c].symbol}
  /\ UNCHANGED <<latestBar, sentVars, keys, older, candidates, overlapped>>

(* It is remembered as published before the broadcast, which may fail.     *)
Publish(c, ok) ==
  /\ call[c].stage = "gated" /\ call[c].signal.state = "ENTER" /\ Returns(c)
  /\ ok \/ BroadcastMayFail
  /\ LET s == call[c].symbol
         b == {bar \in {<<s, call[c].bar>>} : ok /\ ~call[c].update}
     IN /\ published' = [published EXCEPT ![s] = call[c].signal]
        /\ publishedBar' = [publishedBar EXCEPT ![s] = call[c].bar]
        /\ sentTwice' = sentTwice \cup (b \cap barsSent) /\ barsSent' = barsSent \cup b
        /\ recent' = recent \cup {s}
  /\ UNCHANGED <<latestBar, keys, older, candidates, overlapped>>

PublisherNext ==
  \/ \E s \in Pairs : BarArrives(s) \/ MinIntervalPasses(s) \/ FlushCalls(s)
  \/ \E w \in Revalidations : RevalidatePublishedSignals(w) \/ \E k \in LiveKeys : LoopCalls(w, k)
  \/ \E c \in Callers : \/ Filtered(c) \/ NotExecutable(c)
                        \/ \E g \in Signals : GoesToGates(c, g)
                        \/ \E ok \in BOOLEAN : Publish(c, ok)

PublisherSpec == PublisherInit /\ [][PublisherNext]_publisherVars

-----------------------------------------------------------------------------
Calls == {NoCall}
  \cup [stage : {"generating"}, symbol : Pairs, bar : 0 .. MaxBar]
  \cup [stage : {"gated"}, symbol : Pairs, bar : 0 .. MaxBar, signal : Signals, update : BOOLEAN]

PublisherTypeOK ==
  /\ latestBar \in [Pairs -> 0 .. MaxBar]
  /\ recent \subseteq Pairs /\ call \in [Callers -> Calls]
  /\ keys \in [Revalidations -> SUBSET LiveKeys] /\ older \in [Revalidations -> SUBSET Revalidations]
  /\ candidates \subseteq Pairs
  /\ published \in [Pairs -> Signals \cup {NoSignal}]
  /\ publishedBar \in [Pairs -> -1 .. MaxBar]
  /\ barsSent \subseteq Pairs \X (0 .. MaxBar) /\ sentTwice \subseteq barsSent
  /\ overlapped \subseteq Pairs

(* As long as no two calls, of the flush or of revalidation passes, have   *)
(* met on a symbol, its signal is sent at most once per bar, updates aside.*)
OncePerBar == \A b \in sentTwice : b[1] \in overlapped
=============================================================================
