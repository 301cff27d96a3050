---------------------------- MODULE EaManagement ----------------------------
(***************************************************************************)
(* Server-guided management of the EA's open positions.  The EA posts its  *)
(* positions; the server answers with commands and also queues them, and   *)
(* the EA fetches the queue on another timer, so that it meets a command   *)
(* twice, the second time perhaps when its position is gone.  Commands     *)
(* name no ticket.  The EA takes every "type" in the text of the answer    *)
(* for a command, those of the list of actions before the commands too,    *)
(* and looks for its "symbol" behind the type, where the server has        *)
(* written the symbol of what comes next; none stands for any symbol.      *)
(***************************************************************************)
EXTENDS Integers, Sequences, FiniteSets, SequencesExt

CONSTANTS Instruments,
          Decisions,           \* what may be decided for one position
          MaxPositions,        \* bound: positions open at once
          ManagementQueueMax,  \* managementQueueMax
          DrainLimit           \* limit of a poll

Types == {"stop", "partial", "close"}   \* modify_sl and trail; partial_close; close_position

ASSUME ManagementAssumption ==
  /\ Decisions \subseteq Seq(Types)
  /\ MaxPositions \in Nat
  /\ ManagementQueueMax \in Nat \ {0} /\ DrainLimit \in Nat \ {0}

AnySymbol == "any"
Commands  == [type : Types, symbol : Instruments]
Addressed == [type : Types, symbol : Instruments \cup {AnySymbol}]

VARIABLES
  positions,   \* symbols of the EA's positions, in the order of the terminal
  reason,      \* a reason for the kill switch holds: news, data, spread, gap
  killSwitch,  \* the router's kill switch
  queue,       \* managementQueue
  reply        \* commands of the last answer, as the EA reads them

managementVars == <<positions, reason, killSwitch, queue, reply>>

ManagementInit ==
  /\ positions = <<>> /\ queue = <<>> /\ reply = <<>>
  /\ reason = FALSE /\ killSwitch = FALSE

-----------------------------------------------------------------------------
(* Between two requests the EA opens positions by signals of the bridge,   *)
(* which do not ask for the kill switch; the broker closes them at their   *)
(* stops, and the EA by rules of its own, at any time.                     *)
OpenPosition(s) ==
  /\ reply = <<>> /\ Len(positions) < MaxPositions
  /\ positions' = Append(positions, s)
  /\ UNCHANGED <<reason, killSwitch, queue, reply>>

StopHit(i) ==
  /\ i \in DOMAIN positions /\ positions' = RemoveAt(positions, i)
  /\ UNCHANGED <<reason, killSwitch, queue, reply>>

ReasonChanges ==
  /\ reason' = ~reason
  /\ UNCHANGED <<positions, killSwitch, queue, reply>>

(* An operator sets or clears the switch.                                  *)
OperatorSetsSwitch ==
  /\ killSwitch' = ~killSwitch
  /\ UNCHANGED <<positions, reason, queue, reply>>

-----------------------------------------------------------------------------
(* Of several positions of a symbol only the last one listed is looked at  *)
(* when the kill switch adds its closes.                                   *)
LastOfSymbol(p) == {i \in DOMAIN p : \A j \in DOMAIN p : j > i => p[j] # p[i]}


Killed(p) == IF reason THEN LastOfSymbol(p) ELSE {}

(* The commands for one position, by its profit, the guards and the layers.*)
Commanded(symbol, d) == [n \in DOMAIN d |-> [type |-> d[n], symbol |-> symbol]]

BuildManagementCommands(p, plan) == FlattenSeq([i \in DOMAIN p |-> Commanded(p[i], plan[i])])

(* The oldest commands are dropped when the queue is full.                 *)
EnqueueManagementCommands(cmds) ==
  LET all == queue \o cmds IN
  queue' = IF Len(all) <= ManagementQueueMax THEN all
           ELSE SubSeq(all, Len(all) - ManagementQueueMax + 1, Len(all))

(* What ParseAndExecuteCommands reads of a list of commands, when next is  *)
(* the first symbol that follows them in the answer.                       *)
ParseCommands(cmds, next) ==
  [i \in DOMAIN cmds |-> [type |-> cmds[i].type,
                          symbol |-> IF i < Len(cmds) THEN cmds[i + 1].symbol ELSE next]]

(* The list of actions stands before the commands, one entry for each      *)
(* position.  Of its types the EA knows partial_close (and trail).         *)
ParseActions(p, plan, cmds) ==
  LET next(i) == IF i < Len(p) THEN p[i + 1] ELSE IF cmds = <<>> THEN AnySymbol ELSE cmds[1].symbol
  IN  FlattenSeq([i \in DOMAIN p |->
        IF "partial" \in ToSet(plan[i]) THEN <<[type |-> "partial", symbol |-> next(i)]>> ELSE <<>>])

Answers(read, arrives) == reply' = IF arrives THEN read ELSE <<>>

(* /agent/manage, which the EA asks to enqueue.  The live contexts that    *)
(* follow the commands begin with the symbol of a position, if there is    *)
(* one.                                                                    *)
PostPositionManagement(arrives) ==
  /\ reply = <<>>
  /\ LET p == Reverse(positions) IN
       \E plan \in [DOMAIN p -> Decisions], next \in {AnySymbol} \cup ToSet(p) :
         /\ \A i \in Killed(p) : "close" \in ToSet(plan[i])
         /\ LET cmds == BuildManagementCommands(p, plan) IN
              /\ EnqueueManagementCommands(cmds)
              /\ Answers(ParseActions(p, plan, cmds) \o ParseCommands(cmds, next), arrives)
  /\ killSwitch' = (killSwitch \/ reason)
  /\ UNCHANGED <<positions, reason>>

(* /agent/commands: what is drained is gone, whether or not it arrives.    *)
PollManagementCommands(arrives) ==
  /\ reply = <<>> /\ queue # <<>>
  /\ LET n == IF Len(queue) < DrainLimit THEN Len(queue) ELSE DrainLimit IN
       /\ Answers(ParseCommands(SubSeq(queue, 1, n), AnySymbol), arrives)
       /\ queue' = SubSeq(queue, n + 1, Len(queue))
  /\ UNCHANGED <<positions, reason, killSwitch>>

(* managementCommandTtlMs passes for the oldest command.                   *)
CommandExpires ==
  /\ queue # <<>> /\ queue' = Tail(queue)
  /\ UNCHANGED <<positions, reason, killSwitch, reply>>

-----------------------------------------------------------------------------
(* ExecuteManagementCommand acts on the last listed match.                 *)
Match(s) == {i \in DOMAIN positions : s \in {positions[i], AnySymbol}}

(* A partial close ends the position when the lots left are the smallest.  *)
CloseExecuted ==
  /\ reply # <<>> /\ Head(reply).type \in {"close", "partial"}
  /\ \E i \in Match(Head(reply).symbol) :
       /\ \A j \in Match(Head(reply).symbol) : j <= i
       /\ positions' = RemoveAt(positions, i)
  /\ reply' = Tail(reply)
  /\ UNCHANGED <<reason, killSwitch, queue>>

(* A stop is moved, a part is closed, nothing matches, or the order is     *)
(* refused.                                                                *)
CommandWithoutClose ==
  /\ reply # <<>> /\ reply' = Tail(reply)
  /\ UNCHANGED <<positions, reason, killSwitch, queue>>

ManagementNext ==
  \/ \E s \in Instruments : OpenPosition(s)
  \/ \E i \in DOMAIN positions : StopHit(i)
  \/ ReasonChanges \/ OperatorSetsSwitch \/ CommandExpires \/ CloseExecuted \/ CommandWithoutClose
  \/ \E arrives \in BOOLEAN : PostPositionManagement(arrives) \/ PollManagementCommands(arrives)

ManagementSpec == ManagementInit /\ [][ManagementNext]_managementVars

(* The EA's timer goes on and the policy of the server lets it post,       *)
(* answers arrive again and again, and not every order to close is refused.*)
ManagementFairness ==
  /\ SF_managementVars(positions # <<>> /\ PostPositionManagement(TRUE))
  /\ WF_managementVars(CommandWithoutClose)
  /\ SF_managementVars(CloseExecuted /\ Head(reply).type = "close")

-----------------------------------------------------------------------------
ManagementTypeOK ==
  /\ positions \in Seq(Instruments) /\ Len(positions) <= MaxPositions
  /\ reason \in BOOLEAN /\ killSwitch \in BOOLEAN
  /\ queue \in Seq(Commands) /\ Len(queue) <= ManagementQueueMax
  /\ reply \in Seq(Addressed)

(* While the reason for the kill switch lasts, lost answers, misread       *)
(* symbols and refused orders cannot keep the EA from becoming flat: it is *)
(* flat again and again, unless it opens new positions again and again,    *)
(* which it does without asking the switch.                                *)
Opened == Len(positions') > Len(positions)
=============================================================================
