-------------------------------- MODULE Bot --------------------------------
(***************************************************************************)
(* The whole of a running bot (server/mod.rs): webhook calls as in         *)
(* WebhookHandler, the tasks they spawn as in MessageProcessing, and       *)
(* restarts that end both.  A task <<m, kind, n>> is the n-th that was     *)
(* spawned for message m, by a text (or a location) or a reaction; it runs *)
(* next to the handler that spawned it, to handlers of later calls about   *)
(* the same message, and to other tasks.                                   *)
(***************************************************************************)
EXTENDS WebhookHandler, Sequences

CONSTANTS
  MaxIds,      \* how many message IDs a reaction has
  Plans        \* what the bot's handler may return

VARIABLES
  stage,       \* the variables of MessageProcessing, where a task is first
  item, plan, pos, blobs, chat, announced, outcome, orphans

tasks == <<stage, item, plan, pos, blobs, chat, announced, outcome, orphans>>
botVars == <<vars, tasks>>

Tasks == Messages \X {"dispatched", "reacted"} \X (1..(1 + MaxForgotten))

\* The handlers that met the fate that is the task's kind have spawned it.
Spawned == {t \in Tasks : t[3] <= fate[t[1]][t[2]]}

Processing == INSTANCE MessageProcessing
  WITH Reactions <- {t \in Tasks : t[2] = "reacted"}, pc <- stage,
       answered <- Spawned, crashed <- restarts > 0

ASSUME BotAssumption == Processing!MessageProcessingAssumption

BotInit == Init /\ Processing!Init

-----------------------------------------------------------------------------

\* A handler goes on, or the world around it; tasks are not concerned.
Handle ==
  /\ \/ \E r \in Requests, m \in Messages : Deliver(r, m)
     \/ \E r \in Requests : Step(r)
     \/ \E r \in Requests : Cancel(r)
     \/ \E m \in Messages : Evict(m)
     \/ \E m \in Messages : Retire(m)
     \/ \E u \in Users : ExpireNotice(u)
     \/ \E u \in Users : FinishNotice(u)
  /\ UNCHANGED tasks

\* A task that was spawned goes on.
Run(t) == t \in Spawned /\ UNCHANGED vars /\ Processing!Run(t)

\* What was spawned does not outlive the process.
RestartBot == Restart /\ Processing!Lose(Spawned)

BotNext ==
  \/ Handle
  \/ \E t \in Tasks : Run(t)
  \/ RestartBot

BotSpec ==
  /\ BotInit /\ [][BotNext]_botVars
  /\ Fairness
  /\ \A t \in Tasks : WF_botVars(Run(t))

-----------------------------------------------------------------------------

TasksOf(m) == {t \in Spawned : t[1] = m}
EndedTasks(m) == {t \in TasksOf(m) : stage[t] \in Processing!Ended}

\* However calls are repeated, cancelled and lost, and wherever the bot
\* restarts, its users see it do what Conversation says.
Promise == INSTANCE Conversation
  WITH taken <- [m \in Messages |-> Cardinality(TasksOf(m))],
       finished <- [m \in Messages |-> Cardinality(EndedTasks(m))],
       forgotten <- forgotten,
       received <- [m \in Messages |-> Cardinality({n \in 1..Len(chat) : chat[n][1][1] = m})]

ImplementsConversation == Promise!Spec

\* The bot answers no message that was not seen to be genuine and from a user who
\* may use the bot, and no text before the server has tried to show it as read and
\* knows how that ended, well or badly (server/mod.rs).
AnsweredIsRead ==
  \A n \in 1..Len(chat) :
    LET m == chat[n][1][1]
    IN  /\ body[m] \in {"text", "reaction"} /\ IsAllowed(Sender[m])
        /\ chat[n][1][2] = "dispatched" => chat[n][1][3] <= Attempts(m, "read")

\* A message that the Gateway will not deliver again, and to which the user
\* will get no answer either, met with one of the reasons for silence: it was
\* refused, perhaps for a timestamp that lay in the future of the server's clock, its
\* handler failed or was dropped, the bot had nothing to say, or its task failed or
\* was lost in a restart.  No message just vanishes.
SilenceHasAReason ==
  \A m \in Messages :
    gateway[m] = "acked" /\ InFlight(m) = {} /\ EndedTasks(m) = TasksOf(m)
      /\ (\A n \in 1..Len(chat) : chat[n][1][1] # m) =>
      \/ ~Acceptable(m) \/ status[m] = "retired" \/ m \in mistimed
      \/ \E f \in Fates \ {"dispatched", "reacted"} : fate[m][f] > 0
      \/ \E t \in TasksOf(m) : \/ stage[t] \in {"panicked", "lost"}
                               \/ \E i \in DOMAIN plan[t] : plan[t][i] = << >>
                               \/ \E i \in DOMAIN outcome[t] : outcome[t][i] = "failed"

\* In the end every genuine message is acknowledged, and the bot is done with it.
EveryMessageEnds ==
  \A m \in Messages :
    body[m] # "forged" => <>(gateway[m] = "acked" /\ EndedTasks(m) = TasksOf(m))

=============================================================================
