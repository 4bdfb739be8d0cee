----------------------------- MODULE BotProofs -----------------------------
(***************************************************************************)
(* The whole bot: what is proved of webhook calls and of tasks on their    *)
(* own carries over to both together, and they keep Conversation's promise.*)
(*                                                                         *)
(* Every step of the bot is a step of the webhook endpoint or leaves its   *)
(* variables alone, so its theorems hold of the bot (BotIsWebhookHandler). *)
(* The tasks are not so easily had: they are spawned by the calls.  Their  *)
(* invariant is kept by Run and Lose, whose lemmas are those of            *)
(* MessageProcessingProofs, and by a call because it spawns the next task  *)
(* of its message, which has not begun (Taken, NotBegun).  How often a     *)
(* message was taken up, finished and answered are sizes of sets of tasks  *)
(* and of places in the chat; a step changes one of them by one, as the    *)
(* step of Conversation does.                                              *)
(***************************************************************************)
EXTENDS Bot, WebhookHandlerProofs

\* What is proved of the tasks.
Working == INSTANCE MessageProcessingProofs
  WITH Reactions <- {t \in Tasks : t[2] = "reacted"}, pc <- stage,
       answered <- Spawned, crashed <- restarts > 0

\* Bot's copy of the module and the one in the proofs are the same.
LEMMA WorkingAssumption == Working!MessageProcessingAssumption
BY BotAssumption
DEF Processing!MessageProcessingAssumption, Working!MessageProcessingAssumption,
    Processing!Responses, Working!Responses, Processing!ShowHelp, Working!ShowHelp

LEMMA SameInit == Processing!Init => Working!Init
BY DEF Processing!Init, Working!Init, Processing!Contexts, Working!Contexts

LEMMA SameLose == ASSUME NEW S, Processing!Lose(S) PROVE Working!Lose(S)
BY DEF Processing!Lose, Working!Lose, Processing!Ended, Working!Ended

LEMMA SameRun ==
  ASSUME NEW t \in Tasks, Processing!Run(t)
  PROVE  Working!Run(t)
BY DEF Processing!Run, Working!Run,
  Processing!HandlerReturns, Working!HandlerReturns,
  Processing!SkipHandler, Working!SkipHandler,
  Processing!HandlerFails, Working!HandlerFails,
  Processing!StopTyping, Working!StopTyping,
  Processing!Act, Working!Act,
  Processing!HelpReturns, Working!HelpReturns,
  Processing!LookupReturns, Working!LookupReturns,
  Processing!UploadReturns, Working!UploadReturns,
  Processing!ThumbnailReturns, Working!ThumbnailReturns,
  Processing!Build, Working!Build,
  Processing!SendReturns, Working!SendReturns,
  Processing!AnnounceReturns, Working!AnnounceReturns,
  Processing!SendFails, Working!SendFails,
  Processing!AnswerLost, Working!AnswerLost,
  Processing!AnnounceFails, Working!AnnounceFails,
  Processing!Panic, Working!Panic,
  Processing!Goto, Working!Goto, Processing!Decide, Working!Decide,
  Processing!Handled, Working!Handled, Processing!Conclude, Working!Conclude,
  Processing!Proceed, Working!Proceed, Processing!GiveUp, Working!GiveUp,
  Processing!FirstStage, Working!FirstStage, Processing!Current, Working!Current,
  Processing!Receive, Working!Receive, Processing!Contexts, Working!Contexts,
  Processing!ShowHelp, Working!ShowHelp, Processing!ServerTexts, Working!ServerTexts,
  Processing!Sending, Working!Sending, Processing!Callbacks, Working!Callbacks

-----------------------------------------------------------------------------

\* The fates that spawn a task.
Kinds == {"dispatched", "reacted"}

\* The bound of the model, which makes room for a task each time.
Bounded == \A m \in Messages : forgotten[m] <= MaxForgotten

\* Tasks are spawned one by one: their numbers leave no gaps.
Taken ==
  \A m \in Messages :
    /\ IsFiniteSet(TasksOf(m))
    /\ Cardinality(TasksOf(m)) = fate[m]["dispatched"] + fate[m]["reacted"]

\* A task that was not spawned has not begun, and has sent nothing.
NotBegun ==
  /\ \A t \in Tasks \ Spawned : stage[t] = "handler"
  /\ \A n \in 1..Len(chat) : chat[n][1] \in Spawned

BotInv == Working!IInv /\ Bounded /\ Taken /\ NotBegun

LEMMA TasksCounted ==
  ASSUME Taken, NEW m \in Messages
  PROVE  /\ IsFiniteSet(TasksOf(m)) /\ Cardinality(TasksOf(m)) \in Nat
         /\ IsFiniteSet(EndedTasks(m)) /\ Cardinality(EndedTasks(m)) \in Nat
         /\ EndedTasks(m) \subseteq TasksOf(m)
         /\ Cardinality(EndedTasks(m)) <= Cardinality(TasksOf(m))
BY FS_Subset, FS_CardinalityType DEF Taken, EndedTasks

\* A handler spawns at most one task, and while it does nothing is forgotten.
LEMMA HandleSpawns ==
  ASSUME TypeInv, Handle
  PROVE  \/ \A m \in Messages, k \in Kinds : fate'[m][k] = fate[m][k]
         \/ /\ \E r \in Requests, k \in Kinds :
                 pc[r] \in Stages \ {"idle", "arrived"} /\ Meets(r, k)
            /\ UNCHANGED forgotten
<1> DEFINE Same == \A m \in Messages, k \in Kinds : fate'[m][k] = fate[m][k]
           Spawns == /\ \E r \in Requests, k \in Kinds :
                          pc[r] \in Stages \ {"idle", "arrived"} /\ Meets(r, k)
                     /\ UNCHANGED forgotten
<1> USE DEF arrivals, inbox
<1>1. ASSUME NEW r \in Requests, NEW f \in Fates \ Kinds, Meets(r, f) PROVE Same
  BY <1>1 DEF Meets, TypeInv, TypeOK, Kinds, Fates
<1>2. ASSUME NEW r \in Requests, LookupSettles(r) PROVE Same \/ Spawns
  <2>1. Route(cur[r]) \in {"garbled", "ignored", "denied", "reacted"}
    BY <1>2 DEF LookupSettles, Route
  <2>2. CASE Route(cur[r]) = "reacted"
    BY <1>2, <2>2 DEF LookupSettles, Kinds, Stages
  <2>3. CASE Route(cur[r]) # "reacted"
    BY <1>1, <1>2, <2>1, <2>3 DEF LookupSettles, Kinds, Fates
  <2> QED
    BY <2>2, <2>3
<1>3. ASSUME NEW r \in Requests, Dispatch(r) PROVE Spawns
  BY <1>3 DEF Dispatch, Kinds, Stages
<1>4. ASSUME NEW r \in Requests,
             LookupFails(r) \/ SkipNotice(r) \/ SpawnNotice(r) \/ Cancel(r)
      PROVE  Same
  BY <1>1, <1>4 DEF LookupFails, SkipNotice, SpawnNotice, Cancel, Kinds, Fates
<1>5. ASSUME UNCHANGED fate PROVE Same
  BY <1>5
<1>6. ASSUME NEW r \in Requests, Step(r) PROVE Same \/ Spawns
  BY <1>2, <1>3, <1>4, <1>5, <1>6
  DEF Step, RejectForged, RejectUnparsable, Refuse, RefuseTimestamp, RefuseDuplicate,
      Admit, LookupProceeds, SendReceived, SendRead, Limit, MissNotice, InsertNotice
<1> QED
  BY <1>4, <1>5, <1>6 DEF Handle, Deliver, Evict, Retire, ExpireNotice, FinishNotice

\* Nothing is forgotten but a message that is evicted.
LEMMA HandleForgets ==
  ASSUME Handle
  PROVE  UNCHANGED forgotten \/ \E m \in Messages : Evict(m)
<1> USE DEF arrivals, inbox
<1>1. ASSUME NEW r \in Requests, Step(r) PROVE UNCHANGED forgotten
  BY <1>1
  DEF Step, RejectForged, RejectUnparsable, Refuse, RefuseTimestamp, RefuseDuplicate,
      Admit, LookupFails, LookupSettles, LookupProceeds, SendReceived, SendRead, Dispatch,
      Limit, SkipNotice, MissNotice, InsertNotice, SpawnNotice, Memory!Accept
<1> QED
  BY <1>1 DEF Handle, Deliver, Cancel, Retire, Memory!Retire, ExpireNotice, FinishNotice

\* What a handler spawns is a new task, and there was room for it: the message has
\* been forgotten as often as it was taken up.
LEMMA SpawningIsNew ==
  ASSUME TypeInv, OneFate, Bounded, Taken,
         NEW r \in Requests, pc[r] \in Stages \ {"idle", "arrived"},
         NEW k \in Kinds, Meets(r, k), UNCHANGED forgotten,
         NEW m, m = cur[r], NEW task, task = <<m, k, fate[m][k] + 1>>
  PROVE  /\ m \in Messages
         /\ task \in Tasks \ Spawned
         /\ Spawned' = Spawned \cup {task}
         /\ Cardinality(TasksOf(m)) <= forgotten[m]
         /\ fate'[m]["dispatched"] + fate'[m]["reacted"]
              = fate[m]["dispatched"] + fate[m]["reacted"] + 1
         /\ \A n \in Messages \ {m} : fate'[n] = fate[n]
<1>1. m \in Messages /\ fate[m] \in [Fates -> Nat] /\ forgotten[m] \in Nat
  BY DEF TypeInv, TypeOK, Held, Memory!TypeOK
<1>2. fate[m]["dispatched"] + fate[m]["reacted"] <= Settled(m) /\ Settled(m) \in Nat
  BY <1>1, SettledType DEF Settled, Fates
<1>3. Cardinality(InFlight(m)) \in Nat /\ Cardinality(InFlight(m)) # 0
  <2>1. InFlight(m) # {}
    BY DEF InFlight
  <2> QED
    BY <2>1, FlightFinite, FS_EmptySet
<1>4. fate[m]["dispatched"] + fate[m]["reacted"] <= forgotten[m]
  BY <1>1, <1>2, <1>3 DEF OneFate, Fates
<1>5. fate[m][k] + 1 \in 1..(1 + MaxForgotten)
  <2>1. forgotten[m] <= MaxForgotten /\ MaxForgotten \in Nat
    BY <1>1, WebhookHandlerAssumption DEF Bounded
  <2>2. fate[m][k] \in Nat /\ fate[m][k] <= fate[m]["dispatched"] + fate[m]["reacted"]
    BY <1>1 DEF Kinds, Fates
  <2>3. fate[m]["dispatched"] + fate[m]["reacted"] \in Nat
    BY <1>1 DEF Fates
  <2>4. fate[m][k] <= MaxForgotten
    BY <1>1, <1>4, <2>1, <2>2, <2>3
  <2> QED
    BY <2>1, <2>2, <2>4
<1>6. task \in Tasks \ Spawned
  BY <1>1, <1>5 DEF Tasks, Spawned, Kinds, Fates
<1>7. /\ fate'[m] = [fate[m] EXCEPT ![k] = @ + 1]
      /\ \A n \in Messages \ {m} : fate'[n] = fate[n]
  BY <1>1 DEF Meets, TypeInv, TypeOK
<1>8. fate'[m]["dispatched"] + fate'[m]["reacted"]
        = fate[m]["dispatched"] + fate[m]["reacted"] + 1
  BY <1>1, <1>7 DEF Kinds, Fates
<1>9. Spawned' = Spawned \cup {task}
  <2>1. ASSUME NEW t \in Tasks
        PROVE  t[3] <= fate'[t[1]][t[2]] <=> t[3] <= fate[t[1]][t[2]] \/ t = task
    <3>1. /\ t = <<t[1], t[2], t[3]>> /\ t[1] \in Messages /\ t[2] \in Kinds /\ t[3] \in Nat
          /\ fate[t[1]][t[2]] \in Nat
      BY WebhookHandlerAssumption DEF Tasks, Kinds, TypeInv, TypeOK, Fates
    <3>2. CASE t[1] = m /\ t[2] = k
      <4>1. fate'[t[1]][t[2]] = fate[t[1]][t[2]] + 1
        BY <1>1, <1>7, <3>2 DEF Kinds, Fates
      <4>2. t = task <=> t[3] = fate[t[1]][t[2]] + 1
        BY <3>1, <3>2
      <4> QED
        BY <3>1, <4>1, <4>2
    <3>3. CASE ~(t[1] = m /\ t[2] = k)
      <4>1. fate'[t[1]][t[2]] = fate[t[1]][t[2]]
        <5>1. CASE t[1] # m
          BY <1>7, <3>1, <5>1
        <5>2. CASE t[1] = m /\ t[2] # k
          BY <1>1, <1>7, <3>1, <5>2 DEF Kinds, Fates
        <5> QED
          BY <3>3, <5>1, <5>2
      <4>2. t # task
        BY <3>3
      <4> QED
        BY <4>1, <4>2
    <3> QED
      BY <3>2, <3>3
  <2>2. Spawned' = {t \in Tasks : t[3] <= fate'[t[1]][t[2]]}
    BY DEF Spawned, Tasks
  <2> QED
    BY <1>6, <2>1, <2>2 DEF Spawned
<1> QED
  BY <1>1, <1>4, <1>6, <1>7, <1>8, <1>9 DEF Taken

\* As long as nothing is spawned, the tasks stay the same.
LEMMA SpawnedStays ==
  ASSUME \A m \in Messages, k \in Kinds : fate'[m][k] = fate[m][k]
  PROVE  /\ Spawned' = Spawned
         /\ \A m : TasksOf(m)' = TasksOf(m)
<1>1. Spawned' = Spawned
  BY DEF Spawned, Tasks, Kinds
<1> QED
  BY <1>1 DEF TasksOf

LEMMA HandleKeepsBotInv ==
  ASSUME TypeInv, OneFate, BotInv, Handle
  PROVE  BotInv'
<1>1. Working!IInv'
  BY WorkingAssumption, Working!StillKeepsIInv DEF BotInv, Handle, tasks
<1>2. Bounded'
  <2>1. CASE UNCHANGED forgotten
    BY <2>1 DEF BotInv, Bounded
  <2>2. ASSUME NEW m \in Messages, Evict(m) PROVE Bounded'
    <3>1. /\ forgotten[m] < MaxForgotten /\ forgotten[m] \in Nat /\ MaxForgotten \in Nat
          /\ forgotten' = [n \in Messages |->
                             IF n \in {m} THEN forgotten[n] + 1 ELSE forgotten[n]]
      BY <2>2, WebhookHandlerAssumption DEF Evict, Memory!Forget, TypeInv, TypeOK, Memory!TypeOK
    <3> QED
      BY <3>1 DEF BotInv, Bounded
  <2> QED
    BY <2>1, <2>2, HandleForgets
<1>3. CASE \A m \in Messages, k \in Kinds : fate'[m][k] = fate[m][k]
  <2>1. Taken'
    BY <1>3, SpawnedStays DEF BotInv, Taken, Kinds
  <2>2. NotBegun'
    BY <1>3, SpawnedStays DEF BotInv, NotBegun, Handle, tasks, Tasks
  <2> QED
    BY <1>1, <1>2, <2>1, <2>2 DEF BotInv
<1>4. ASSUME NEW r \in Requests, NEW k \in Kinds,
             pc[r] \in Stages \ {"idle", "arrived"}, Meets(r, k), UNCHANGED forgotten
      PROVE  BotInv'
  <2> PICK m, task : m = cur[r] /\ task = <<m, k, fate[m][k] + 1>>
    OBVIOUS
  <2>1. /\ m \in Messages /\ task \in Tasks \ Spawned
        /\ Spawned' = Spawned \cup {task}
        /\ fate'[m]["dispatched"] + fate'[m]["reacted"]
             = fate[m]["dispatched"] + fate[m]["reacted"] + 1
        /\ \A n \in Messages \ {m} : fate'[n] = fate[n]
    BY <1>4, SpawningIsNew DEF BotInv
  <2>2. ASSUME NEW n \in Messages
        PROVE  /\ IsFiniteSet(TasksOf(n))'
               /\ Cardinality(TasksOf(n))' = fate'[n]["dispatched"] + fate'[n]["reacted"]
    <3>1. /\ IsFiniteSet(TasksOf(n))
          /\ Cardinality(TasksOf(n)) = fate[n]["dispatched"] + fate[n]["reacted"]
      BY DEF BotInv, Taken
    <3>2. CASE n = m
      <4>1. TasksOf(n)' = TasksOf(n) \cup {task} /\ task \notin TasksOf(n)
        BY <2>1, <3>2 DEF TasksOf
      <4>2. /\ IsFiniteSet(TasksOf(n) \cup {task})
            /\ Cardinality(TasksOf(n) \cup {task}) = Cardinality(TasksOf(n)) + 1
        BY <3>1, <4>1, FS_AddElement
      <4> QED
        BY <2>1, <3>1, <3>2, <4>1, <4>2
    <3>3. CASE n # m
      <4>1. TasksOf(n)' = TasksOf(n)
        BY <2>1, <3>3 DEF TasksOf
      <4> QED
        BY <2>1, <3>1, <3>3, <4>1
    <3> QED
      BY <3>2, <3>3
  <2>3. Taken'
    BY <2>2 DEF Taken
  <2>4. NotBegun'
    BY <2>1 DEF BotInv, NotBegun, Handle, tasks, Tasks
  <2> QED
    BY <1>1, <1>2, <2>3, <2>4 DEF BotInv
<1> QED
  BY <1>3, <1>4, HandleSpawns

\* What a task does to the stages and to the chat.
LEMMA RunShows ==
  ASSUME Working!IInv, NEW t \in Tasks, Run(t)
  PROVE  /\ t \in Spawned /\ stage[t] \notin Processing!Ended
         /\ Working!IInv'
         /\ \A u \in Tasks \ {t} : stage'[u] = stage[u]
         /\ \/ UNCHANGED chat
            \/ /\ Len(chat') = Len(chat) + 1 /\ Len(chat) \in Nat
               /\ chat'[Len(chat) + 1][1] = t
               /\ \A n \in 1..Len(chat) : chat'[n] = chat[n]
<1>1. Working!Run(t) /\ t \in Spawned
  BY SameRun DEF Run
<1>2. /\ stage[t] \notin Working!Ended
      /\ UNCHANGED chat \/ (stage[t] = "send" /\ Working!Receive(t))
  BY <1>1, WorkingAssumption, Working!RunEffects
<1>3. Working!Domains /\ Working!Ordered /\ Working!Typed(t)
  BY DEF Working!IInv, Working!TaskInv
<1>4. ASSUME Working!Receive(t)
      PROVE  /\ Len(chat') = Len(chat) + 1 /\ Len(chat) \in Nat
             /\ chat'[Len(chat) + 1][1] = t
             /\ \A n \in 1..Len(chat) : chat'[n] = chat[n]
  <2>1. /\ Len(chat') = Len(chat) + 1
        /\ chat'[Len(chat) + 1] = <<t, item[t], pos[t]>>
        /\ \A n \in 1..Len(chat) : chat'[n] = chat[n]
    BY <1>3, <1>4, WorkingAssumption, Working!ReceiveGrows
  <2>2. Len(chat) \in Nat
    BY <1>3 DEF Working!Ordered
  <2> QED
    BY <2>1, <2>2
<1>5. /\ Working!IInv'
      /\ \A u \in Tasks \ {t} : stage'[u] = stage[u]
  BY <1>1, <1>3, WorkingAssumption, Working!RunKeepsIInv, Working!OthersStay
<1> QED
  BY <1>1, <1>2, <1>4, <1>5 DEF Processing!Ended, Working!Ended

LEMMA RunKeepsBotInv ==
  ASSUME BotInv, NEW t \in Tasks, Run(t)
  PROVE  BotInv'
<1>1. UNCHANGED <<fate, forgotten>> /\ Working!IInv'
  BY RunShows DEF BotInv, Run, vars, arrivals, inbox
<1>2. /\ Spawned' = Spawned /\ \A m : TasksOf(m)' = TasksOf(m)
  BY <1>1, SpawnedStays
<1>3. NotBegun'
  <2>1. \A u \in Tasks \ Spawned : stage'[u] = "handler"
    BY RunShows DEF BotInv, NotBegun
  <2>2. \A n \in 1..Len(chat') : chat'[n][1] \in Spawned
    <3>1. CASE UNCHANGED chat
      BY <3>1 DEF BotInv, NotBegun
    <3>2. CASE /\ Len(chat') = Len(chat) + 1 /\ Len(chat) \in Nat
               /\ chat'[Len(chat) + 1][1] = t
               /\ \A n \in 1..Len(chat) : chat'[n] = chat[n]
      <4>1. 1..Len(chat') = 1..Len(chat) \cup {Len(chat) + 1}
        BY <3>2
      <4> QED
        BY <3>2, <4>1, RunShows DEF BotInv, NotBegun
    <3> QED
      BY <3>1, <3>2, RunShows DEF BotInv
  <2> QED
    BY <1>2, <2>1, <2>2 DEF NotBegun, Tasks
<1> QED
  BY <1>1, <1>2, <1>3 DEF BotInv, Bounded, Taken

\* A restart takes nothing back, and ends what was spawned.
LEMMA RestartShows ==
  ASSUME TypeInv, RestartBot
  PROVE  /\ \A m \in Messages, k \in Kinds : fate'[m][k] = fate[m][k]
         /\ \E S \in SUBSET Messages :
              /\ \A m \in S : forgotten[m] < MaxForgotten
              /\ forgotten' = [m \in Messages |->
                                 IF m \in S THEN forgotten[m] + 1 ELSE forgotten[m]]
         /\ Working!Lose(Spawned)
         /\ stage' = [t \in Tasks |-> IF t \in Spawned /\ stage[t] \notin Processing!Ended
                                      THEN "lost" ELSE stage[t]]
         /\ UNCHANGED chat
<1>1. \A m \in Messages, k \in Kinds : fate'[m][k] = fate[m][k]
  BY DEF RestartBot, Restart, Kinds, TypeInv, TypeOK
<1>2. \E S \in SUBSET Messages :
         /\ \A m \in S : forgotten[m] < MaxForgotten
         /\ forgotten' = [m \in Messages |->
                            IF m \in S THEN forgotten[m] + 1 ELSE forgotten[m]]
  <2> DEFINE S == {m \in Messages : status[m] = "seen"}
  <2>1. /\ \A m \in S : forgotten[m] < MaxForgotten
        /\ Memory!Forget(S) \/ (S = {} /\ UNCHANGED inbox)
    BY DEF RestartBot, Restart
  <2>2. forgotten \in [Messages -> Nat]
    BY DEF TypeInv, TypeOK, Memory!TypeOK
  <2>3. forgotten' = [m \in Messages |->
                        IF m \in S THEN forgotten[m] + 1 ELSE forgotten[m]]
    BY <2>1, <2>2 DEF Memory!Forget, inbox
  <2> QED
    BY <2>1, <2>3
<1> QED
  BY <1>1, <1>2, SameLose DEF RestartBot, Processing!Lose

LEMMA RestartKeepsBotInv ==
  ASSUME TypeInv, BotInv, RestartBot
  PROVE  BotInv'
<1>1. Spawned' = Spawned /\ \A m : TasksOf(m)' = TasksOf(m)
  BY RestartShows, SpawnedStays
<1>2. Working!IInv'
  <2>1. Spawned \in SUBSET Tasks /\ \A t \in Tasks \ Spawned : stage[t] = "handler"
    BY DEF BotInv, NotBegun, Spawned
  <2> QED
    BY <2>1, RestartShows, WorkingAssumption, Working!LoseKeepsIInv DEF BotInv
<1>3. Bounded'
  <2>1. forgotten \in [Messages -> Nat] /\ MaxForgotten \in Nat
    BY WebhookHandlerAssumption DEF TypeInv, TypeOK, Memory!TypeOK
  <2> QED
    BY <2>1, RestartShows DEF BotInv, Bounded
<1>4. Taken'
  BY <1>1, RestartShows DEF BotInv, Taken, Kinds
<1>5. NotBegun'
  BY <1>1, RestartShows DEF BotInv, NotBegun, Tasks
<1> QED
  BY <1>2, <1>3, <1>4, <1>5 DEF BotInv

-----------------------------------------------------------------------------

LEMMA BotStep == [BotNext]_botVars => [Next]_vars
BY DEF BotNext, botVars, Handle, Run, RestartBot, Next

\* What is proved of the webhook endpoint on its own holds of the bot.
THEOREM BotIsWebhookHandler == BotSpec => Spec
<1>1. BotInit => Init
  BY DEF BotInit
<1> QED
  BY <1>1, BotStep, PTL DEF BotSpec, Spec

LEMMA InitBotInv == BotInit => BotInv
<1> SUFFICES ASSUME BotInit PROVE BotInv
  OBVIOUS
<1>1. Working!IInv
  BY SameInit, WorkingAssumption, Working!InitIInv DEF BotInit
<1>2. fate = [m \in Messages |-> [f \in Fates |-> 0]] /\ forgotten = [m \in Messages |-> 0]
  BY DEF BotInit, Init, Memory!Init
<1>3. Bounded
  BY <1>2, WebhookHandlerAssumption DEF Bounded
<1>4. Spawned = {}
  <2>1. \A t \in Tasks : fate[t[1]][t[2]] = 0 /\ ~(t[3] <= 0)
    BY <1>2, WebhookHandlerAssumption DEF Tasks, Fates
  <2> QED
    BY <2>1 DEF Spawned
<1>5. Taken
  <2>1. \A m \in Messages : TasksOf(m) = {}
    BY <1>4 DEF TasksOf
  <2> QED
    BY <1>2, <2>1, FS_EmptySet DEF Taken, Fates
<1>6. NotBegun
  BY DEF BotInit, Processing!Init, NotBegun
<1> QED
  BY <1>1, <1>3, <1>5, <1>6 DEF BotInv

LEMMA NextBotInv == TypeInv /\ OneFate /\ BotInv /\ [BotNext]_botVars => BotInv'
<1> SUFFICES ASSUME TypeInv, OneFate, BotInv, [BotNext]_botVars PROVE BotInv'
  OBVIOUS
<1>1. ASSUME UNCHANGED botVars PROVE BotInv'
  <2>1. UNCHANGED <<fate, forgotten>> /\ Working!IInv'
    BY <1>1, WorkingAssumption, Working!StillKeepsIInv
    DEF BotInv, botVars, vars, arrivals, inbox, tasks
  <2>2. Spawned' = Spawned /\ \A m : TasksOf(m)' = TasksOf(m)
    BY <2>1, SpawnedStays
  <2> QED
    BY <1>1, <2>1, <2>2 DEF BotInv, Bounded, Taken, NotBegun, Tasks, botVars, tasks
<1> QED
  BY <1>1, HandleKeepsBotInv, RunKeepsBotInv, RestartKeepsBotInv DEF BotNext

LEMMA BotInvariance == BotSpec => [](TypeInv /\ OneFate /\ BotInv)
<1>1. Spec => []TypeInv
  BY InitTypeInv, NextTypeInv, PTL DEF Spec
<1> QED
  BY <1>1, InitBotInv, NextBotInv, BotIsWebhookHandler, WebhookHandlerOneFate, PTL
  DEF BotSpec

-----------------------------------------------------------------------------

\* What Conversation sees of the bot.
TakenUp == [m \in Messages |-> Cardinality(TasksOf(m))]
Finished == [m \in Messages |-> Cardinality(EndedTasks(m))]
AnswersTo(m) == {n \in 1..Len(chat) : chat[n][1][1] = m}
Answers == [m \in Messages |-> Cardinality(AnswersTo(m))]

LEMMA AnswersFinite ==
  ASSUME Len(chat) \in Nat
  PROVE  \A m : IsFiniteSet(AnswersTo(m)) /\ Cardinality(AnswersTo(m)) \in Nat
<1>1. IsFiniteSet(1..Len(chat))
  BY FS_Interval
<1> QED
  BY <1>1, FS_Subset, FS_CardinalityType DEF AnswersTo

LEMMA HandleImplements ==
  ASSUME TypeInv, OneFate, BotInv, Handle
  PROVE  [Promise!Next]_(Promise!vars)
<1>1. UNCHANGED <<stage, chat>>
  BY DEF Handle, tasks
<1>2. Answers' = Answers
  BY <1>1 DEF Answers, AnswersTo
<1>3. CASE \A m \in Messages, k \in Kinds : fate'[m][k] = fate[m][k]
  <2>1. TakenUp' = TakenUp /\ Finished' = Finished
    <3>1. \A m : TasksOf(m)' = TasksOf(m)
      BY <1>3, SpawnedStays
    <3>2. \A m : EndedTasks(m)' = EndedTasks(m)
      BY <1>1, <3>1 DEF EndedTasks, Processing!Ended
    <3> QED
      BY <3>1, <3>2 DEF TakenUp, Finished
  <2>2. CASE UNCHANGED forgotten
    BY <1>2, <2>1, <2>2 DEF Promise!vars, TakenUp, Finished, Answers, AnswersTo
  <2>3. ASSUME NEW m \in Messages, Evict(m) PROVE Promise!Next
    <3>1. Promise!Evict(m)
      BY <1>2, <2>1, <2>3
      DEF Evict, Memory!Forget, Promise!Evict, Promise!Forget, TakenUp, Finished, Answers,
          AnswersTo
    <3> QED
      BY <3>1 DEF Promise!Next
  <2> QED
    BY <2>2, <2>3, HandleForgets
<1>4. ASSUME NEW r \in Requests, NEW k \in Kinds,
             pc[r] \in Stages \ {"idle", "arrived"}, Meets(r, k), UNCHANGED forgotten
      PROVE  Promise!Next
  <2> PICK m, task : m = cur[r] /\ task = <<m, k, fate[m][k] + 1>>
    OBVIOUS
  <2>1. /\ m \in Messages /\ task \in Tasks \ Spawned
        /\ Spawned' = Spawned \cup {task}
        /\ Cardinality(TasksOf(m)) <= forgotten[m]
    BY <1>4, SpawningIsNew DEF BotInv
  <2>2. stage[task] = "handler"
    BY <2>1 DEF BotInv, NotBegun
  <2>3. \A n : TasksOf(n)' = IF n = m THEN TasksOf(n) \cup {task} ELSE TasksOf(n)
    BY <2>1 DEF TasksOf
  <2>4. \A n : EndedTasks(n)' = EndedTasks(n)
    <3>1. task \notin {t \in Tasks : stage[t] \in Processing!Ended}
      BY <2>2 DEF Processing!Ended
    <3> QED
      BY <1>1, <2>1, <2>3, <3>1 DEF EndedTasks, TasksOf, Spawned, Tasks, Processing!Ended
  <2>5. Cardinality(TasksOf(m) \cup {task}) = Cardinality(TasksOf(m)) + 1
    <3>1. IsFiniteSet(TasksOf(m)) /\ task \notin TasksOf(m)
      BY <2>1 DEF BotInv, Taken, TasksOf
    <3> QED
      BY <3>1, FS_AddElement
  <2>6. TakenUp' = [TakenUp EXCEPT ![m] = @ + 1]
    BY <2>1, <2>3, <2>5 DEF TakenUp
  <2>7. Finished' = Finished
    BY <2>4 DEF Finished
  <2>8. Promise!Take(m)
    BY <1>2, <1>4, <2>1, <2>6, <2>7 DEF Promise!Take, TakenUp, Finished, Answers, AnswersTo
  <2> QED
    BY <2>1, <2>8 DEF Promise!Next
<1> QED
  BY <1>3, <1>4, HandleSpawns

LEMMA RunImplements ==
  ASSUME BotInv, NEW t \in Tasks, Run(t)
  PROVE  [Promise!Next]_(Promise!vars)
<1> PICK m : m = t[1]
  OBVIOUS
<1>1. UNCHANGED <<fate, forgotten>> /\ m \in Messages
  BY DEF Run, vars, arrivals, inbox, Tasks
<1>2. /\ t \in TasksOf(m) /\ stage[t] \notin Processing!Ended
      /\ \A u \in Tasks \ {t} : stage'[u] = stage[u]
  BY RunShows DEF BotInv, TasksOf
<1>3. /\ Spawned' = Spawned /\ \A n : TasksOf(n)' = TasksOf(n)
  BY <1>1, SpawnedStays
<1>4. TakenUp' = TakenUp
  BY <1>3 DEF TakenUp
<1>5. Cardinality(EndedTasks(m)) < Cardinality(TasksOf(m))
  <2>1. EndedTasks(m) # TasksOf(m) /\ EndedTasks(m) \subseteq TasksOf(m)
    BY <1>2 DEF EndedTasks
  <2>2. IsFiniteSet(TasksOf(m))
    BY <1>1 DEF BotInv, Taken
  <2>3. /\ Cardinality(EndedTasks(m)) <= Cardinality(TasksOf(m))
        /\ Cardinality(EndedTasks(m)) # Cardinality(TasksOf(m))
    BY <2>1, <2>2, FS_Subset
  <2>4. Cardinality(EndedTasks(m)) \in Nat /\ Cardinality(TasksOf(m)) \in Nat
    BY <1>1, TasksCounted DEF BotInv
  <2> QED
    BY <2>3, <2>4
<1>6. Finished' \in {Finished, [Finished EXCEPT ![m] = @ + 1]}
  <2>1. \A n \in Messages \ {m} : EndedTasks(n)' = EndedTasks(n)
    BY <1>2, <1>3 DEF EndedTasks, TasksOf, Spawned, Tasks, Processing!Ended
  <2>2. CASE stage'[t] \in Processing!Ended
    <3>1. EndedTasks(m)' = EndedTasks(m) \cup {t} /\ t \notin EndedTasks(m)
      BY <1>2, <1>3, <2>2 DEF EndedTasks, TasksOf, Spawned, Tasks, Processing!Ended
    <3>2. IsFiniteSet(EndedTasks(m))
      BY <1>1, TasksCounted DEF BotInv
    <3>3. Cardinality(EndedTasks(m) \cup {t}) = Cardinality(EndedTasks(m)) + 1
      BY <3>1, <3>2, FS_AddElement
    <3>4. Finished' = [Finished EXCEPT ![m] = @ + 1]
      BY <1>1, <2>1, <3>1, <3>3 DEF Finished
    <3> QED
      BY <3>4
  <2>3. CASE stage'[t] \notin Processing!Ended
    <3>1. EndedTasks(m)' = EndedTasks(m)
      BY <1>2, <1>3, <2>3 DEF EndedTasks, TasksOf, Spawned, Tasks, Processing!Ended
    <3>2. Finished' = Finished
      BY <2>1, <3>1 DEF Finished
    <3> QED
      BY <3>2
  <2> QED
    BY <2>2, <2>3
<1>7. CASE UNCHANGED chat
  <2>1. Answers' = Answers
    BY <1>7 DEF Answers, AnswersTo
  <2>2. CASE Finished' = Finished
    BY <1>1, <1>4, <2>1, <2>2 DEF Promise!vars, TakenUp, Finished, Answers, AnswersTo
  <2>3. CASE Finished' = [Finished EXCEPT ![m] = @ + 1]
    <3>1. Promise!Finish(m)
      BY <1>1, <1>4, <1>5, <2>1, <2>3
      DEF Promise!Finish, Promise!AtWork, TakenUp, Finished, Answers, AnswersTo
    <3> QED
      BY <1>1, <3>1 DEF Promise!Next
  <2> QED
    BY <1>6, <2>2, <2>3
<1>8. CASE /\ Len(chat') = Len(chat) + 1 /\ Len(chat) \in Nat
           /\ chat'[Len(chat) + 1][1] = t
           /\ \A n \in 1..Len(chat) : chat'[n] = chat[n]
  <2>1. 1..Len(chat') = (1..Len(chat)) \cup {Len(chat) + 1} /\ Len(chat) + 1 \notin 1..Len(chat)
    BY <1>8
  <2>2. /\ AnswersTo(m)' = AnswersTo(m) \cup {Len(chat) + 1}
        /\ Len(chat) + 1 \notin AnswersTo(m)
        /\ \A n \in Messages \ {m} : AnswersTo(n)' = AnswersTo(n)
    BY <1>8, <2>1 DEF AnswersTo
  <2>3. Cardinality(AnswersTo(m) \cup {Len(chat) + 1}) = Cardinality(AnswersTo(m)) + 1
    BY <1>8, <2>2, AnswersFinite, FS_AddElement
  <2>4. Answers' = [Answers EXCEPT ![m] = @ + 1]
    BY <1>1, <2>2, <2>3 DEF Answers
  <2>5. Promise!Respond(m)
    BY <1>1, <1>4, <1>5, <1>6, <2>4
    DEF Promise!Respond, Promise!AtWork, TakenUp, Finished, Answers, AnswersTo
  <2> QED
    BY <1>1, <2>5 DEF Promise!Next
<1> QED
  BY <1>7, <1>8, RunShows DEF BotInv

LEMMA RestartImplements ==
  ASSUME TypeInv, BotInv, RestartBot
  PROVE  Promise!Next
<1>1. /\ \A m : TasksOf(m)' = TasksOf(m)
      /\ Spawned' = Spawned /\ UNCHANGED chat
  BY RestartShows, SpawnedStays
<1>2. ASSUME NEW m \in Messages PROVE EndedTasks(m)' = TasksOf(m)
  <2>1. \A t \in Spawned : stage'[t] \in Processing!Ended
    BY RestartShows DEF Spawned, Processing!Ended
  <2> QED
    BY <1>1, <2>1 DEF EndedTasks, TasksOf, Processing!Ended
<1>3. TakenUp' = TakenUp /\ Finished' = TakenUp /\ Answers' = Answers
  BY <1>1, <1>2 DEF TakenUp, Finished, Answers, AnswersTo
<1>4. \E S \in SUBSET Messages : Promise!Forget(S)
  BY RestartShows DEF Promise!Forget
<1>5. \E S \in SUBSET Messages : Promise!Restart(S)
  BY <1>3, <1>4 DEF Promise!Restart, TakenUp, Finished, Answers, AnswersTo
<1> QED
  BY <1>5 DEF Promise!Next

LEMMA InitImplements == BotInit => Promise!Init
<1> SUFFICES ASSUME BotInit PROVE Promise!Init
  OBVIOUS
<1>1. BotInv /\ forgotten = [m \in Messages |-> 0] /\ chat = << >>
  BY InitBotInv DEF BotInit, Init, Memory!Init, Processing!Init
<1>2. \A m \in Messages : fate[m]["dispatched"] + fate[m]["reacted"] = 0
  BY DEF BotInit, Init, Fates
<1>3. ASSUME NEW m \in Messages PROVE TasksOf(m) = {} /\ EndedTasks(m) = {}
  BY <1>1, <1>2, FS_EmptySet DEF BotInv, Taken, EndedTasks
<1>4. \A m : AnswersTo(m) = {}
  BY <1>1 DEF AnswersTo
<1>5. Cardinality({}) = 0
  BY FS_EmptySet
<1>6. /\ TakenUp = [m \in Messages |-> 0] /\ Finished = [m \in Messages |-> 0]
      /\ Answers = [m \in Messages |-> 0]
  BY <1>3, <1>4, <1>5 DEF TakenUp, Finished, Answers
<1> QED
  BY <1>1, <1>6 DEF Promise!Init, TakenUp, Finished, Answers, AnswersTo

\* The bot takes a message up once, and once more each time it was forgotten, and
\* the user receives something of it only while the bot is at work on it, whatever
\* the Gateway repeats and wherever calls, tasks and the process end.
THEOREM BotImplementsConversation == BotSpec => ImplementsConversation
<1>1. TypeInv /\ OneFate /\ BotInv /\ [BotNext]_botVars => [Promise!Next]_(Promise!vars)
  <2> SUFFICES ASSUME TypeInv, OneFate, BotInv, [BotNext]_botVars
               PROVE  [Promise!Next]_(Promise!vars)
    OBVIOUS
  <2>1. ASSUME UNCHANGED botVars PROVE UNCHANGED Promise!vars
    <3>1. UNCHANGED <<fate, forgotten, stage, chat>>
      BY <2>1 DEF botVars, vars, arrivals, inbox, tasks
    <3>2. \A m : TasksOf(m)' = TasksOf(m)
      BY <3>1, SpawnedStays
    <3>3. \A m : EndedTasks(m)' = EndedTasks(m) /\ AnswersTo(m)' = AnswersTo(m)
      BY <3>1, <3>2 DEF EndedTasks, AnswersTo, Processing!Ended
    <3>4. TakenUp' = TakenUp /\ Finished' = Finished /\ Answers' = Answers
      BY <3>2, <3>3 DEF TakenUp, Finished, Answers
    <3> QED
      BY <3>1, <3>4 DEF Promise!vars, TakenUp, Finished, Answers, AnswersTo
  <2> QED
    BY <2>1, HandleImplements, RunImplements, RestartImplements DEF BotNext
<1> QED
  BY <1>1, InitImplements, BotInvariance, PTL DEF BotSpec, ImplementsConversation, Promise!Spec

-----------------------------------------------------------------------------

\* A handler past the routing holds a text, and tasks are spawned by the messages
\* that their kind says.
OnlyTexts ==
  \A r \in Requests :
    pc[r] \in Stages \ {"idle", "arrived", "lookup"} => body[cur[r]] = "text"

KindOfBody ==
  \A m \in Messages :
    /\ fate[m]["dispatched"] > 0 => body[m] = "text"
    /\ fate[m]["reacted"] > 0 => body[m] = "reaction"

BodyInv == TypeInv /\ OnlyTexts /\ KindOfBody

LEMMA NextOnlyTexts == TypeInv /\ OnlyTexts /\ [Next]_vars => OnlyTexts'
<1> SUFFICES ASSUME TypeInv, OnlyTexts, [Next]_vars PROVE OnlyTexts'
  OBVIOUS
<1>1. /\ UNCHANGED body
      /\ pc \in [Requests -> Stages] /\ cur \in [Requests -> Messages \cup {NoMessage}]
  BY BodiesStay DEF TypeInv, TypeOK
<1>2. ASSUME NEW r \in Requests, NEW s \in Stages, Goto(r, s), UNCHANGED cur,
             s \in {"arrived", "lookup"} \/ body[cur[r]] = "text"
      PROVE  OnlyTexts'
  BY <1>1, <1>2 DEF OnlyTexts, Goto
<1>3. ASSUME NEW r \in Requests, Leave(r) PROVE OnlyTexts'
  BY <1>1, <1>3 DEF OnlyTexts, Leave, Goto
<1>4. ASSUME NEW r \in Requests, NEW m \in Messages, Deliver(r, m) PROVE OnlyTexts'
  BY <1>1, <1>4 DEF OnlyTexts, Deliver, Goto
<1>5. ASSUME NEW r \in Requests,
             \/ RejectForged(r) \/ RejectUnparsable(r) \/ Refuse(r) \/ LookupFails(r)
             \/ LookupSettles(r) \/ Dispatch(r) \/ SkipNotice(r) \/ SpawnNotice(r)
             \/ Cancel(r)
      PROVE  OnlyTexts'
  <2>1. Leave(r)
    BY <1>5
    DEF RejectForged, RejectUnparsable, Refuse, RefuseTimestamp, RefuseDuplicate,
        LookupFails, LookupSettles, Dispatch, SkipNotice, SpawnNotice, Cancel, AnswerOk,
        AnswerFailure
  <2> QED
    BY <1>3, <2>1
<1>6. ASSUME NEW r \in Requests, Admit(r) PROVE OnlyTexts'
  BY <1>2, <1>6 DEF Admit, Stages
<1>7. ASSUME NEW r \in Requests, LookupProceeds(r) PROVE OnlyTexts'
  <2>1. body[cur[r]] = "text"
    BY <1>7 DEF LookupProceeds, Route
  <2> QED
    BY <1>2, <1>7, <2>1 DEF LookupProceeds, Stages
<1>8. ASSUME NEW r \in Requests,
             SendReceived(r) \/ SendRead(r) \/ Limit(r) \/ MissNotice(r) \/ InsertNotice(r)
      PROVE  OnlyTexts'
  <2>1. body[cur[r]] = "text"
    BY <1>8 DEF SendReceived, SendRead, Limit, MissNotice, InsertNotice, OnlyTexts, Stages
  <2>2. UNCHANGED cur /\ \E s \in Stages : Goto(r, s)
    BY <1>8 DEF SendReceived, SendRead, Limit, MissNotice, InsertNotice, Stages
  <2> QED
    BY <1>2, <2>1, <2>2
<1>9. CASE Restart
  BY <1>9 DEF Restart, OnlyTexts
<1>10. CASE UNCHANGED <<pc, cur>>
  BY <1>1, <1>10 DEF OnlyTexts
<1> QED
  BY <1>4, <1>5, <1>6, <1>7, <1>8, <1>9, <1>10
  DEF Next, Step, Evict, Retire, ExpireNotice, FinishNotice, vars

LEMMA NextBodyInv == BodyInv /\ [Next]_vars => BodyInv'
<1> SUFFICES ASSUME BodyInv, [Next]_vars PROVE BodyInv'
  OBVIOUS
<1>1. TypeInv' /\ OnlyTexts' /\ UNCHANGED body
  BY NextTypeInv, NextOnlyTexts, BodiesStay DEF BodyInv
<1>2. ASSUME NEW r \in Requests, NEW f \in Fates, Meets(r, f), pc[r] # "idle",
             f = "dispatched" => body[cur[r]] = "text",
             f = "reacted" => body[cur[r]] = "reaction"
      PROVE  KindOfBody'
  <2>1. /\ fate \in [Messages -> [Fates -> Nat]] /\ cur[r] \in Messages
        /\ {"dispatched", "reacted"} \subseteq Fates
    BY <1>2 DEF BodyInv, TypeInv, TypeOK, Held, Fates
  <2>2. ASSUME NEW m \in Messages, NEW k \in {"dispatched", "reacted"}
        PROVE  fate'[m][k] > 0 => fate[m][k] > 0 \/ (m = cur[r] /\ k = f)
    <3>1. CASE m = cur[r] /\ k = f
      BY <3>1
    <3>2. CASE ~(m = cur[r] /\ k = f)
      BY <1>2, <2>1, <3>2 DEF Meets
    <3> QED
      BY <3>1, <3>2
  <2> QED
    BY <1>1, <1>2, <2>2 DEF BodyInv, KindOfBody
<1>3. ASSUME NEW r \in Requests, Dispatch(r) PROVE KindOfBody'
  <2>1. body[cur[r]] = "text"
    BY <1>3 DEF Dispatch, BodyInv, OnlyTexts, Stages
  <2> QED
    BY <1>2, <1>3, <2>1 DEF Dispatch, Fates
<1>4. ASSUME NEW r \in Requests, LookupSettles(r) PROVE KindOfBody'
  <2>1. /\ Route(cur[r]) \in {"garbled", "ignored", "denied", "reacted"}
        /\ Route(cur[r]) = "reacted" => body[cur[r]] = "reaction"
    BY <1>4 DEF LookupSettles, Route
  <2> QED
    BY <1>2, <1>4, <2>1 DEF LookupSettles, Fates
<1>5. ASSUME NEW r \in Requests,
             LookupFails(r) \/ SkipNotice(r) \/ SpawnNotice(r) \/ Cancel(r)
      PROVE  KindOfBody'
  BY <1>2, <1>5 DEF LookupFails, SkipNotice, SpawnNotice, Cancel, Fates, Awaits
<1>6. ASSUME Restart PROVE KindOfBody'
  <2>1. \A m \in Messages, k \in {"dispatched", "reacted"} : fate'[m][k] = fate[m][k]
    BY <1>6 DEF Restart, BodyInv, TypeInv, TypeOK
  <2> QED
    BY <1>1, <2>1 DEF BodyInv, KindOfBody
<1>7. ASSUME UNCHANGED fate PROVE KindOfBody'
  BY <1>1, <1>7 DEF BodyInv, KindOfBody
<1>8. ASSUME NEW r \in Requests,
             \/ RejectForged(r) \/ RejectUnparsable(r) \/ Refuse(r) \/ Admit(r)
             \/ LookupProceeds(r) \/ SendReceived(r) \/ SendRead(r) \/ Limit(r)
             \/ MissNotice(r) \/ InsertNotice(r)
      PROVE  KindOfBody'
  <2>1. UNCHANGED fate
    BY <1>8
    DEF RejectForged, RejectUnparsable, Refuse, RefuseTimestamp, RefuseDuplicate, Admit,
        LookupProceeds, SendReceived, SendRead, Limit, MissNotice, InsertNotice
  <2> QED
    BY <1>7, <2>1
<1>9. ASSUME NEW r \in Requests, Step(r) PROVE KindOfBody'
  BY <1>3, <1>4, <1>5, <1>8, <1>9 DEF Step
<1>10. ASSUME \/ \E r \in Requests, m \in Messages : Deliver(r, m)
              \/ (\E m \in Messages : Evict(m)) \/ (\E m \in Messages : Retire(m))
              \/ \E u \in Users : ExpireNotice(u) \/ FinishNotice(u)
              \/ UNCHANGED vars
       PROVE  KindOfBody'
  <2>1. UNCHANGED fate
    BY <1>10 DEF Deliver, Evict, Retire, ExpireNotice, FinishNotice, vars
  <2> QED
    BY <1>7, <2>1
<1>11. KindOfBody'
  BY <1>5, <1>6, <1>9, <1>10 DEF Next
<1> QED
  BY <1>1, <1>11 DEF BodyInv

LEMMA BodyInvariance == Spec => []BodyInv
<1>1. Init => BodyInv
  <2> SUFFICES ASSUME Init PROVE BodyInv
    OBVIOUS
  <2>1. \A m \in Messages : fate[m]["dispatched"] = 0 /\ fate[m]["reacted"] = 0
    BY DEF Init, Fates
  <2> QED
    BY <2>1, InitTypeInv DEF Init, BodyInv, OnlyTexts, KindOfBody
<1> QED
  BY <1>1, NextBodyInv, PTL DEF Spec

\* A sender who is not listed gets nothing but a denial from the whole bot either
\* (server/mod.rs: each branch of the routing consults the allowlist).
THEOREM BotUnlistedIsOnlyDenied == BotSpec => []UnlistedIsOnlyDenied
BY BotIsWebhookHandler, WebhookHandlerUnlistedIsOnlyDenied, PTL

\* The user receives something only of a genuine message of a listed sender, and
\* of a text only after the server has tried to show it as read (server/mod.rs).
THEOREM BotAnsweredIsRead == BotSpec => []AnsweredIsRead
<1>1. TypeInv /\ BotInv /\ BodyInv /\ UnlistedIsOnlyDenied /\ ReceiptsComeFirst
        => AnsweredIsRead
  <2> SUFFICES ASSUME TypeInv, BotInv, BodyInv, UnlistedIsOnlyDenied, ReceiptsComeFirst,
                      NEW n \in 1..Len(chat), NEW m, m = chat[n][1][1]
               PROVE  /\ body[m] \in {"text", "reaction"} /\ IsAllowed(Sender[m])
                      /\ chat[n][1][2] = "dispatched" => chat[n][1][3] <= Attempts(m, "read")
    BY DEF AnsweredIsRead
  <2> PICK t : t = chat[n][1]
    OBVIOUS
  <2>1. t \in Spawned
    BY DEF BotInv, NotBegun
  <2>2. /\ m \in Messages /\ t[2] \in {"dispatched", "reacted"} /\ t[3] \in Nat /\ t[3] >= 1
        /\ t[3] <= fate[m][t[2]]
    BY <2>1, WebhookHandlerAssumption DEF Spawned, Tasks
  <2>3. fate[m] \in [Fates -> Nat] /\ Attempts(m, "read") \in Nat
    BY <2>2, AttemptsType DEF TypeInv, TypeOK
  <2>4. fate[m]["dispatched"] \in Nat /\ fate[m]["reacted"] \in Nat /\ fate[m]["limited"] \in Nat
    BY <2>3 DEF Fates
  <2>5. fate[m][t[2]] > 0
    <3>1. fate[m][t[2]] \in Nat
      BY <2>2, <2>4
    <3> QED
      BY <2>2, <3>1
  <2>6. body[m] \in {"text", "reaction"} /\ IsAllowed(Sender[m])
    BY <2>2, <2>5 DEF BodyInv, KindOfBody, UnlistedIsOnlyDenied
  <2>7. t[2] = "dispatched" => t[3] <= Attempts(m, "read")
    <3>1. fate[m]["dispatched"] + fate[m]["limited"] <= Attempts(m, "read")
      BY <2>2 DEF ReceiptsComeFirst
    <3>2. fate[m]["dispatched"] <= Attempts(m, "read")
      BY <2>3, <2>4, <3>1
    <3> QED
      BY <2>2, <2>3, <2>4, <3>2, SMTT(30)
  <2> QED
    BY <2>6, <2>7
<1> QED
  BY <1>1, BotInvariance, BotIsWebhookHandler, BodyInvariance,
     WebhookHandlerUnlistedIsOnlyDenied, WebhookHandlerReceiptsComeFirst, PTL

\* Who gets no answer to an acknowledged message gets none for a reason, of which a
\* timestamp that the server's clock did not like is one: no message just vanishes
\* between the calls and the tasks (server/mod.rs).
THEOREM BotSilenceHasAReason == BotSpec => []SilenceHasAReason
<1>1. TypeInv /\ BotInv /\ AcknowledgedIsSettled => SilenceHasAReason
  <2> SUFFICES ASSUME TypeInv, BotInv, AcknowledgedIsSettled, NEW m \in Messages,
                      gateway[m] = "acked", InFlight(m) = {}, EndedTasks(m) = TasksOf(m),
                      \A n \in 1..Len(chat) : chat[n][1][1] # m,
                      Acceptable(m), status[m] # "retired", m \notin mistimed,
                      \A f \in Fates \ Kinds : ~(fate[m][f] > 0)
               PROVE  \E t \in TasksOf(m) :
                        \/ stage[t] \in {"panicked", "lost"}
                        \/ \E i \in DOMAIN plan[t] : plan[t][i] = << >>
                        \/ \E i \in DOMAIN outcome[t] : outcome[t][i] = "failed"
    BY DEF SilenceHasAReason, Kinds
  <2>1. Settled(m) > 0 /\ fate[m] \in [Fates -> Nat]
    BY DEF AcknowledgedIsSettled, TypeInv, TypeOK
  <2>2. fate[m]["dispatched"] + fate[m]["reacted"] > 0
    <3>1. \A f \in Fates \ Kinds : fate[m][f] = 0
      BY <2>1
    <3> QED
      BY <2>1, <3>1 DEF Settled, Fates, Kinds
  <2>3. TasksOf(m) # {}
    BY <2>2, FS_EmptySet DEF BotInv, Taken
  <2>4. PICK t : t \in TasksOf(m)
    BY <2>3
  <2>5. t \in Tasks /\ t[1] = m /\ stage[t] \in Processing!Ended
    BY <2>4 DEF TasksOf, EndedTasks, Spawned
  <2>6. CASE stage[t] = "done"
    <3>1. \A n \in 1..Len(chat) : chat[n][1] # t
      BY <2>5
    <3>2. /\ 1 \in DOMAIN plan[t] /\ 1 \in DOMAIN outcome[t]
          /\ plan[t][1] = << >> \/ outcome[t][1] = "failed"
      BY <2>5, <2>6, <3>1, WorkingAssumption, Working!SilentWhenDone DEF BotInv
    <3> QED
      BY <2>4, <3>2
  <2> QED
    BY <2>4, <2>5, <2>6 DEF Processing!Ended
<1> QED
  BY <1>1, BotInvariance, BotIsWebhookHandler, WebhookHandlerAcknowledgedIsSettled, PTL

=============================================================================
