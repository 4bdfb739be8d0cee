------------------------- MODULE MessageProcessing -------------------------
(***************************************************************************)
(* What becomes of a message after the webhook handler has spawned a task  *)
(* for it: the bot's handler is called, and what it returns is sent to the *)
(* user (server/mod.rs), files and images by way of uploads (client.rs).   *)
(*                                                                         *)
(* A task for a text or a location processes one context.  A task for a    *)
(* reaction processes one context for each message ID of the reaction, one *)
(* after the other.  Tasks of one user run at the same time.               *)
(*                                                                         *)
(* The typing indicator that a task lends to the bot's handler is modelled *)
(* in TypingHandle; here it is one step that comes to an end.              *)
(***************************************************************************)
EXTENDS Naturals, Sequences, FiniteSets

CONSTANTS
  Tasks,       \* spawned tasks, all of one user
  Reactions,   \* those that process a reaction
  MaxIds,      \* how many message IDs a reaction has
  Plans        \* what the bot's handler may return

(* Responses by what happens to them.  mislabelled: an image whose media type
   is not one of an image; huge: a file whose size does not fit in 32 bits.
   "help" and "error" are the texts that the server itself sends.           *)
Responses == {"text", "file", "image", "mislabelled", "huge"}
ServerTexts == {"help", "error"}

\* Action: Ignore and an empty Respond are << >>; ShowHelp is ShowHelp.
ShowHelp == <<"showHelp">>

ASSUME MessageProcessingAssumption ==
  /\ Reactions \subseteq Tasks
  /\ MaxIds \in Nat \ {0}
  /\ Plans \subseteq Seq(Responses) \cup {ShowHelp}

Contexts(t) == IF t \in Reactions THEN 1..MaxIds ELSE {1}

VARIABLES
  pc,         \* pc[t]: where task t is
  item,       \* item[t]: the context it processes
  plan,       \* plan[t][i]: what it sends, or has sent, for context i
  pos,        \* pos[t]: the response it is sending
  blobs,      \* blobs[t]: the blobs it has uploaded for that response
  chat,       \* what the user has received: <<task, context, position>>
  announced,  \* announced[t][i]: how often on_response_sent has succeeded
  outcome,    \* outcome[t][i]: "open", "ok" or "failed"
  orphans,    \* orphans[t]: uploaded blobs that no message refers to
  answered,   \* the tasks whose webhook call is answered
  crashed     \* the process has restarted

vars == <<pc, item, plan, pos, blobs, chat, announced, outcome, orphans,
          answered, crashed>>

Sending == {"lookup", "upload", "thumbnail", "build", "send"}
Callbacks == {"handler", "help", "announce"}
Ended == {"done", "panicked", "lost"}

TypeOK ==
  /\ pc \in [Tasks -> {"typing", "act"} \cup Callbacks \cup Sending \cup Ended]
  /\ \A t \in Tasks :
       /\ item[t] \in Contexts(t)
       /\ plan[t] \in [Contexts(t) -> Seq(Responses \cup ServerTexts) \cup {ShowHelp}]
       /\ announced[t] \in [Contexts(t) -> Nat]
       /\ outcome[t] \in [Contexts(t) -> {"open", "ok", "failed"}]
  /\ pos \in [Tasks -> Nat]
  /\ blobs \in [Tasks -> 0..2]
  /\ chat \in Seq(Tasks \X (1..MaxIds) \X Nat)
  /\ orphans \in [Tasks -> Nat]
  /\ answered \subseteq Tasks
  /\ crashed \in BOOLEAN

\* The tasks have been spawned.
Init ==
  /\ pc = [t \in Tasks |-> "handler"]
  /\ item = [t \in Tasks |-> 1]
  /\ plan = [t \in Tasks |-> [i \in Contexts(t) |-> << >>]]
  /\ pos = [t \in Tasks |-> 0]
  /\ blobs = [t \in Tasks |-> 0]
  /\ chat = << >>
  /\ announced = [t \in Tasks |-> [i \in Contexts(t) |-> 0]]
  /\ outcome = [t \in Tasks |-> [i \in Contexts(t) |-> "open"]]
  /\ orphans = [t \in Tasks |-> 0]
  /\ answered = {}
  /\ crashed = FALSE

-----------------------------------------------------------------------------

Goto(t, stage) == pc' = [pc EXCEPT ![t] = stage]

Decide(t, responses) == plan' = [plan EXCEPT ![t][item[t]] = responses]

\* The response that t is sending.
Current(t) == plan[t][item[t]][pos[t]]

\* Texts are sent with the key that the webhook handler has looked up; the
\* client looks it up again for files and images.
FirstStage(response) ==
  IF response \in {"text"} \cup ServerTexts THEN "send" ELSE "lookup"

\* Faulty: the loop over the contexts counts past the last one ...
ConcludePastEnd(t, result) ==
  /\ outcome' = [outcome EXCEPT ![t][item[t]] = result]
  /\ Goto(t, IF item[t] + 1 \in Contexts(t) THEN "handler" ELSE "done")
  /\ item' = [item EXCEPT ![t] = @ + 1]
  /\ pos' = [pos EXCEPT ![t] = 0]
  /\ blobs' = [blobs EXCEPT ![t] = 0]

\* ... or starts over with the same one.
ConcludeAgain(t, result) ==
  /\ outcome' = [outcome EXCEPT ![t][item[t]] = result]
  /\ Goto(t, IF item[t] + 1 \in Contexts(t) THEN "handler" ELSE "done")
  /\ pos' = [pos EXCEPT ![t] = 0]
  /\ blobs' = [blobs EXCEPT ![t] = 0]
  /\ UNCHANGED item

\* The context of t comes to an end, and the task with the last one.
Conclude(t, result) ==
  /\ outcome' = [outcome EXCEPT ![t][item[t]] = result]
  /\ IF item[t] + 1 \in Contexts(t)
     THEN Goto(t, "handler") /\ item' = [item EXCEPT ![t] = @ + 1]
     ELSE Goto(t, "done") /\ UNCHANGED item
  /\ pos' = [pos EXCEPT ![t] = 0]
  /\ blobs' = [blobs EXCEPT ![t] = 0]

\* t sends response n of its plan, or is through with it.
Proceed(t, n) ==
  IF n <= Len(plan[t][item[t]])
  THEN /\ pos' = [pos EXCEPT ![t] = n]
       /\ Goto(t, FirstStage(plan[t][item[t]][n]))
       /\ UNCHANGED <<item, outcome, blobs>>
  ELSE Conclude(t, "ok")

\* Faulty: a response that fails is left out, and the next one is sent ...
SkipResponse(t) ==
  /\ Proceed(t, pos[t] + 1)
  /\ orphans' = [orphans EXCEPT ![t] = @ + blobs[t]]

\* ... or it is tried again from the start.
TryAgain(t) ==
  /\ Goto(t, FirstStage(Current(t)))
  /\ blobs' = [blobs EXCEPT ![t] = 0]
  /\ orphans' = [orphans EXCEPT ![t] = @ + blobs[t]]
  /\ UNCHANGED <<item, pos, outcome>>

\* An error in sending: the rest of the plan is given up, and what has been
\* uploaded for the current response stays behind.
GiveUp(t) ==
  /\ Conclude(t, "failed")
  /\ orphans' = [orphans EXCEPT ![t] = @ + blobs[t]]

-----------------------------------------------------------------------------

\* The webhook handler, which has spawned t, answers its call; nothing orders
\* that and the steps of t.
Answer(t) ==
  /\ t \notin answered
  /\ answered' = answered \cup {t}
  /\ UNCHANGED <<pc, item, plan, pos, blobs, chat, announced, outcome, orphans, crashed>>

\* The typing handle is stopped before anything is sent; there is none for a
\* reaction.
Handled(t) == Goto(t, IF t \in Reactions THEN "act" ELSE "typing")

HandlerReturns(t) ==
  /\ pc[t] = "handler"
  /\ \E responses \in Plans : Decide(t, responses)
  /\ Handled(t)
  /\ UNCHANGED <<item, pos, blobs, chat, announced, outcome, orphans, answered, crashed>>

\* The built-in help command, and an unknown command of a bot that does not
\* handle them: the bot's handler is not called.
SkipHandler(t) ==
  /\ pc[t] = "handler"
  /\ t \notin Reactions
  /\ Decide(t, ShowHelp)
  /\ Handled(t)
  /\ UNCHANGED <<item, pos, blobs, chat, announced, outcome, orphans, answered, crashed>>

\* Faulty: an error ends the task of a reaction.
HandlerFailsForGood(t) ==
  /\ pc[t] = "handler"
  /\ IF t \in Reactions
     THEN /\ outcome' = [outcome EXCEPT ![t][item[t]] = "failed"]
          /\ Goto(t, "done")
          /\ UNCHANGED <<item, plan, pos, blobs>>
     ELSE /\ Decide(t, <<"error">>)
          /\ Handled(t)
          /\ UNCHANGED <<item, pos, blobs, outcome>>
  /\ UNCHANGED <<chat, announced, orphans, answered, crashed>>

\* The user is told of an error, unless it was in handling a reaction.
HandlerFails(t) ==
  /\ pc[t] = "handler"
  /\ IF t \in Reactions
     THEN Conclude(t, "failed") /\ UNCHANGED plan
     ELSE /\ Decide(t, <<"error">>)
          /\ Handled(t)
          /\ UNCHANGED <<item, pos, blobs, outcome>>
  /\ UNCHANGED <<chat, announced, orphans, answered, crashed>>

StopTyping(t) ==
  /\ pc[t] = "typing"
  /\ Goto(t, "act")
  /\ UNCHANGED <<item, plan, pos, blobs, chat, announced, outcome, orphans,
                 answered, crashed>>

\* handle_action.
Act(t) ==
  /\ pc[t] = "act"
  /\ IF plan[t][item[t]] = ShowHelp
     THEN Goto(t, "help") /\ UNCHANGED <<item, pos, blobs, outcome>>
     ELSE Proceed(t, 1)
  /\ UNCHANGED <<plan, chat, announced, orphans, answered, crashed>>

\* help_visibility returns: with an error, the help is not shown at all.
HelpReturns(t) ==
  /\ pc[t] = "help"
  /\ \E text \in ServerTexts : Decide(t, <<text>>)
  /\ Goto(t, "send")
  /\ pos' = [pos EXCEPT ![t] = 1]
  /\ UNCHANGED <<item, blobs, chat, announced, outcome, orphans, answered, crashed>>

-----------------------------------------------------------------------------

LookupReturns(t) ==
  /\ pc[t] = "lookup"
  /\ Current(t) # "mislabelled"
  /\ Goto(t, "upload")
  /\ UNCHANGED <<item, plan, pos, blobs, chat, announced, outcome, orphans,
                 answered, crashed>>

\* The file is uploaded; an image has a thumbnail unless that could not be made.
UploadReturns(t) ==
  /\ pc[t] = "upload"
  /\ blobs' = [blobs EXCEPT ![t] = @ + 1]
  /\ \/ Current(t) = "image" /\ Goto(t, "thumbnail")
     \/ Goto(t, "build")
  /\ UNCHANGED <<item, plan, pos, chat, announced, outcome, orphans, answered, crashed>>

ThumbnailReturns(t) ==
  /\ pc[t] = "thumbnail"
  /\ blobs' = [blobs EXCEPT ![t] = @ + 1]
  /\ Goto(t, "build")
  /\ UNCHANGED <<item, plan, pos, chat, announced, outcome, orphans, answered, crashed>>

\* The message that refers to the blobs is built.
Build(t) ==
  /\ pc[t] = "build"
  /\ Current(t) # "huge"
  /\ Goto(t, "send")
  /\ UNCHANGED <<item, plan, pos, blobs, chat, announced, outcome, orphans,
                 answered, crashed>>

\* The user receives the current response.
Receive(t) == chat' = Append(chat, <<t, item[t], pos[t]>>)

\* on_response_sent follows what the bot's handler returned, and not what the
\* server says.
SendReturns(t) ==
  /\ pc[t] = "send"
  /\ Receive(t)
  /\ IF Current(t) \in ServerTexts
     THEN Conclude(t, "ok")
     ELSE /\ Goto(t, "announce")
          /\ blobs' = [blobs EXCEPT ![t] = 0]
          /\ UNCHANGED <<item, pos, outcome>>
  /\ UNCHANGED <<plan, announced, orphans, answered, crashed>>

AnnounceReturns(t) ==
  /\ pc[t] = "announce"
  /\ announced' = [announced EXCEPT ![t][item[t]] = @ + 1]
  /\ Proceed(t, pos[t] + 1)
  /\ UNCHANGED <<plan, chat, orphans, answered, crashed>>

\* Lookup, encryption or encoding, an upload or the request fails.  A failed
\* request may have reached the Gateway.
SendFails(t) ==
  /\ pc[t] \in Sending
  /\ GiveUp(t)
  /\ UNCHANGED <<plan, chat, announced, answered, crashed>>

AnswerLost(t) ==
  /\ pc[t] = "send"
  /\ Receive(t)
  /\ Conclude(t, "failed")
  /\ UNCHANGED <<plan, announced, orphans, answered, crashed>>

\* Faulty: an error of on_response_sent is ignored.
AnnounceErrorIgnored(t) ==
  /\ pc[t] = "announce"
  /\ Proceed(t, pos[t] + 1)
  /\ UNCHANGED <<plan, chat, announced, orphans, answered, crashed>>

\* on_response_sent returns an error.
AnnounceFails(t) ==
  /\ pc[t] = "announce"
  /\ GiveUp(t)
  /\ UNCHANGED <<plan, chat, announced, answered, crashed>>

\* A callback of the bot panics, or the size of a file does not fit: the task
\* ends on the spot.
Panic(t) ==
  /\ \/ pc[t] \in Callbacks
     \/ pc[t] = "build" /\ Current(t) = "huge"
  /\ Goto(t, "panicked")
  /\ orphans' = [orphans EXCEPT ![t] = @ + blobs[t]]
  /\ blobs' = [blobs EXCEPT ![t] = 0]
  /\ UNCHANGED <<item, plan, pos, chat, announced, outcome, answered, crashed>>

\* The process restarts: those of its tasks that have not ended are gone.
Lose(S) ==
  /\ pc' = [t \in Tasks |-> IF t \in S /\ pc[t] \notin Ended THEN "lost" ELSE pc[t]]
  /\ orphans' = [t \in Tasks |-> orphans[t] + blobs[t]]
  /\ blobs' = [t \in Tasks |-> 0]
  /\ UNCHANGED <<item, plan, pos, chat, announced, outcome>>

Crash ==
  /\ ~crashed
  /\ crashed' = TRUE
  /\ Lose(Tasks)
  /\ UNCHANGED answered

Run(t) ==
  \/ HandlerReturns(t)
  \/ SkipHandler(t)
  \/ HandlerFails(t)
  \/ StopTyping(t)
  \/ Act(t)
  \/ HelpReturns(t)
  \/ LookupReturns(t)
  \/ UploadReturns(t)
  \/ ThumbnailReturns(t)
  \/ Build(t)
  \/ SendReturns(t)
  \/ AnnounceReturns(t)
  \/ SendFails(t)
  \/ AnswerLost(t)
  \/ AnnounceFails(t)
  \/ Panic(t)

Next ==
  \/ \E t \in Tasks : Answer(t)
  \/ \E t \in Tasks : Run(t)
  \/ Crash

\* The runtime schedules every task, requests come to an end, and so do the
\* callbacks of the bot.
Spec == Init /\ [][Next]_vars /\ \A t \in Tasks : WF_vars(Run(t))

-----------------------------------------------------------------------------

\* Where the chat holds what the user has received of context i of t.
Received(t, i) == {n \in 1..Len(chat) : chat[n][1] = t /\ chat[n][2] = i}

\* However the tasks of a user interleave, and whichever sending fails, the user
\* receives a prefix of each plan, in its order and without gaps, and the plans
\* of one task one after the other (server/mod.rs: responses are sent one by
\* one, and after a failure the following ones are not).
InOrder ==
  /\ \A t \in Tasks : \A i \in Contexts(t) :
       /\ Cardinality(Received(t, i)) <= Len(plan[t][i])
       /\ \A n \in Received(t, i) :
            chat[n][3] = Cardinality({k \in Received(t, i) : k <= n})
  /\ \A a, b \in 1..Len(chat) :
       a < b /\ chat[a][1] = chat[b][1] => chat[a][2] <= chat[b][2]

\* The bot's handler is told of each response that the user received, but for
\* the last one of a task that has not come to the point or has failed, and of
\* no other (handler.rs: on_response_sent is called after a response is sent).
AnnouncedOnce ==
  \A t \in Tasks : \A i \in Contexts(t) :
    LET received == Cardinality(Received(t, i))
        own == plan[t][i] \in Seq(Responses)
    IN  /\ announced[t][i] <= received
        /\ received <= announced[t][i] + 1
        /\ outcome[t][i] = "ok" =>
             received = Len(plan[t][i]) /\ (own => announced[t][i] = received)

\* Each context leaves at most the two blobs of one response behind, and only
\* when it failed or its task ended on the spot (client.rs: a blob is uploaded
\* before the message that refers to it is sent).
FewOrphans ==
  \A t \in Tasks :
    orphans[t] <= 2 * (Cardinality({i \in Contexts(t) : outcome[t][i] = "failed"})
                       + IF pc[t] \in {"panicked", "lost"} THEN 1 ELSE 0)

\* A context that has come to an end is left alone: its plan is not changed, and
\* the user receives no more of it, while the task goes on with the next one.
ConcludedForGood ==
  [][\A t \in Tasks : \A i \in Contexts(t) :
       outcome[t][i] # "open" =>
         /\ outcome'[t][i] = outcome[t][i]
         /\ plan'[t][i] = plan[t][i]
         /\ Received(t, i)' = Received(t, i)
         /\ \A n \in Received(t, i) : chat'[n] = chat[n]]_vars

\* Every message ID of a reaction is handled, also when an earlier one failed
\* (server/mod.rs: errors are logged in the loop over the contexts), unless the
\* task ends on the spot.
EveryContextConcluded ==
  \A t \in Tasks :
    pc[t] = "handler" ~> \/ pc[t] \in {"panicked", "lost"}
                         \/ \A i \in Contexts(t) : outcome[t][i] # "open"

\* help_visibility is called before the HTTP response is returned
\* (handler.rs says so).
HelpIsInline == \A t \in Tasks : pc[t] = "help" => t \notin answered

=============================================================================
