---------------------- MODULE MessageProcessingProofs ----------------------
(***************************************************************************)
(* The processing of messages, for any number of tasks and message IDs and *)
(* any plans.                                                              *)
(*                                                                         *)
(* The chat is one sequence for all tasks, so what a user received in a    *)
(* context is the set of its places in it (Received), and how much is the  *)
(* size of that set (Got).  The invariant relates it, for every context,   *)
(* to the plan, to what was announced and to the outcome (Context), for    *)
(* the current one also to the stage and the position of the task (Stage), *)
(* and to the order of the chat (Ordered).  Each step moves one task: the  *)
(* others keep their part of the invariant, which reads the chat only at   *)
(* their own places.                                                       *)
(***************************************************************************)
EXTENDS MessageProcessing, FiniteSetTheorems, TLAPS

\* The sets that the type invariant of a task is made of.
Stages == {"typing", "act"} \cup Callbacks \cup Sending \cup Ended
OwnPlans == Seq(Responses)
ServerPlans == {<<text>> : text \in ServerTexts}
Sendable == Seq(Responses \cup ServerTexts)

\* How much the user has received of context i of t.
Got(t, i) == Cardinality(Received(t, i))

\* The contexts whose outcome is a failure.
Failed(t) == {i \in Contexts(t) : outcome[t][i] = "failed"}

\* What every task's variables are functions of.
Domains ==
  /\ pc \in [Tasks -> Stages] /\ DOMAIN item = Tasks
  /\ DOMAIN plan = Tasks /\ DOMAIN announced = Tasks /\ DOMAIN outcome = Tasks
  /\ pos \in [Tasks -> Nat] /\ blobs \in [Tasks -> Nat] /\ orphans \in [Tasks -> Nat]

Typed(t) ==
  /\ item[t] \in Contexts(t)
  /\ plan[t] \in [Contexts(t) -> Sendable \cup {ShowHelp}]
  /\ announced[t] \in [Contexts(t) -> Nat]
  /\ outcome[t] \in [Contexts(t) -> {"open", "ok", "failed"}]

\* How a context stands that a task has been through, is at, or has ahead.
Context(t, i) ==
  /\ Got(t, i) <= Len(plan[t][i])
  /\ announced[t][i] <= Got(t, i)
  /\ Got(t, i) <= announced[t][i] + 1
  /\ outcome[t][i] = "ok" =>
       Got(t, i) = Len(plan[t][i])
         /\ (plan[t][i] \in OwnPlans => announced[t][i] = Got(t, i))
  /\ i < item[t] => outcome[t][i] # "open"
  /\ i > item[t] => outcome[t][i] = "open" /\ Got(t, i) = 0

\* What the stage of a task says of its current context.
Stage(t) ==
  LET i == item[t]
  IN  /\ pc[t] \in {"handler", "typing", "act", "help"} =>
           Got(t, i) = 0 /\ pos[t] = 0
      /\ pc[t] \in {"typing", "act"} =>
           plan[t][i] \in OwnPlans \cup ServerPlans \cup {ShowHelp}
      /\ pc[t] \in Sending =>
           /\ plan[t][i] \in OwnPlans \cup ServerPlans
           /\ pos[t] \in 1..Len(plan[t][i])
           /\ pos[t] = Got(t, i) + 1
           /\ announced[t][i] = Got(t, i)
      /\ pc[t] = "announce" =>
           /\ plan[t][i] \in OwnPlans
           /\ pos[t] \in 1..Len(plan[t][i])
           /\ pos[t] = Got(t, i)
           /\ announced[t][i] + 1 = Got(t, i)
      /\ pc[t] \notin Ended <=> outcome[t][i] = "open" /\ pc[t] \notin {"panicked", "lost"}
      /\ pc[t] = "done" => i + 1 \notin Contexts(t)

\* Blobs that are uploaded but not yet sent are of the current response, and two
\* at most; those left behind are of failures, or of a panic.
Uploads(t) ==
  /\ pc[t] = "thumbnail" => blobs[t] = 1
  /\ pc[t] \notin {"thumbnail", "build", "send"} => blobs[t] = 0
  /\ blobs[t] <= 2
  /\ orphans[t] <= 2 * (Cardinality(Failed(t))
                        + IF pc[t] \in {"panicked", "lost"} THEN 1 ELSE 0)

TaskInv(t) ==
  /\ Typed(t)
  /\ \A i \in Contexts(t) : Context(t, i)
  /\ Stage(t)
  /\ Uploads(t)

\* The chat holds the responses in the order of the plans.
Ordered ==
  /\ chat \in Seq(Tasks \X (1..MaxIds) \X Nat)
  /\ \A n \in 1..Len(chat) : chat[n][2] <= item[chat[n][1]]
  /\ \A t \in Tasks : \A i \in Contexts(t) : \A n \in Received(t, i) :
       chat[n][3] = Cardinality({k \in Received(t, i) : k <= n})
  /\ \A a, b \in 1..Len(chat) :
       a < b /\ chat[a][1] = chat[b][1] => chat[a][2] <= chat[b][2]

IInv == Domains /\ Ordered /\ \A t \in Tasks : TaskInv(t)

-----------------------------------------------------------------------------

\* A task takes its contexts up in their order, from the first to the last.
LEMMA ContextsAre ==
  ASSUME NEW t \in Tasks
  PROVE  /\ Contexts(t) \subseteq 1..MaxIds
         /\ 1 \in Contexts(t)
         /\ IsFiniteSet(Contexts(t))
         /\ \A i \in Contexts(t) : i + 1 \notin Contexts(t) =>
              \A k \in Contexts(t) : k <= i
<1>1. IsFiniteSet(1..MaxIds)
  BY MessageProcessingAssumption, FS_Interval
<1> QED
  BY <1>1, MessageProcessingAssumption, FS_Subset DEF Contexts

LEMMA GotType ==
  ASSUME chat \in Seq(Tasks \X (1..MaxIds) \X Nat)
  PROVE  \A t, i : IsFiniteSet(Received(t, i)) /\ Got(t, i) \in Nat
<1>1. IsFiniteSet(1..Len(chat))
  BY FS_Interval
<1> QED
  BY <1>1, FS_Subset, FS_CardinalityType DEF Received, Got

LEMMA FailedType ==
  ASSUME NEW t \in Tasks
  PROVE  IsFiniteSet(Failed(t)) /\ Cardinality(Failed(t)) \in Nat
BY ContextsAre, FS_Subset, FS_CardinalityType DEF Failed

\* A response is received: the chat grows by it, and by nothing else.
LEMMA ReceiveGrows ==
  ASSUME Domains, Ordered, NEW t \in Tasks, Typed(t), Receive(t)
  PROVE  /\ chat' \in Seq(Tasks \X (1..MaxIds) \X Nat)
         /\ Len(chat') = Len(chat) + 1
         /\ chat'[Len(chat) + 1] = <<t, item[t], pos[t]>>
         /\ \A n \in 1..Len(chat) : chat'[n] = chat[n]
         /\ \A u, i :
              Received(u, i)' = IF u = t /\ i = item[t] THEN Received(u, i) \cup {Len(chat) + 1}
                                                        ELSE Received(u, i)
<1>1. <<t, item[t], pos[t]>> \in Tasks \X (1..MaxIds) \X Nat
  BY ContextsAre DEF Domains, Typed
<1>2. /\ chat' \in Seq(Tasks \X (1..MaxIds) \X Nat)
      /\ Len(chat') = Len(chat) + 1
      /\ chat'[Len(chat) + 1] = <<t, item[t], pos[t]>>
      /\ \A n \in 1..Len(chat) : chat'[n] = chat[n]
  BY <1>1 DEF Receive, Ordered
<1>3. Len(chat) \in Nat
  BY DEF Ordered
<1>4. 1..Len(chat') = (1..Len(chat)) \cup {Len(chat) + 1}
  BY <1>2, <1>3
<1>5. chat'[Len(chat) + 1][1] = t /\ chat'[Len(chat) + 1][2] = item[t]
  BY <1>2
<1>6. ASSUME NEW u, NEW i
      PROVE  Received(u, i)' = IF u = t /\ i = item[t] THEN Received(u, i) \cup {Len(chat) + 1}
                                                        ELSE Received(u, i)
  BY <1>2, <1>4, <1>5 DEF Received
<1> QED
  BY <1>2, <1>6

-----------------------------------------------------------------------------

\* What a task does changes its own entries only.
LEMMA ConcludeChanges ==
  ASSUME Domains, NEW t \in Tasks, NEW result, Conclude(t, result)
  PROVE  /\ pc' = [pc EXCEPT ![t] = IF item[t] + 1 \in Contexts(t) THEN "handler" ELSE "done"]
         /\ pc' \in [Tasks -> Stages]
         /\ item'[t] = IF item[t] + 1 \in Contexts(t) THEN item[t] + 1 ELSE item[t]
         /\ DOMAIN item' = Tasks /\ \A u \in Tasks \ {t} : item'[u] = item[u]
         /\ outcome' = [outcome EXCEPT ![t][item[t]] = result]
         /\ pos' = [pos EXCEPT ![t] = 0] /\ pos' \in [Tasks -> Nat]
         /\ blobs' = [blobs EXCEPT ![t] = 0] /\ blobs' \in [Tasks -> Nat]
<1>1. CASE item[t] + 1 \in Contexts(t)
  BY <1>1 DEF Conclude, Goto, Domains, Stages, Callbacks
<1>2. CASE item[t] + 1 \notin Contexts(t)
  BY <1>2 DEF Conclude, Goto, Domains, Stages, Ended
<1> QED
  BY <1>1, <1>2

LEMMA ConcludeSettles ==
  ASSUME Domains, NEW t \in Tasks, NEW result, Conclude(t, result)
  PROVE  outcome'[t] = [outcome[t] EXCEPT ![item[t]] = result]
BY DEF Conclude, Domains

LEMMA FirstStages ==
  \A response : FirstStage(response) \in {"send", "lookup"}
BY DEF FirstStage

LEMMA OthersStay ==
  ASSUME Domains, NEW t \in Tasks, Run(t)
  PROVE  /\ Domains'
         /\ \A u \in Tasks \ {t} :
              /\ pc'[u] = pc[u] /\ item'[u] = item[u] /\ plan'[u] = plan[u]
              /\ pos'[u] = pos[u] /\ blobs'[u] = blobs[u] /\ orphans'[u] = orphans[u]
              /\ announced'[u] = announced[u] /\ outcome'[u] = outcome[u]
<1> DEFINE Fine ==
      /\ Domains'
      /\ \A u \in Tasks \ {t} :
           /\ pc'[u] = pc[u] /\ item'[u] = item[u] /\ plan'[u] = plan[u]
           /\ pos'[u] = pos[u] /\ blobs'[u] = blobs[u] /\ orphans'[u] = orphans[u]
           /\ announced'[u] = announced[u] /\ outcome'[u] = outcome[u]
<1> USE DEF Stages, Callbacks, Sending, Ended
<1>1. ASSUME NEW result, Conclude(t, result),
             UNCHANGED orphans \/ orphans' = [orphans EXCEPT ![t] = @ + blobs[t]],
             DOMAIN plan' = Tasks, \A u \in Tasks \ {t} : plan'[u] = plan[u],
             DOMAIN announced' = Tasks, \A u \in Tasks \ {t} : announced'[u] = announced[u]
      PROVE  Fine
  <2>1. orphans' \in [Tasks -> Nat] /\ \A u \in Tasks \ {t} : orphans'[u] = orphans[u]
    BY <1>1 DEF Domains
  <2> QED
    BY <1>1, <2>1, ConcludeChanges DEF Domains
<1>2. ASSUME NEW n \in Nat, Proceed(t, n), UNCHANGED <<plan, orphans>>,
             DOMAIN announced' = Tasks, \A u \in Tasks \ {t} : announced'[u] = announced[u]
      PROVE  Fine
  <2>1. CASE Conclude(t, "ok")
    BY <1>1, <1>2, <2>1 DEF Domains
  <2>2. CASE ~Conclude(t, "ok")
    BY <1>2, <2>2, FirstStages DEF Proceed, Goto, Domains
  <2> QED
    BY <2>1, <2>2
<1>3. CASE HandlerReturns(t) \/ SkipHandler(t)
  BY <1>3 DEF HandlerReturns, SkipHandler, Decide, Handled, Goto, Domains
<1>4. CASE HandlerFails(t)
  <2>1. CASE t \in Reactions
    BY <1>1, <1>4, <2>1 DEF HandlerFails, Domains
  <2>2. CASE t \notin Reactions
    BY <1>4, <2>2 DEF HandlerFails, Decide, Handled, Goto, Domains
  <2> QED
    BY <2>1, <2>2
<1>5. CASE StopTyping(t) \/ LookupReturns(t) \/ Build(t)
  BY <1>5 DEF StopTyping, LookupReturns, Build, Goto, Domains
<1>6. CASE Act(t)
  <2>1. CASE plan[t][item[t]] = ShowHelp
    BY <1>6, <2>1 DEF Act, Goto, Domains
  <2>2. CASE plan[t][item[t]] # ShowHelp
    BY <1>2, <1>6, <2>2 DEF Act, Domains
  <2> QED
    BY <2>1, <2>2
<1>7. CASE HelpReturns(t)
  BY <1>7 DEF HelpReturns, Decide, Goto, Domains
<1>8. CASE UploadReturns(t) \/ ThumbnailReturns(t)
  BY <1>8 DEF UploadReturns, ThumbnailReturns, Goto, Domains
<1>9. CASE SendReturns(t)
  <2>1. CASE Conclude(t, "ok")
    BY <1>1, <1>9, <2>1 DEF SendReturns, Domains
  <2>2. CASE ~Conclude(t, "ok")
    BY <1>9, <2>2 DEF SendReturns, Goto, Domains
  <2> QED
    BY <2>1, <2>2
<1>10. CASE AnnounceReturns(t)
  <2>1. pos[t] + 1 \in Nat
    BY DEF Domains
  <2> QED
    BY <1>2, <1>10, <2>1 DEF AnnounceReturns, Domains
<1>11. CASE SendFails(t) \/ AnnounceFails(t) \/ AnswerLost(t)
  BY <1>1, <1>11 DEF SendFails, AnnounceFails, AnswerLost, GiveUp, Domains
<1>12. CASE Panic(t)
  BY <1>12 DEF Panic, Goto, Domains
<1> QED
  BY <1>3, <1>4, <1>5, <1>6, <1>7, <1>8, <1>9, <1>10, <1>11, <1>12 DEF Run

-----------------------------------------------------------------------------

LEMMA TypedContext ==
  ASSUME NEW t \in Tasks, Typed(t), NEW i \in Contexts(t)
  PROVE  /\ i \in Nat /\ item[t] \in Nat
         /\ announced[t][i] \in Nat
         /\ outcome[t][i] \in {"open", "ok", "failed"}
         /\ plan[t][i] \in Sendable \cup {ShowHelp}
         /\ Len(plan[t][i]) \in Nat
BY ContextsAre DEF Typed, Sendable, ShowHelp

\* A context that has failed makes room for the blobs of one response.
LEMMA ConcludeCounts ==
  ASSUME NEW t \in Tasks, Typed(t), NEW i, i = item[t], outcome[t][i] = "open",
         NEW result \in {"ok", "failed"},
         outcome'[t] = [outcome[t] EXCEPT ![i] = result]
  PROVE  /\ result = "failed" => Cardinality(Failed(t))' = Cardinality(Failed(t)) + 1
         /\ result = "ok" => Cardinality(Failed(t))' = Cardinality(Failed(t))
<1>1. i \in Contexts(t) /\ outcome[t] \in [Contexts(t) -> {"open", "ok", "failed"}]
  BY DEF Typed
<1>2. i \notin Failed(t)
  BY DEF Failed
<1>3. CASE result = "failed"
  <2>1. Failed(t)' = Failed(t) \cup {i}
    BY <1>1, <1>3 DEF Failed, Contexts
  <2>2. Cardinality(Failed(t) \cup {i}) = Cardinality(Failed(t)) + 1
    BY <1>2, FailedType, FS_AddElement
  <2> QED
    BY <1>3, <2>1, <2>2
<1>4. CASE result = "ok"
  <2>1. Failed(t)' = Failed(t)
    BY <1>1, <1>2, <1>4 DEF Failed, Contexts
  <2> QED
    BY <1>4, <2>1, FailedType
<1> QED
  BY <1>3, <1>4

\* What a task must have done before it concludes a context.
LEMMA ConcludeKeeps ==
  ASSUME Domains, NEW t \in Tasks, TaskInv(t), pc[t] \notin Ended,
         NEW i, i = item[t], NEW result \in {"ok", "failed"}, Conclude(t, result),
         plan'[t] = plan[t],
         announced'[t] \in [Contexts(t) -> Nat],
         \A k \in Contexts(t) \ {i} :
           announced'[t][k] = announced[t][k] /\ Got(t, k)' = Got(t, k),
         \A k \in Contexts(t) : Got(t, k) \in Nat,
         Got(t, i)' <= Len(plan[t][i]),
         Got(t, i)' \in {announced'[t][i], announced'[t][i] + 1},
         result = "ok" => /\ Got(t, i)' = Len(plan[t][i])
                          /\ plan[t][i] \in OwnPlans => announced'[t][i] = Got(t, i)',
         orphans'[t] \in Nat,
         orphans'[t] <= orphans[t] + IF result = "failed" THEN 2 ELSE 0
  PROVE  TaskInv(t)'
<1> DEFINE next == IF i + 1 \in Contexts(t) THEN i + 1 ELSE i
           stage == IF i + 1 \in Contexts(t) THEN "handler" ELSE "done"
<1>1. Typed(t) /\ i \in Contexts(t) /\ i \in Nat /\ outcome[t][i] = "open"
  BY ContextsAre, SMTT(30) DEF TaskInv, Typed, Stage, Ended
<1>2. /\ pc'[t] = stage /\ item'[t] = next
      /\ outcome'[t] = [outcome[t] EXCEPT ![i] = result]
      /\ pos'[t] = 0 /\ blobs'[t] = 0
  <2>1. pc'[t] = stage /\ item'[t] = next /\ pos'[t] = 0 /\ blobs'[t] = 0
    BY ConcludeChanges DEF Domains
  <2>2. outcome'[t] = [outcome[t] EXCEPT ![i] = result]
    BY ConcludeSettles
  <2> QED
    BY <2>1, <2>2
<1>3. Typed(t)'
  BY <1>1, <1>2 DEF Typed, Contexts
<1>4. \A k \in Contexts(t) : i + 1 \notin Contexts(t) => k <= i
  BY <1>1, ContextsAre
<1>5. ASSUME NEW k \in Contexts(t) PROVE Context(t, k)'
  <2>1. Context(t, k) /\ k \in Nat /\ outcome[t][k] \in {"open", "ok", "failed"}
    BY <1>1, TypedContext DEF TaskInv
  <2>2. CASE k = i
    <3>1. outcome'[t][i] = result /\ plan'[t][i] = plan[t][i]
      BY <1>1, <1>2 DEF Typed
    <3>2. item'[t] \in {i, i + 1} /\ i \in Nat /\ result # "open"
      BY <1>1, <1>2
    <3>3. Got(t, i)' \in Nat /\ announced'[t][i] \in Nat
      BY <1>1
    <3>4. announced'[t][i] <= Got(t, i)' /\ Got(t, i)' <= announced'[t][i] + 1
      BY <3>3
    <3>5. ~(i > item'[t])
      BY <3>2
    <3> QED
      BY <2>2, <3>1, <3>2, <3>4, <3>5 DEF Context
  <2>3. CASE k # i
    <3>1. /\ outcome'[t][k] = outcome[t][k] /\ plan'[t][k] = plan[t][k]
          /\ announced'[t][k] = announced[t][k] /\ Got(t, k)' = Got(t, k)
      BY <1>1, <1>2, <2>3 DEF Typed
    <3>2. k < next => k < i
      BY <1>1, <2>1, <2>3
    <3>3. k > next => k > i
      BY <1>1, <2>1, <2>3
    <3> QED
      BY <1>2, <2>1, <3>1, <3>2, <3>3 DEF Context
  <2> QED
    BY <2>2, <2>3
<1>6. Stage(t)'
  <2>1. CASE i + 1 \in Contexts(t)
    <3>1. outcome[t][i + 1] = "open" /\ Got(t, i + 1) = 0
      BY <1>1, <2>1 DEF TaskInv, Context
    <3>2. outcome'[t][i + 1] = "open" /\ Got(t, i + 1)' = 0
      BY <1>1, <1>2, <2>1, <3>1 DEF Typed
    <3>3. pc'[t] = "handler" /\ item'[t] = i + 1 /\ pos'[t] = 0
      BY <1>2, <2>1
    <3>4. \A k : k = item'[t] => Got(t, k)' = 0 /\ outcome'[t][k] = "open"
      BY <3>2, <3>3
    <3> QED
      BY <3>3, <3>4 DEF Stage, Sending, Ended
  <2>2. CASE i + 1 \notin Contexts(t)
    <3>1. pc'[t] = "done" /\ item'[t] = i /\ outcome'[t][i] # "open"
      BY <1>1, <1>2, <2>2 DEF Typed
    <3> QED
      BY <2>2, <3>1 DEF Stage, Sending, Ended, Contexts
  <2> QED
    BY <2>1, <2>2
<1>7. Uploads(t)'
  <2>1. outcome'[t] = [outcome[t] EXCEPT ![i] = result]
    BY <1>2
  <2>2. /\ result = "failed" => Cardinality(Failed(t))' = Cardinality(Failed(t)) + 1
        /\ result = "ok" => Cardinality(Failed(t))' = Cardinality(Failed(t))
    BY <1>1, <2>1, ConcludeCounts, ZenonT(30)
  <2>3. orphans[t] <= 2 * Cardinality(Failed(t)) /\ orphans[t] \in Nat
    BY FailedType DEF TaskInv, Uploads, Ended, Domains
  <2>4. orphans'[t] <= 2 * Cardinality(Failed(t))'
    BY <2>3, <2>2, FailedType
  <2>5. pc'[t] \in {"handler", "done"} /\ blobs'[t] = 0
    BY <1>2
  <2>6. Cardinality(Failed(t))' \in Nat
    BY <2>2, FailedType
  <2> QED
    BY <2>4, <2>5, <2>6 DEF Uploads
<1> QED
  BY <1>3, <1>5, <1>6, <1>7 DEF TaskInv, Contexts

\* ... and before it goes on with the same one.
LEMMA AdvanceKeeps ==
  ASSUME NEW t \in Tasks, TaskInv(t), pc[t] \notin Ended,
         NEW i, i = item[t], item'[t] = i, outcome'[t] = outcome[t],
         plan'[t] \in [Contexts(t) -> Sendable \cup {ShowHelp}],
         announced'[t] \in [Contexts(t) -> Nat],
         \A k \in Contexts(t) \ {i} :
           /\ plan'[t][k] = plan[t][k] /\ announced'[t][k] = announced[t][k]
           /\ Got(t, k)' = Got(t, k),
         Got(t, i)' <= Len(plan'[t][i]),
         Got(t, i)' \in {announced'[t][i], announced'[t][i] + 1},
         Stage(t)', Uploads(t)'
  PROVE  TaskInv(t)'
<1>1. Typed(t) /\ i \in Contexts(t) /\ outcome[t][i] = "open"
  BY DEF TaskInv, Typed, Stage, Ended
<1>2. Typed(t)'
  BY <1>1 DEF Typed, Contexts
<1>3. ASSUME NEW k \in Contexts(t) PROVE Context(t, k)'
  <2>1. Context(t, k) /\ k \in Nat /\ i \in Nat
    BY <1>1, ContextsAre DEF TaskInv
  <2>2. CASE k = i
    <3>1. announced'[t][i] \in Nat
      BY <1>1
    <3> QED
      BY <1>1, <2>1, <2>2, <3>1 DEF Context
  <2>3. CASE k # i
    BY <2>1, <2>3 DEF Context
  <2> QED
    BY <2>2, <2>3
<1> QED
  BY <1>2, <1>3 DEF TaskInv, Contexts

LEMMA GotStays ==
  ASSUME UNCHANGED chat
  PROVE  \A t, i : Got(t, i)' = Got(t, i)
BY DEF Got, Received

\* The next response of the plan, if there is one.
LEMMA ProceedKeeps ==
  ASSUME Domains, NEW t \in Tasks, TaskInv(t), pc[t] \in {"act", "announce"},
         NEW i, i = item[t], NEW n \in Nat, Proceed(t, n), UNCHANGED <<plan, chat, orphans>>,
         plan[t][i] \in OwnPlans \cup ServerPlans,
         Got(t, i) \in Nat, \A k \in Contexts(t) : Got(t, k) \in Nat,
         n = Got(t, i) + 1,
         announced'[t] = [announced[t] EXCEPT ![i] = Got(t, i)]
  PROVE  TaskInv(t)'
<1>1. Typed(t) /\ i \in Contexts(t) /\ Context(t, i)
  BY DEF TaskInv, Typed
<1>2. Got(t, i) <= Len(plan[t][i]) /\ Len(plan[t][i]) \in Nat
  BY <1>1, TypedContext DEF Context
<1>3. announced'[t] \in [Contexts(t) -> Nat] /\ announced'[t][i] = Got(t, i)
  BY <1>1 DEF Typed
<1>4. \A k \in Contexts(t) \ {i} : announced'[t][k] = announced[t][k]
  BY <1>1 DEF Typed
<1>5. \A k : Got(t, k)' = Got(t, k)
  BY GotStays
<1>6. orphans[t] \in Nat /\ pc[t] \notin Ended
  BY DEF Domains, Ended
<1>7. CASE n <= Len(plan[t][i])
  <2>1. /\ pos'[t] = n /\ pc'[t] \in {"send", "lookup"}
        /\ item'[t] = i /\ outcome'[t] = outcome[t] /\ blobs'[t] = blobs[t]
    BY <1>7, FirstStages DEF Proceed, Goto, Domains
  <2>2. blobs[t] = 0 /\ outcome[t][i] = "open"
    BY DEF TaskInv, Uploads, Stage, Ended
  <2>3. Stage(t)'
    BY <1>1, <1>2, <1>3, <1>5, <1>7, <2>1, <2>2 DEF Stage, Sending, Ended
  <2>4. Cardinality(Failed(t))' = Cardinality(Failed(t))
    BY <2>1 DEF Failed
  <2>5. Uploads(t)'
    BY <2>1, <2>2, <2>4 DEF TaskInv, Uploads
  <2> QED
    BY <1>1, <1>2, <1>3, <1>4, <1>5, <1>6, <2>1, <2>3, <2>5, AdvanceKeeps DEF Typed
<1>8. CASE ~(n <= Len(plan[t][i]))
  <2>1. Conclude(t, "ok")
    BY <1>8 DEF Proceed
  <2>2. Got(t, i)' = Len(plan[t][i]) /\ announced'[t][i] = Got(t, i)'
    BY <1>2, <1>3, <1>5, <1>8
  <2> QED
    BY <1>2, <1>3, <1>4, <1>5, <1>6, <2>1, <2>2, ConcludeKeeps
<1> QED
  BY <1>7, <1>8

\* A task goes on without concluding its context or sending anything.
LEMMA SilentKeeps ==
  ASSUME Domains, NEW t \in Tasks, TaskInv(t), pc[t] \notin Ended,
         NEW i, i = item[t],
         item'[t] = i, outcome'[t] = outcome[t], announced'[t] = announced[t],
         UNCHANGED chat,
         \A k : Got(t, k) \in Nat,
         \/ plan'[t] = plan[t]
         \/ /\ Got(t, i) = 0
            /\ \E responses \in Sendable \cup {ShowHelp} :
                 plan'[t] = [plan[t] EXCEPT ![i] = responses],
         Stage(t)', Uploads(t)'
  PROVE  TaskInv(t)'
<1>1. Typed(t) /\ i \in Contexts(t) /\ Context(t, i)
  BY DEF TaskInv, Typed
<1>2. \A k : Got(t, k)' = Got(t, k)
  BY GotStays
<1>3. Got(t, i) <= Len(plan[t][i]) /\ Got(t, i) \in {announced[t][i], announced[t][i] + 1}
  BY <1>1, TypedContext DEF Context
<1>4. CASE plan'[t] = plan[t]
  BY <1>1, <1>2, <1>3, <1>4, AdvanceKeeps DEF Typed
<1>5. ASSUME Got(t, i) = 0, NEW responses \in Sendable \cup {ShowHelp},
             plan'[t] = [plan[t] EXCEPT ![i] = responses]
      PROVE  TaskInv(t)'
  <2>1. /\ plan'[t] \in [Contexts(t) -> Sendable \cup {ShowHelp}]
        /\ plan'[t][i] = responses /\ \A k \in Contexts(t) \ {i} : plan'[t][k] = plan[t][k]
    BY <1>1, <1>5 DEF Typed
  <2>2. Len(responses) \in Nat
    BY <1>5 DEF Sendable, ShowHelp
  <2>3. Got(t, i)' <= Len(plan'[t][i])
    BY <1>2, <1>5, <2>1, <2>2
  <2> QED
    BY <1>1, <1>2, <1>3, <2>1, <2>3, AdvanceKeeps DEF Typed
<1> QED
  BY <1>4, <1>5

LEMMA PlansAreSendable ==
  /\ OwnPlans \cup ServerPlans \subseteq Sendable
  /\ Plans \subseteq OwnPlans \cup {ShowHelp}
  /\ <<"error">> \in ServerPlans
<1>1. OwnPlans \subseteq Sendable
  BY DEF OwnPlans, Sendable
<1>2. ASSUME NEW text \in ServerTexts PROVE <<text>> \in Sendable
  <2>1. text \in Responses \cup ServerTexts
    OBVIOUS
  <2> QED
    BY <2>1 DEF Sendable
<1>3. ServerPlans \subseteq Sendable
  BY <1>2 DEF ServerPlans
<1>4. Plans \subseteq OwnPlans \cup {ShowHelp}
  BY MessageProcessingAssumption DEF OwnPlans
<1>5. <<"error">> \in ServerPlans
  BY DEF ServerPlans, ServerTexts
<1> QED
  BY <1>1, <1>3, <1>4, <1>5

LEMMA DecideKeeps ==
  ASSUME Domains, NEW t \in Tasks, TaskInv(t), pc[t] = "handler",
         \A k : Got(t, k) \in Nat,
         NEW responses \in OwnPlans \cup ServerPlans \cup {ShowHelp},
         Decide(t, responses), Handled(t),
         UNCHANGED <<item, pos, blobs, chat, announced, outcome, orphans>>
  PROVE  TaskInv(t)'
<1> DEFINE i == item[t]
<1>1. Typed(t) /\ i \in Contexts(t) /\ pc[t] \notin Ended /\ outcome[t][i] = "open"
  BY DEF TaskInv, Typed, Stage, Ended
<1>2. plan'[t] = [plan[t] EXCEPT ![i] = responses] /\ plan'[t][i] = responses
  BY <1>1 DEF Decide, Domains, Typed
<1>3. pc'[t] \in {"typing", "act"}
  BY DEF Handled, Goto, Domains
<1>4. Got(t, i) = 0 /\ pos[t] = 0 /\ Got(t, i)' = 0
  BY GotStays DEF TaskInv, Stage
<1>5. Stage(t)'
  <2>1. /\ item'[t] = i /\ Got(t, item[t])' = 0
        /\ plan'[t][item'[t]] = responses /\ outcome'[t][item'[t]] = "open"
    BY <1>1, <1>2, <1>4
  <2>2. pos'[t] = 0
    BY <1>4
  <2> QED
    BY <1>3, <2>1, <2>2 DEF Stage, Sending, Ended
<1>6. Uploads(t)'
  <2>1. Cardinality(Failed(t))' = Cardinality(Failed(t))
    BY DEF Failed
  <2> QED
    BY <1>3, <2>1 DEF TaskInv, Uploads
<1> QED
  BY <1>1, <1>2, <1>4, <1>5, <1>6, SilentKeeps, PlansAreSendable

LEMMA ReceiveCounts ==
  ASSUME Domains, Ordered, NEW t \in Tasks, Typed(t), Receive(t)
  PROVE  \A u, i : Got(u, i)' = IF u = t /\ i = item[t] THEN Got(u, i) + 1 ELSE Got(u, i)
<1> SUFFICES ASSUME NEW u, NEW i
             PROVE  Got(u, i)' = IF u = t /\ i = item[t] THEN Got(u, i) + 1 ELSE Got(u, i)
  OBVIOUS
<1>1. CASE u = t /\ i = item[t]
  <2>1. Received(u, i)' = Received(u, i) \cup {Len(chat) + 1}
    BY <1>1, ReceiveGrows
  <2>2. chat \in Seq(Tasks \X (1..MaxIds) \X Nat) /\ Len(chat) \in Nat
    BY DEF Ordered
  <2>3. Len(chat) + 1 \notin 1..Len(chat)
    BY <2>2
  <2>4. Len(chat) + 1 \notin Received(u, i)
    BY <2>3 DEF Received
  <2>5. IsFiniteSet(Received(u, i))
    BY <2>2, GotType
  <2>6. Cardinality(Received(u, i) \cup {Len(chat) + 1}) = Cardinality(Received(u, i)) + 1
    BY <2>4, <2>5, FS_AddElement
  <2> QED
    BY <1>1, <2>1, <2>6 DEF Got
<1>2. CASE ~(u = t /\ i = item[t])
  <2>1. Received(u, i)' = Received(u, i)
    BY <1>2, ReceiveGrows
  <2> QED
    BY <1>2, <2>1 DEF Got
<1> QED
  BY <1>1, <1>2

\* Each thing a task does keeps its invariant.
LEMMA RunKeepsTask ==
  ASSUME Domains, Ordered, NEW t \in Tasks, TaskInv(t), Run(t)
  PROVE  TaskInv(t)'
<1> PICK i : i = item[t]
  OBVIOUS
<1>1. /\ Typed(t) /\ i \in Contexts(t) /\ i \in Nat /\ Context(t, i)
      /\ Len(plan[t][i]) \in Nat /\ announced[t][i] \in Nat
  BY TypedContext, ContextsAre DEF TaskInv, Typed
<1>2. \A u, k : Got(u, k) \in Nat
  BY GotType DEF Ordered
<1>3. /\ pc[t] \in Stages /\ pos[t] \in Nat /\ blobs[t] \in Nat /\ blobs[t] <= 2
      /\ orphans[t] \in Nat
  BY DEF Domains, TaskInv, Uploads
<1>4. Stage(t) /\ Uploads(t)
  BY DEF TaskInv
<1>5. pc[t] \notin Ended => outcome[t][i] = "open"
  BY DEF TaskInv, Stage, Ended
<1>6. CASE HandlerReturns(t)
  BY <1>2, <1>6, DecideKeeps, PlansAreSendable DEF HandlerReturns
<1>7. CASE SkipHandler(t)
  BY <1>2, <1>7, DecideKeeps DEF SkipHandler
<1>8. ASSUME Conclude(t, "failed"), pc[t] \notin Ended,
             UNCHANGED <<plan, chat, announced>>,
             UNCHANGED orphans \/ orphans' = [orphans EXCEPT ![t] = @ + blobs[t]]
      PROVE  TaskInv(t)'
  <2>1. orphans'[t] \in Nat /\ orphans'[t] <= orphans[t] + 2
    BY <1>3, <1>8 DEF Domains
  <2>2. \A k : Got(t, k)' = Got(t, k)
    BY <1>8, GotStays
  <2>3. /\ Got(t, i)' <= Len(plan[t][i])
        /\ Got(t, i)' \in {announced'[t][i], announced'[t][i] + 1}
    BY <1>1, <1>2, <1>8, <2>2 DEF Context
  <2>4. plan'[t] = plan[t] /\ announced'[t] = announced[t]
    BY <1>8
  <2> QED
    BY <1>1, <1>2, <1>8, <2>1, <2>2, <2>3, <2>4, ConcludeKeeps DEF Typed
<1>9. CASE HandlerFails(t)
  <2>1. CASE t \in Reactions
    BY <1>8, <1>9, <2>1 DEF HandlerFails, Ended
  <2>2. CASE t \notin Reactions
    BY <1>2, <1>9, <2>2, DecideKeeps, PlansAreSendable DEF HandlerFails
  <2> QED
    BY <2>1, <2>2
<1>10. CASE StopTyping(t) \/ LookupReturns(t) \/ Build(t)
  <2>1. /\ item'[t] = i /\ outcome'[t] = outcome[t] /\ announced'[t] = announced[t]
        /\ plan'[t] = plan[t] /\ UNCHANGED chat
        /\ pos'[t] = pos[t] /\ blobs'[t] = blobs[t] /\ orphans'[t] = orphans[t]
        /\ \/ pc[t] = "typing" /\ pc'[t] = "act"
           \/ pc[t] = "lookup" /\ pc'[t] = "upload"
           \/ pc[t] = "build" /\ pc'[t] = "send"
    BY <1>10 DEF StopTyping, LookupReturns, Build, Goto, Domains
  <2>2. \A k : Got(t, k)' = Got(t, k)
    BY <2>1, GotStays
  <2>3. Stage(t)'
    BY <1>4, <2>1, <2>2 DEF Stage, Sending, Ended
  <2>4. Cardinality(Failed(t))' = Cardinality(Failed(t))
    BY <2>1 DEF Failed
  <2>5. Uploads(t)'
    BY <1>4, <2>1, <2>4 DEF Uploads
  <2> QED
    BY <1>2, <2>1, <2>3, <2>5, SilentKeeps DEF Ended
<1>11. CASE Act(t)
  <2>1. CASE plan[t][i] = ShowHelp
    <3>1. /\ item'[t] = i /\ outcome'[t] = outcome[t] /\ announced'[t] = announced[t]
          /\ plan'[t] = plan[t] /\ UNCHANGED chat
          /\ pos'[t] = pos[t] /\ blobs'[t] = blobs[t] /\ orphans'[t] = orphans[t]
          /\ pc[t] = "act" /\ pc'[t] = "help"
      BY <1>11, <2>1 DEF Act, Goto, Domains
    <3>2. \A k : Got(t, k)' = Got(t, k)
      BY <3>1, GotStays
    <3>3. Stage(t)'
      BY <1>4, <3>1, <3>2 DEF Stage, Sending, Ended
    <3>4. Cardinality(Failed(t))' = Cardinality(Failed(t))
      BY <3>1 DEF Failed
    <3>5. Uploads(t)'
      BY <1>4, <3>1, <3>4 DEF Uploads
    <3> QED
      BY <1>2, <3>1, <3>3, <3>5, SilentKeeps DEF Ended
  <2>2. CASE plan[t][i] # ShowHelp
    <3>1. /\ pc[t] = "act" /\ Proceed(t, 1) /\ UNCHANGED <<plan, chat, announced, orphans>>
          /\ plan[t][i] \in OwnPlans \cup ServerPlans /\ Got(t, i) = 0
      BY <1>4, <1>11, <2>2 DEF Act, Stage
    <3>2. announced[t] = [announced[t] EXCEPT ![i] = Got(t, i)]
      BY <1>1, <1>2, <3>1 DEF Context, Typed
    <3> QED
      BY <1>2, <3>1, <3>2, ProceedKeeps
  <2> QED
    BY <2>1, <2>2
<1>12. CASE HelpReturns(t)
  <2>1. PICK text \in ServerTexts : Decide(t, <<text>>)
    BY <1>12 DEF HelpReturns
  <2>2. /\ item'[t] = i /\ outcome'[t] = outcome[t] /\ announced'[t] = announced[t]
        /\ UNCHANGED chat /\ pos'[t] = 1 /\ blobs'[t] = blobs[t] /\ orphans'[t] = orphans[t]
        /\ pc[t] = "help" /\ pc'[t] = "send"
    BY <1>12 DEF HelpReturns, Goto, Domains
  <2>3. \A k : Got(t, k)' = Got(t, k)
    BY <2>2, GotStays
  <2>4. Got(t, i) = 0 /\ announced[t][i] = 0
    BY <1>1, <1>2, <1>4, <2>2 DEF Stage, Context
  <2>5. <<text>> \in ServerPlans /\ <<text>> \in Sendable /\ Len(<<text>>) = 1
    BY PlansAreSendable DEF ServerPlans
  <2>6. plan'[t] = [plan[t] EXCEPT ![i] = <<text>>] /\ plan'[t][i] = <<text>>
    BY <1>1, <2>1 DEF Decide, Domains, Typed
  <2>7. Stage(t)'
    <3>1. plan'[t][i] \in ServerPlans /\ Len(plan'[t][i]) = 1
      BY <2>5, <2>6
    <3>2. pos'[t] \in 1..Len(plan'[t][i]) /\ pos'[t] = Got(t, i)' + 1
      BY <2>2, <2>3, <2>4, <3>1
    <3>3. announced'[t][i] = Got(t, i)' /\ outcome'[t][i] = "open"
      BY <1>5, <2>2, <2>3, <2>4 DEF Ended
    <3> QED
      BY <2>2, <3>1, <3>2, <3>3 DEF Stage, Sending, Ended
  <2>8. Cardinality(Failed(t))' = Cardinality(Failed(t))
    BY <2>2 DEF Failed
  <2>9. Uploads(t)'
    BY <1>4, <2>2, <2>8 DEF Uploads
  <2> QED
    BY <1>2, <2>2, <2>4, <2>5, <2>6, <2>7, <2>9, SilentKeeps DEF Ended
<1>13. CASE UploadReturns(t) \/ ThumbnailReturns(t)
  <2>1. /\ item'[t] = i /\ outcome'[t] = outcome[t] /\ announced'[t] = announced[t]
        /\ plan'[t] = plan[t] /\ UNCHANGED chat /\ pos'[t] = pos[t]
        /\ orphans'[t] = orphans[t] /\ blobs'[t] = blobs[t] + 1
        /\ \/ pc[t] = "upload" /\ pc'[t] \in {"thumbnail", "build"}
           \/ pc[t] = "thumbnail" /\ pc'[t] = "build"
    BY <1>13 DEF UploadReturns, ThumbnailReturns, Goto, Domains
  <2>2. \A k : Got(t, k)' = Got(t, k)
    BY <2>1, GotStays
  <2>3. Stage(t)'
    BY <1>4, <2>1, <2>2 DEF Stage, Sending, Ended
  <2>4. Cardinality(Failed(t))' = Cardinality(Failed(t))
    BY <2>1 DEF Failed
  <2>5. Uploads(t)'
    BY <1>3, <1>4, <2>1, <2>4 DEF Uploads
  <2> QED
    BY <1>2, <2>1, <2>3, <2>5, SilentKeeps DEF Ended
<1>14. CASE SendReturns(t)
  <2>1. /\ pc[t] = "send" /\ Receive(t) /\ plan' = plan /\ announced' = announced
        /\ orphans' = orphans
    BY <1>14 DEF SendReturns
  <2>2. \A k : Got(t, k)' = IF k = i THEN Got(t, k) + 1 ELSE Got(t, k)
    BY <1>1, <2>1, ReceiveCounts
  <2>3. /\ plan[t][i] \in OwnPlans \cup ServerPlans
        /\ pos[t] \in 1..Len(plan[t][i])
        /\ pos[t] = Got(t, i)'
        /\ announced[t][i] + 1 = Got(t, i)'
        /\ Got(t, i)' <= Len(plan[t][i])
    BY <1>1, <1>2, <1>4, <2>1, <2>2 DEF Stage, Sending
  <2>4. CASE Current(t) \in ServerTexts
    <3>1. plan[t][i][pos[t]] \in ServerTexts
      BY <2>4 DEF Current
    <3>2. plan[t][i] \notin OwnPlans
      BY <2>3, <3>1 DEF OwnPlans, Responses, ServerTexts
    <3>3. Len(plan[t][i]) = 1
      BY <2>3, <3>2 DEF ServerPlans
    <3>4. Conclude(t, "ok")
      BY <1>14, <2>4 DEF SendReturns
    <3>5. Got(t, i)' = Len(plan[t][i])
      BY <1>1, <1>2, <2>2, <2>3, <3>3
    <3> QED
      BY <1>1, <1>2, <1>3, <2>1, <2>2, <2>3, <3>2, <3>4, <3>5, ConcludeKeeps, SMTT(30)
      DEF Typed, Ended
  <2>5. CASE Current(t) \notin ServerTexts
    <3>1. /\ item'[t] = i /\ outcome'[t] = outcome[t] /\ pos'[t] = pos[t]
          /\ blobs'[t] = 0 /\ pc'[t] = "announce"
      BY <1>14, <2>5 DEF SendReturns, Goto, Domains
    <3>2. plan[t][i][pos[t]] \notin ServerTexts
      BY <2>5 DEF Current
    <3>3. plan[t][i] \in OwnPlans
      BY <2>3, <3>2 DEF ServerPlans
    <3>4. Stage(t)'
      BY <1>5, <2>1, <2>3, <3>1, <3>3 DEF Stage, Sending, Ended
    <3>5. Cardinality(Failed(t))' = Cardinality(Failed(t))
      BY <3>1 DEF Failed
    <3>6. Uploads(t)'
      BY <1>4, <2>1, <3>1, <3>5 DEF Uploads
    <3> QED
      BY <1>1, <2>1, <2>2, <2>3, <3>1, <3>4, <3>6, AdvanceKeeps DEF Typed, Ended
  <2> QED
    BY <2>4, <2>5
<1>15. CASE AnnounceReturns(t)
  <2>1. /\ pc[t] = "announce" /\ Proceed(t, pos[t] + 1) /\ UNCHANGED <<plan, chat, orphans>>
        /\ announced' = [announced EXCEPT ![t][i] = @ + 1]
    BY <1>15 DEF AnnounceReturns
  <2>2. /\ plan[t][i] \in OwnPlans /\ pos[t] = Got(t, i) /\ announced[t][i] + 1 = Got(t, i)
    BY <1>4, <2>1 DEF Stage
  <2>3. announced'[t] = [announced[t] EXCEPT ![i] = Got(t, i)]
    BY <1>1, <2>1, <2>2 DEF Domains, Typed
  <2>4. pos[t] + 1 \in Nat /\ pos[t] + 1 = Got(t, i) + 1
    BY <1>3, <2>2
  <2> QED
    BY <1>2, <2>1, <2>2, <2>3, <2>4, ProceedKeeps
<1>16. CASE SendFails(t) \/ AnnounceFails(t)
  <2>1. /\ Conclude(t, "failed") /\ UNCHANGED <<plan, chat, announced>>
        /\ orphans' = [orphans EXCEPT ![t] = @ + blobs[t]]
    BY <1>16 DEF SendFails, AnnounceFails, GiveUp
  <2>2. pc[t] \notin Ended
    BY <1>16 DEF SendFails, AnnounceFails, Sending, Ended
  <2> QED
    BY <1>8, <2>1, <2>2
<1>17. CASE AnswerLost(t)
  <2>1. /\ pc[t] = "send" /\ Receive(t) /\ plan' = plan /\ announced' = announced
        /\ orphans' = orphans /\ Conclude(t, "failed")
    BY <1>17 DEF AnswerLost
  <2>2. \A k : Got(t, k)' = IF k = i THEN Got(t, k) + 1 ELSE Got(t, k)
    BY <1>1, <2>1, ReceiveCounts
  <2>3. /\ announced[t][i] + 1 = Got(t, i)'
        /\ Got(t, i)' <= Len(plan[t][i])
    BY <1>1, <1>2, <1>4, <2>1, <2>2 DEF Stage, Sending
  <2> QED
    BY <1>1, <1>2, <1>3, <2>1, <2>2, <2>3, ConcludeKeeps, SMTT(30) DEF Typed, Ended
<1>18. CASE Panic(t)
  <2>1. /\ pc[t] \notin Ended /\ pc'[t] = "panicked"
        /\ item'[t] = i /\ outcome'[t] = outcome[t] /\ announced'[t] = announced[t]
        /\ plan'[t] = plan[t] /\ UNCHANGED chat /\ pos'[t] = pos[t]
        /\ orphans'[t] = orphans[t] + blobs[t] /\ blobs'[t] = 0
    BY <1>18 DEF Panic, Goto, Domains, Callbacks, Ended
  <2>2. \A k : Got(t, k)' = Got(t, k)
    BY <2>1, GotStays
  <2>3. Stage(t)'
    BY <1>5, <2>1, <2>2 DEF Stage, Sending, Ended
  <2>4. Cardinality(Failed(t))' = Cardinality(Failed(t))
    BY <2>1 DEF Failed
  <2>5. Cardinality(Failed(t)) \in Nat /\ orphans[t] <= 2 * Cardinality(Failed(t))
    BY <1>4, <2>1, FailedType DEF Uploads, Ended
  <2>6. orphans'[t] <= 2 * (Cardinality(Failed(t))' + 1)
    BY <1>3, <2>1, <2>4, <2>5
  <2>7. Uploads(t)'
    BY <2>1, <2>6 DEF Uploads
  <2> QED
    BY <1>2, <2>1, <2>3, <2>7, SilentKeeps
<1> QED
  BY <1>6, <1>7, <1>9, <1>10, <1>11, <1>12, <1>13, <1>14, <1>15, <1>16, <1>17, <1>18
  DEF Run

-----------------------------------------------------------------------------

\* What all the things that a task does have in common.
LEMMA RunEffects ==
  ASSUME NEW t \in Tasks, Run(t)
  PROVE  /\ pc[t] \notin Ended
         /\ UNCHANGED answered
         /\ UNCHANGED item \/ \E result : Conclude(t, result)
         /\ UNCHANGED outcome \/ \E result : outcome' = [outcome EXCEPT ![t][item[t]] = result]
         /\ UNCHANGED plan \/ \E responses : Decide(t, responses)
         /\ UNCHANGED chat \/ (pc[t] = "send" /\ Receive(t))
<1> USE DEF Ended
<1>1. ASSUME NEW n, Proceed(t, n)
      PROVE  /\ UNCHANGED item \/ \E result : Conclude(t, result)
             /\ UNCHANGED outcome
                  \/ \E result : outcome' = [outcome EXCEPT ![t][item[t]] = result]
  BY <1>1 DEF Proceed, Conclude
<1>2. CASE HandlerReturns(t) \/ SkipHandler(t) \/ HandlerFails(t)
  BY <1>2 DEF HandlerReturns, SkipHandler, HandlerFails, Conclude
<1>3. CASE StopTyping(t) \/ LookupReturns(t) \/ UploadReturns(t) \/ ThumbnailReturns(t)
             \/ Build(t)
  BY <1>3 DEF StopTyping, LookupReturns, UploadReturns, ThumbnailReturns, Build
<1>4. CASE Act(t)
  <2>1. UNCHANGED <<item, outcome>> \/ Proceed(t, 1)
    BY <1>4 DEF Act
  <2> QED
    BY <1>1, <1>4, <2>1 DEF Act
<1>5. CASE HelpReturns(t) \/ Panic(t)
  BY <1>5 DEF HelpReturns, Panic, Callbacks
<1>6. CASE SendReturns(t)
  BY <1>6 DEF SendReturns, Conclude
<1>7. CASE AnnounceReturns(t)
  BY <1>1, <1>7 DEF AnnounceReturns
<1>8. CASE SendFails(t) \/ AnswerLost(t) \/ AnnounceFails(t)
  BY <1>8 DEF SendFails, AnswerLost, AnnounceFails, GiveUp, Conclude, Sending
<1> QED
  BY <1>2, <1>3, <1>4, <1>5, <1>6, <1>7, <1>8 DEF Run

LEMMA ItemGrows ==
  ASSUME Domains, NEW t \in Tasks, Typed(t), Run(t)
  PROVE  /\ \A u \in Tasks \ {t} : item'[u] = item[u]
         /\ item[t] <= item'[t]
<1>1. item[t] \in Nat
  BY TypedContext, ContextsAre DEF Typed
<1>2. CASE UNCHANGED item
  BY <1>1, <1>2
<1>3. ASSUME NEW result, Conclude(t, result) PROVE item[t] <= item'[t]
  BY <1>1, <1>3, ConcludeChanges
<1> QED
  BY <1>2, <1>3, RunEffects, OthersStay

LEMMA StillKeeps ==
  ASSUME NEW u \in Tasks, TaskInv(u),
         pc'[u] = pc[u], item'[u] = item[u], plan'[u] = plan[u], pos'[u] = pos[u],
         blobs'[u] = blobs[u], orphans'[u] = orphans[u], announced'[u] = announced[u],
         outcome'[u] = outcome[u], \A i : Got(u, i)' = Got(u, i)
  PROVE  TaskInv(u)'
<1>1. Typed(u)' /\ \A i \in Contexts(u) : Context(u, i)'
  BY DEF TaskInv, Typed, Context, Contexts
<1>2. Stage(u)'
  BY DEF TaskInv, Stage, Contexts
<1>3. Cardinality(Failed(u))' = Cardinality(Failed(u))
  BY DEF Failed
<1>4. Uploads(u)'
  BY <1>3 DEF TaskInv, Uploads
<1> QED
  BY <1>1, <1>2, <1>4 DEF TaskInv, Contexts

LEMMA OrderedStays ==
  ASSUME Ordered, UNCHANGED <<item, chat>>
  PROVE  Ordered'
<1>1. /\ \A t, i : Received(t, i)' = Received(t, i)
      /\ \A t : Contexts(t)' = Contexts(t)
  BY DEF Received, Contexts
<1> QED
  BY <1>1 DEF Ordered

LEMMA RunKeepsOthers ==
  ASSUME Domains, Ordered, NEW t \in Tasks, Typed(t), Run(t),
         NEW u \in Tasks \ {t}, TaskInv(u)
  PROVE  TaskInv(u)'
<1>1. \A i : Got(u, i)' = Got(u, i)
  BY GotStays, ReceiveCounts, RunEffects
<1> QED
  BY <1>1, OthersStay, StillKeeps

LEMMA RunKeepsOrdered ==
  ASSUME Domains, Ordered, NEW t \in Tasks, TaskInv(t), Run(t),
         \A u \in Tasks : Typed(u)
  PROVE  Ordered'
<1> DEFINE L == Len(chat)
<1>1. /\ chat \in Seq(Tasks \X (1..MaxIds) \X Nat) /\ L \in Nat
      /\ \A n \in 1..L : /\ chat[n][1] \in Tasks /\ chat[n][2] \in Nat
                         /\ chat[n][2] <= item[chat[n][1]]
  BY DEF Ordered
<1>2. \A u \in Tasks : item[u] \in Nat /\ item'[u] \in Nat /\ item[u] <= item'[u]
  <2>1. \A u \in Tasks : item[u] \in Nat
    BY ContextsAre DEF Typed
  <2>2. item'[t] \in Nat
    BY <2>1, RunEffects, ConcludeChanges
  <2> QED
    BY <2>1, <2>2, ItemGrows
<1>3. CASE UNCHANGED chat
  <2>1. \A u, i : Received(u, i)' = Received(u, i)
    BY <1>3 DEF Received
  <2>2. \A n \in 1..L : chat[n][2] <= item'[chat[n][1]]
    BY <1>1, <1>2, SMTT(30)
  <2>3. \A u \in Tasks : Contexts(u)' = Contexts(u)
    BY DEF Contexts
  <2> QED
    BY <1>3, <2>1, <2>2, <2>3 DEF Ordered
<1>4. CASE pc[t] = "send" /\ Receive(t)
  <2>1. /\ chat' \in Seq(Tasks \X (1..MaxIds) \X Nat) /\ Len(chat') = L + 1
        /\ chat'[L + 1] = <<t, item[t], pos[t]>>
        /\ \A n \in 1..L : chat'[n] = chat[n]
    BY <1>4, ReceiveGrows DEF TaskInv
  <2>2. \A u, i : Received(u, i)' = IF u = t /\ i = item[t] THEN Received(u, i) \cup {L + 1}
                                                         ELSE Received(u, i)
    BY <1>4, ReceiveGrows DEF TaskInv
  <2>3. 1..Len(chat') = (1..L) \cup {L + 1}
    BY <1>1, <2>1
  <2>4. /\ chat'[L + 1][1] = t /\ chat'[L + 1][2] = item[t] /\ chat'[L + 1][3] = pos[t]
        /\ L + 1 \notin 1..L
    BY <1>1, <2>1
  <2>5. ASSUME NEW n \in 1..Len(chat') PROVE chat'[n][2] <= item'[chat'[n][1]]
    <3>1. CASE n \in 1..L
      <4>1. chat'[n] = chat[n] /\ chat[n][1] \in Tasks
        BY <1>1, <2>1, <3>1
      <4>2. /\ chat[n][2] \in Nat /\ chat[n][2] <= item[chat[n][1]]
            /\ item[chat[n][1]] \in Nat /\ item'[chat[n][1]] \in Nat
            /\ item[chat[n][1]] <= item'[chat[n][1]]
        BY <1>1, <1>2, <3>1, <4>1
      <4> HIDE DEF L
      <4>3. chat[n][2] <= item'[chat[n][1]]
        BY <4>2
      <4> QED
        BY <4>1, <4>3
    <3>2. CASE n = L + 1
      BY <1>2, <2>4, <3>2
    <3> QED
      BY <2>3, <3>1, <3>2
  <2>6. ASSUME NEW u \in Tasks, NEW i \in Contexts(u), NEW n \in Received(u, i)'
        PROVE  chat'[n][3] = Cardinality({k \in Received(u, i)' : k <= n})
    <3>1. CASE n \in 1..L
      <4>1. n \in Received(u, i) /\ chat'[n] = chat[n]
        BY <2>1, <2>2, <2>6, <2>4, <3>1
      <4>2. {k \in Received(u, i)' : k <= n} = {k \in Received(u, i) : k <= n}
        BY <1>1, <2>2, <3>1
      <4> QED
        BY <4>1, <4>2 DEF Ordered
    <3>2. CASE n = L + 1
      <4>1. n \notin Received(u, i)
        BY <2>4, <3>2 DEF Received
      <4>2. u = t /\ i = item[t]
        BY <2>2, <2>6, <4>1
      <4>3. Received(u, i)' \subseteq 1..(L + 1)
        BY <1>1, <2>1 DEF Received
      <4>4. {k \in Received(u, i)' : k <= n} = Received(u, i)'
        BY <1>1, <3>2, <4>3
      <4>5. Got(u, i)' = Got(u, i) + 1
        BY <1>4, <4>2, ReceiveCounts DEF TaskInv
      <4>6. pos[t] = Got(t, item[t]) + 1
        BY <1>4 DEF TaskInv, Stage, Sending
      <4>7. chat'[n][3] = Got(u, i)'
        BY <2>4, <3>2, <4>2, <4>5, <4>6
      <4> QED
        BY <4>4, <4>7 DEF Got
    <3>3. n \in 1..Len(chat')
      BY <2>6 DEF Received
    <3> QED
      BY <2>3, <3>1, <3>2, <3>3
  <2>7. ASSUME NEW a \in 1..Len(chat'), NEW b \in 1..Len(chat'), a < b,
               chat'[a][1] = chat'[b][1]
        PROVE  chat'[a][2] <= chat'[b][2]
    <3>1. a \in 1..L
      BY <1>1, <2>1, <2>7
    <3>2. CASE b \in 1..L
      BY <2>1, <2>7, <3>1, <3>2 DEF Ordered
    <3>3. CASE b = L + 1
      <4>1. chat[a][1] = t /\ chat'[a][2] = chat[a][2]
        BY <2>1, <2>7, <2>4, <3>1, <3>3
      <4>2. chat[a][2] <= item[t]
        BY <1>1, <3>1, <4>1
      <4> QED
        BY <2>4, <3>3, <4>1, <4>2
    <3> QED
      BY <2>3, <3>2, <3>3
  <2> QED
    BY <2>1, <2>5, <2>6, <2>7 DEF Ordered, Contexts
<1> QED
  BY <1>3, <1>4, RunEffects

LEMMA RunKeepsIInv ==
  ASSUME IInv, NEW t \in Tasks, Run(t)
  PROVE  IInv'
<1>1. \A u \in Tasks : TaskInv(u)'
  BY RunKeepsTask, RunKeepsOthers DEF IInv, TaskInv
<1>2. Domains' /\ Ordered'
  BY OthersStay, RunKeepsOrdered DEF IInv, TaskInv
<1> QED
  BY <1>1, <1>2 DEF IInv

\* A task that does not end with the process has not begun.
LEMMA LoseKeepsIInv ==
  ASSUME IInv, NEW S \in SUBSET Tasks, Lose(S), \A t \in Tasks \ S : pc[t] = "handler"
  PROVE  IInv'
<1>1. Domains'
  BY DEF IInv, Domains, Lose, Stages, Ended
<1>2. Ordered'
  BY OrderedStays DEF IInv, Lose
<1>3. ASSUME NEW t \in Tasks PROVE TaskInv(t)'
  <2>1. /\ pc'[t] = IF t \in S /\ pc[t] \notin Ended THEN "lost" ELSE pc[t]
        /\ item'[t] = item[t] /\ plan'[t] = plan[t] /\ pos'[t] = pos[t]
        /\ blobs'[t] = 0 /\ orphans'[t] = orphans[t] + blobs[t]
        /\ announced'[t] = announced[t] /\ outcome'[t] = outcome[t]
    BY DEF Lose
  <2>2. \A i : Got(t, i)' = Got(t, i)
    BY GotStays DEF Lose
  <2>3. TaskInv(t) /\ blobs[t] \in Nat /\ orphans[t] \in Nat
    BY DEF IInv, Domains
  <2>4. CASE t \in S /\ pc[t] \notin Ended
    <3>1. Typed(t)'
      BY <2>1, <2>3 DEF TaskInv, Typed, Contexts
    <3>2. \A i \in Contexts(t) : Context(t, i)'
      BY <2>1, <2>2, <2>3 DEF TaskInv, Context
    <3>3. Stage(t)'
      BY <2>1, <2>2, <2>3, <2>4 DEF TaskInv, Stage, Sending, Ended
    <3>4. Cardinality(Failed(t))' = Cardinality(Failed(t))
      BY <2>1 DEF Failed
    <3>5. Cardinality(Failed(t)) \in Nat /\ orphans[t] <= 2 * Cardinality(Failed(t))
      BY <2>3, <2>4, FailedType DEF TaskInv, Uploads, Ended
    <3>6. orphans'[t] <= 2 * (Cardinality(Failed(t))' + 1)
      BY <2>1, <2>3, <3>4, <3>5 DEF TaskInv, Uploads
    <3>7. Uploads(t)'
      BY <2>1, <2>4, <3>6 DEF Uploads
    <3> QED
      BY <3>1, <3>3, <3>7, <3>2 DEF TaskInv, Contexts
  <2>5. CASE ~(t \in S /\ pc[t] \notin Ended)
    <3>1. blobs[t] = 0
      BY <2>3, <2>5 DEF TaskInv, Uploads, Ended
    <3> QED
      BY <2>1, <2>2, <2>3, <2>5, <3>1, StillKeeps
  <2> QED
    BY <2>4, <2>5
<1> QED
  BY <1>1, <1>2, <1>3 DEF IInv

LEMMA InitIInv == Init => IInv
<1> SUFFICES ASSUME Init PROVE IInv
  OBVIOUS
<1>1. Domains
  BY DEF Init, Domains, Stages, Callbacks
<1>2. Len(chat) = 0 /\ \A t, i : Received(t, i) = {}
  BY DEF Init, Received
<1>3. Ordered
  BY <1>2 DEF Init, Ordered
<1>4. ASSUME NEW t \in Tasks PROVE TaskInv(t)
  <2>1. \A i : Got(t, i) = 0
    BY <1>2, FS_EmptySet DEF Got
  <2>2. Failed(t) = {}
    BY DEF Init, Failed
  <2>3. Cardinality(Failed(t)) = 0
    BY <2>2, FS_EmptySet
  <2>4. Typed(t)
    BY ContextsAre DEF Init, Typed, Sendable
  <2>5. ASSUME NEW i \in Contexts(t) PROVE Context(t, i)
    <3>1. i \in Nat /\ ~(i < 1) /\ item[t] = 1
      BY ContextsAre DEF Init
    <3>2. plan[t][i] = << >> /\ announced[t][i] = 0 /\ outcome[t][i] = "open"
      BY DEF Init
    <3> QED
      BY <2>1, <3>1, <3>2 DEF Context
  <2>6. Stage(t)
    BY <2>1, ContextsAre DEF Init, Stage, Sending, Ended
  <2>7. Uploads(t)
    BY <2>3 DEF Init, Uploads
  <2> QED
    BY <2>4, <2>5, <2>6, <2>7 DEF TaskInv
<1> QED
  BY <1>1, <1>3, <1>4 DEF IInv

LEMMA StillKeepsIInv ==
  ASSUME IInv, UNCHANGED <<pc, item, plan, pos, blobs, chat, announced, outcome, orphans>>
  PROVE  IInv'
<1>1. \A u, i : Got(u, i)' = Got(u, i)
  BY GotStays
<1>2. \A u \in Tasks : TaskInv(u)'
  BY <1>1, StillKeeps DEF IInv
<1>3. Ordered'
  BY OrderedStays DEF IInv
<1> QED
  BY <1>2, <1>3 DEF IInv, Domains

LEMMA NextIInv == IInv /\ [Next]_vars => IInv'
<1> SUFFICES ASSUME IInv, [Next]_vars PROVE IInv'
  OBVIOUS
<1>1. ASSUME NEW t \in Tasks, Answer(t) PROVE IInv'
  BY <1>1, StillKeepsIInv DEF Answer
<1>2. CASE Crash
  BY <1>2, LoseKeepsIInv DEF Crash
<1>3. CASE UNCHANGED vars
  BY <1>3, StillKeepsIInv DEF vars
<1> QED
  BY <1>1, <1>2, <1>3, RunKeepsIInv DEF Next

LEMMA Invariance == Spec => []IInv
BY InitIInv, NextIInv, PTL DEF Spec

\* A task that is done and has sent nothing has failed in its first context, or
\* had nothing to say there.
LEMMA SilentWhenDone ==
  ASSUME IInv, NEW t \in Tasks, pc[t] = "done", \A n \in 1..Len(chat) : chat[n][1] # t
  PROVE  /\ 1 \in DOMAIN plan[t] /\ 1 \in DOMAIN outcome[t]
         /\ plan[t][1] = << >> \/ outcome[t][1] = "failed"
<1>1. /\ 1 \in Contexts(t) /\ Typed(t) /\ Context(t, 1) /\ Stage(t)
      /\ item[t] \in Contexts(t) /\ item[t] >= 1
  BY ContextsAre DEF IInv, TaskInv, Typed
<1>2. Got(t, 1) = 0
  <2>1. Received(t, 1) = {}
    BY DEF Received
  <2> QED
    BY <2>1, FS_EmptySet DEF Got
<1>3. outcome[t][1] # "open"
  <2>1. outcome[t][item[t]] # "open"
    BY <1>1 DEF Stage, Ended
  <2>2. item[t] # 1 => 1 < item[t]
    BY <1>1, ContextsAre
  <2> QED
    BY <1>1, <2>1, <2>2 DEF Context
<1>4. CASE outcome[t][1] = "ok"
  <2>1. Len(plan[t][1]) = 0 /\ plan[t][1] \in Sendable \cup {ShowHelp}
    BY <1>1, <1>2, <1>4 DEF Context, Typed
  <2>2. plan[t][1] = << >>
    BY <2>1 DEF Sendable, ShowHelp
  <2> QED
    BY <1>1, <2>2 DEF Typed
<1> QED
  BY <1>1, <1>3, <1>4 DEF Typed

-----------------------------------------------------------------------------

\* The variables of the tasks have their types.
THEOREM MessageProcessingTypeOK == Spec => []TypeOK
<1> DEFINE Rest == answered \subseteq Tasks /\ crashed \in BOOLEAN
<1>1. Init => Rest
  BY DEF Init
<1>2. Rest /\ [Next]_vars => Rest'
  <2> SUFFICES ASSUME Rest, [Next]_vars PROVE Rest'
    OBVIOUS
  <2>1. ASSUME NEW t \in Tasks, Run(t) PROVE UNCHANGED <<answered, crashed>>
    <3> USE <2>1
    <3>1. CASE SendReturns(t) \/ Act(t) \/ AnnounceReturns(t) \/ HandlerFails(t)
      BY <3>1 DEF SendReturns, Act, AnnounceReturns, HandlerFails
    <3>2. CASE ~(SendReturns(t) \/ Act(t) \/ AnnounceReturns(t) \/ HandlerFails(t))
      BY <3>2
      DEF Run, HandlerReturns, SkipHandler, StopTyping, HelpReturns, LookupReturns,
          UploadReturns, ThumbnailReturns, Build, SendFails, AnswerLost, AnnounceFails,
          Panic
    <3> QED
      BY <3>1, <3>2
  <2> QED
    BY <2>1 DEF Next, Answer, Crash, vars
<1>3. IInv /\ Rest => TypeOK
  <2> SUFFICES ASSUME IInv, Rest PROVE TypeOK
    OBVIOUS
  <2>1. pc \in [Tasks -> {"typing", "act"} \cup Callbacks \cup Sending \cup Ended]
    BY DEF IInv, Domains, Stages
  <2>2. blobs \in [Tasks -> 0..2]
    BY DEF IInv, Domains, TaskInv, Uploads
  <2>3. \A t \in Tasks : Typed(t)
    BY DEF IInv, TaskInv
  <2> QED
    BY <2>1, <2>2, <2>3 DEF TypeOK, IInv, Domains, Typed, Ordered, Sendable
<1> QED
  BY <1>1, <1>2, <1>3, Invariance, PTL DEF Spec

\* Whatever fails, a user receives of each plan a prefix, in order and without
\* gaps, and the plans of a reaction one after the other (server/mod.rs: responses
\* are sent one by one).
THEOREM MessageProcessingInOrder == Spec => []InOrder
<1>1. IInv => InOrder
  BY DEF IInv, Ordered, InOrder, TaskInv, Context, Got
<1> QED
  BY <1>1, Invariance, PTL

\* The bot's handler is told of each response once, but for the last one of a
\* task that stopped there (handler.rs: on_response_sent).
THEOREM MessageProcessingAnnouncedOnce == Spec => []AnnouncedOnce
<1>1. IInv => AnnouncedOnce
  BY DEF IInv, AnnouncedOnce, TaskInv, Context, Got, OwnPlans
<1> QED
  BY <1>1, Invariance, PTL

\* Blobs are left behind by failures only, and at most the two of one response
\* for each of them (client.rs: a blob is uploaded before the message is sent).
THEOREM MessageProcessingFewOrphans == Spec => []FewOrphans
<1>1. IInv => FewOrphans
  BY DEF IInv, FewOrphans, TaskInv, Uploads, Failed
<1> QED
  BY <1>1, Invariance, PTL

\* No task comes back to a context that it is through with.
THEOREM MessageProcessingConcludedForGood == Spec => ConcludedForGood
<1> DEFINE Kept(t, i) ==
      /\ outcome'[t][i] = outcome[t][i]
      /\ plan'[t][i] = plan[t][i]
      /\ Received(t, i)' = Received(t, i)
      /\ \A n \in Received(t, i) : chat'[n] = chat[n]
<1>1. ASSUME IInv, NEW t \in Tasks, Run(t), NEW u \in Tasks, NEW i \in Contexts(u),
             outcome[u][i] # "open"
      PROVE  Kept(u, i)
  <2>1. ~(u = t /\ i = item[t])
    BY <1>1, RunEffects DEF IInv, TaskInv, Stage
  <2>2. outcome'[u][i] = outcome[u][i] /\ plan'[u][i] = plan[u][i]
    <3>1. CASE u # t
      BY <1>1, <3>1, OthersStay DEF IInv
    <3>2. CASE u = t /\ i # item[t]
      BY <1>1, <3>2, RunEffects DEF IInv, Domains, TaskInv, Typed, Decide
    <3> QED
      BY <2>1, <3>1, <3>2
  <2>3. Received(u, i)' = Received(u, i) /\ \A n \in Received(u, i) : chat'[n] = chat[n]
    <3>1. CASE UNCHANGED chat
      BY <3>1 DEF Received
    <3>2. CASE Receive(t)
      <4>1. /\ \A n \in 1..Len(chat) : chat'[n] = chat[n]
            /\ Received(u, i)' = Received(u, i)
        BY <1>1, <2>1, <3>2, ReceiveGrows DEF IInv, TaskInv
      <4> QED
        BY <4>1 DEF Received
    <3> QED
      BY <1>1, <3>1, <3>2, RunEffects
  <2> QED
    BY <2>2, <2>3
<1>2. ASSUME UNCHANGED <<outcome, plan, chat>>
      PROVE  \A t \in Tasks : \A i \in Contexts(t) : Kept(t, i)
  BY <1>2 DEF Received
<1>3. (\E t \in Tasks : Answer(t)) \/ Crash \/ UNCHANGED vars
        => UNCHANGED <<outcome, plan, chat>>
  BY DEF Answer, Crash, Lose, vars
<1>4. IInv /\ [Next]_vars =>
        [\A t \in Tasks : \A i \in Contexts(t) : outcome[t][i] # "open" => Kept(t, i)]_vars
  BY <1>1, <1>2, <1>3 DEF Next
<1> QED
  BY <1>4, Invariance, PTL DEF Spec, ConcludedForGood

=============================================================================
