# A verification of the bot server

This directory holds TLA+ models of the bot SDK in `src/` (crate
`threema-gateway-bot`), TLC configurations that check them on small instances,
and TLAPS proofs of the theorems that matter most for every instance.
`PROJECT.json` is the index: components, runs, the lines each definition
models, findings, hazards and theorems.

Contents: 1 the system, 2 the modules, 3 the runs, 4 bounds, 5 fairness,
6 what is proved, 7 findings, 8 what is not modelled, 9 the plan.

## 1. The system

A bot built with the SDK is an HTTP server. The Threema Gateway calls its
webhook once per message that a user sends to the bot, and again until the call
is answered with 200. The server checks the call, looks up the sender's public
key, decrypts the message, acknowledges it to the sender, and hands it to the
bot's handler in a task of its own; what the handler returns is sent back
through the Gateway's API.

| Component | Source | State | Operations |
|---|---|---|---|
| Timestamp check | `src/webhook.rs` | none (reads the wall clock) | `validate_timestamp` |
| Duplicate detection | `src/dedup.rs` | cache of (sender, message ID), time to live 300 s, bounded | `check_and_insert` |
| Rate limiter | `src/rate_limit.rs` | two caches of per-user windows, time to idle, bounded | `check` |
| Webhook handler | `src/server/mod.rs` | none of its own; shares the three above, and the notification cache | `webhook_handler`, `check_rate_limit` |
| Typing indicator | `src/server/handler.rs` | a mutex over an optional `JoinHandle` | `send`, `stop`, the repeating task |
| Message processing | `src/server/mod.rs` | one task per message | `process_text_message`, `process_location_message`, `handle_action`, `send_responses`, the reaction loop |
| Commands | `src/commands.rs` | the registry, fixed after start; a visibility per message | `register`, `group`, `style`, `validate`, `parse`, `help_text`, show and hide |
| Gateway client | `src/client.rs` | public keys (cached by the Gateway library) | key lookup, sending text, file, image; uploading |
| Server life cycle | `src/server/mod.rs` | configuration, client, handler, registry; per call of `run` all of the above | `new`, `run` |
| Configuration | `src/config.rs`, `src/errors.rs` | values read once, from a file and the environment | `load_with_prefix`, `env_source`, `validate` |

How they interact. Webhook calls run concurrently on a multi-threaded runtime
and share the three caches. `webhook_handler` makes plain calls to the
timestamp check, to duplicate detection and to the rate limiter; it awaits the
key lookup, the two receipts and the notification cache. When a connection is
closed, the handler is dropped at the await it is in. It spawns tasks that
outlive it: processing of a text or a location, the loop over a reaction's
message IDs, the "access denied" answer and the rate limit notice. Processing
creates a typing handle, lends it to the bot's handler and stops it; the handle
spawns the task that repeats the indicator. Nothing is persisted.

What is hard about it, and what makes each part correct:

* *Duplicate detection.* Two clocks (the age of a message is measured with the
  wall clock, that of a cache entry with the monotonic one), a time to live that
  is fixed while the maximum age is configured, eviction, and restarts. Correct
  when a message is let through twice only because the cache lost it, and never
  refused by being mistaken for another sender's.
* *Rate limiter.* The windows are read, changed and written without a lock, and
  fixed windows have boundaries. Correct when bursts stay below a bound and
  nobody is refused early.
* *Webhook handler.* Calls are repeated while earlier ones are still handled;
  a handler may end at any await; the message is marked as seen before anything
  is done with it; what receipts and notices come to is ignored. Correct when a
  message meets one fate, is acknowledged only then or for another known reason,
  and in the end always; when attempted receipts, counts and notices match fates;
  and when an unlisted sender gets nothing but a denial.
* *Typing indicator.* Aborting a task is not waiting for it, and a panic skips
  the end of processing. Correct when there is one stream of indicators that
  ends when processing does.
* *Message processing.* The first failing response ends an action; tasks of one
  user are not ordered; a user may react before the handler knows the ID of the
  response. Correct when the user receives a prefix of what the handler returned,
  in order, each announced, and a failure ends one context and no other.
* *Gateway client.* Uploads followed by a message, any of which may fail.
  Correct when few blobs stay behind, and only after a failure.
* *Commands.* Names and groups may be registered in any combination, and texts
  are cut at white space and prefixes. Correct when every listed command can be
  typed as it is listed, once per section; when the handler gets all that the user
  wrote; and when help lists what the calls on the visibility say.

* *Configuration and start.* Two sources, defaults of keys and of a section,
  parsing of texts, checks before and after the start; `run` may be repeated.
  Correct when a bot that runs has the values that were written, one that is
  rejected was written with the problem it is rejected for, and each call that
  serves has the limits that were written.
* *The whole.* A task runs next to the handler that spawned it and to handlers of
  repeated calls, and a restart ends them all. Correct when the bot takes up a
  message once per time the server forgets it, answers no text without having
  tried to show it as read, and is silent for a known reason only.

`PROJECT.json` lists each hazard at its line with the properties that cover it.

## 2. The modules

```
Inbox <-- implemented by -- Deduplicator       Conversation     Commands
  ^                                                 ^
  | INSTANCE                                        | implemented by
  |                 EXTENDS                         |           BotServer
WebhookHandler <------------------------------------ Bot
MessageProcessing <-- INSTANCE ----------------------/          TypingHandle

RateLimiter <-- EXTENDS -- RateLimitNotice
```

The proofs about `X` are in `XProofs`, for `Deduplicator` (with `Inbox`),
`RateLimiter` (with `RateLimitNotice`), `WebhookHandler`, `TypingHandle`,
`MessageProcessing`, `Bot` (with `Conversation`), `BotServer` and `Commands`.
`BotProofs` builds on those of `WebhookHandler` (EXTENDS) and of
`MessageProcessing` (INSTANCE), as `Bot` does on the modules.
Each `MC` module instantiates its module for TLC. Operators named in a comment
that begins with `Faulty` are plausible bugs in the definition that follows
them: each property is known to fail for one of them.

**`Inbox`** is what duplicate detection promises: `status[m]` is unseen, seen or
retired. `Accept` lets an unseen message through, `Forget` loses seen ones and
counts the loss, and `Retire` is for messages that got too old.

**`Deduplicator`** is `validate_timestamp` followed by `check_and_insert`, with
the clocks. `now` is the monotonic clock, `now + offset` the wall clock.
`ValidateTimestamp`/`RejectTimestamp` are the two outcomes of the first check;
`checked[r]` holds a request that was preempted before the second one;
`InsertNew`/`FindDuplicate` are its outcomes. The cache's own steps are `Purge`
(expired entries) and `Evict` (over capacity; the admission policy of the cache
may choose any entry, the newest too). `Restart` loses everything. The module
implements `Inbox`: `Standing` is the refinement mapping. A message is `Outdated`
only when no setting of the wall clock makes it acceptable and no request that
was preempted can still be about to insert it.

**`RateLimiter`** has one step per cache access of `check`: `Read` copies the
window of one kind ("minute", then "hour"), `WritePassed`/`WriteLimited` write
the incremented copy back with the verdict. `Incremented` and `Admits` are
`Window::check_and_increment`, with the saturating count. `Cached` and `Touch`
are the time to idle. With `Serialized` no two calls for one user overlap;
without it they do as threads may. `passed` records the times at which each
kind's window let a user pass. The verdict and the write that follows it happen
in the same tick of the clock. **`RateLimitNotice`** adds what a refused user is
told: `TimeRemaining` and `FormatDuration`, with `Second` ticks per second, so that
the fraction which the text cuts off is there. `told` also holds how many messages
had passed when the user was refused, since what counts is what passes afterwards.

**`WebhookHandler`** has one step per stretch between two awaits: `pc[r]` is the
await that the handler of request `r` is in. Each early return of the function
is an action, with its status code: `AnswerOk` (200, the Gateway is done, unless
the answer is lost) or `AnswerFailure` (401, 429: it will deliver again).
Duplicate detection is `Inbox`. There are no clocks here, so `RefuseTimestamp` may
refuse any message, as `Deduplicator!RejectTimestamp` may when the wall clock is set
or a timestamp lies in the future; `mistimed` are the messages that it refused while
they were unseen. The rate limiter's verdict is open (`Dispatch`
or `Limit`), since all properties must hold for every verdict. `receipts[m]` counts
the attempts at each receipt, by outcome, and the handler goes on either way
(`SendReceipt`). `notices[u]` counts the tasks that tell a user of the limit:
`SpawnNotice` begins one, and `FinishNotice` or `Restart` ends it, with the user told
or untold. `fate[m]` counts what became of the times `m` was let through. `Cancel` is a closed connection,
`Restart` a crash. A body is one of six classes: that is all the handler
distinguishes. `allowedUsers` is any of the lists in `AllowLists`.

**`MessageProcessing`** has one step per await of a spawned task: `pc[t]` is
the callback of the bot's handler, the request, or the stop of the typing handle
that task `t` waits for. `plan[t][i]` is what the task sends for context `i`: what
the handler returned, the help, or the error text; a text and a location have one
context, a reaction one per message ID. Files and images pass through the stages
of `upload_and_send_file`. `Conclude` ends a context and moves on to the next,
`GiveUp` is every `?` and logged error in sending. The tasks start spawned, as
`WebhookHandler!Dispatch` and the fate "reacted" leave them. `chat` is what the user
received, of all tasks in one sequence; `Received(t, i)` are the places in it that
context `i` of `t` has.

**`Bot`** is `WebhookHandler` with the tasks of `MessageProcessing`. A task
`<<m, kind, n>>` is there from the step in which the n-th handler of `m` meets the
fate that is its kind: `Spawned` reads it off `fate`. `Run` is a step of a spawned
task, `Handle` one of a handler, of the Gateway or of a cache, and `RestartBot` ends
both. **`Conversation`** is what they promise together about a message, without
handlers, caches and tasks: `Take` once and once more per `Evict` or `Restart`,
`Respond` only while at work, `Finish`, and nothing survives a `Restart`.

**`BotServer`** goes from the sources to a serving bot. A source is a function of
sections to functions of keys to values. `EnvValue` is the parsing of one text, which
tries booleans and numbers before it splits lists: a list of one entry of digits
becomes "bad", and a text field gets such a text back in another spelling
(`Respelled`). `Merged` is the order of the sources, `Deserializes`/`Deserialized`
serde with its defaults; together they are `Load`. `BotServerAssumption` says what a
source is: known sections and keys, with values of the kinds that the model tells
apart. `New` is `BotServer::new` with its three checks.
`Call`, `CredentialsRejected`, `CredentialsAccepted`, `Bind`, `BindFails` and
`ServeFails` are `run`; a call that is dropped is `Interrupt`. Two calls compete for
the port.

**`TypingHandle`** runs next to the part of processing that lends the handle to
the bot's handler. `Send` starts the task, `StopRepeating`, `SendReset` and
`ResetAnswered` are `stop`, `TaskTick`/`TaskSend`/`TaskAnswered` the loop and
`TaskEnds` the end of an aborted task at its next await. `wire` holds requests
that are under way, which may overtake each other.

**`Commands`** follows one bot from its configuration to its answers. `Style`,
`HandleUnknown`, `Register` and `Group` are the builder, `New` is `validate`, which
starts or rejects the bot. `Receive` parses a text and chooses between help and
the bot's handler, which may return `ShowHelp`. `ChooseBase`, `OverrideEntry` and
`HelpVisibilityFails` are the bot's `help_visibility`, `ShowHelp` renders the page,
`Sent` ends the message. Texts and names are sequences of tokens, so that trimming,
splitting and stripping a prefix are computed as the code does. `calls` records
the calls on the visibility, and a page is the sequence of listed commands.

## 3. The runs

| Run | Expected | What it shows |
|---|---|---|
| `dedup_covered` | pass | With a time to live that just covers acceptance, two requests, two senders with colliding IDs, skew, lag, eviction and restart: `AtMostOnce`, `NoMistakenIdentity`, and `Inbox` is implemented |
| `dedup_boundary` | violation | With equal time to live and maximum age, as by default, `AtMostOnce` fails without any fault |
| `limiter_serial` | pass | Non-overlapping calls: `DoubleBurstBound`, and, even though windows are dropped, `NeverLimitedEarly` and `WaitingHelps` |
| `limiter_racing` | violation | Two overlapping calls break `DoubleBurstBound` |
| `webhook_redelivery` | pass | Two messages of one user under each fault by itself, and evictions and expiries on top: `OneFate`, `AcknowledgedIsSettled`, `ReceiptsComeFirst`, `ChargedOnce`, `LimitedIsTold`, `FewNotices` |
| `bot_conversation` | pass | One message of any class from a listed or unlisted sender, handlers and tasks together, every fault: `Conversation` is implemented, `UnlistedIsOnlyDenied`, `AnsweredIsRead`, `SilenceHasAReason`, and `EveryMessageEnds` under fairness |
| `processing_tasks` | pass | A text and a reaction of one user, every step failing, a restart: `InOrder`, `AnnouncedOnce`, `FewOrphans`, `ConcludedForGood`, and `EveryContextConcluded` under fairness |
| `processing_help` | violation | `help_visibility` is called after the webhook call is answered |
| `server_starting` | pass | Every file with one deviation, every environment of up to two keys, two calls of `run`: `RunsAsWritten`, `RejectedWithReason`, `LimitedAsWritten` |
| `commands_parsing` | pass | Every small configuration, text and visibility: `ListedIsDispatched`, `ListedOnce`, `NothingIsLost`, `QuotedIsTheSame`, `PageFollowsCalls` |
| `typing_returning` | pass | Panics and failing requests: `OneStream`, `OneLateIndicator`, `TaskEndsAfterReturn` |
| `typing_panicking` | violation | A panic leaves the repeating task running for ever |

The webhook, bot, processing, typing and starting runs do not check for deadlock:
when everything is acknowledged, processing is over or the bot is rejected, there
is nothing left to do.

Two consequences of the model that are intended by nobody but contradict no
text: a message that was refused with 429 is delivered again and then
acknowledged as a duplicate, so that it never reaches the bot; and a message
whose handler is dropped or whose key lookup fails is lost in the same way.
`AcknowledgedIsSettled` therefore counts those as fates, and `SilenceHasAReason`
lists them among the reasons for which a user may hear nothing at all. A third
contradicts a comment: a message that was refused for its timestamp while it was
unseen (`mistimed`) is acknowledged as well, see section 7.

What the properties say of receipts and notices is that they were tried:
`ReceiptsComeFirst` and `AnsweredIsRead` count attempts, sent or failed, and
`LimitedIsTold` and `FewNotices` count notices that were begun. Whether one arrives is
not known to the server, which ignores the results.

## 4. The bounds

* `dedup_covered`: two senders with one message ID each collide in all ways two
  messages can; a third request adds no interleaving, because a request holds
  one message between two checks. `Ttl = 5` is one more than
  `MaxAge + Lead + MaxSkew + MaxLag = 4`, the tightest value for which the
  theorem holds; `MaxTime = 7` lets an entry expire and its message be tried
  again. `MaxForgotten = 1` allows a loss followed by a second acceptance.
  `Ttl`, `MaxAge` and the rest are small numbers in the same order as 300 s.
* `limiter_serial`: a minute of two ticks, an hour of four, a second of two, limits
  1 and 2, `CountMax` one above: windows follow each other within `MaxTime`,
  the count saturates, each kind refuses, and a refusal may come half a second
  after a window began, so that the text cuts something off. `Capacity = 0` with one user stands for a
  cache that other users fill. `limiter_racing` needs two calls and limits of 1.
* `webhook_redelivery`: two requests overlap in every way two calls of one
  message, or of two messages of one user, can. `MaxLost` counts lost answers, failed
  receipts and failed notices together. The constraint `FewFaults` admits one fault
  out of: something lost, a restart, a message refused early, a message whose
  handler was dropped (each of its handlers may be); one eviction per message and
  one expiry come on top. The proofs need none of these bounds. The messages and the
  requests are symmetric. Of the bodies that are no texts it has one for each way
  to end; the others, and lists of allowed users, are left to `bot_conversation`,
  where faults are not exclusive.
* `bot_conversation`: one message, because what is checked is said of each message
  by itself; two requests, so that a repeated call overlaps both the first and
  the task it spawned; one eviction or restart, so that the message is taken up
  twice; no symmetry (a liveness property is checked). The bot answers
  with one text or not at all: what a longer answer may do is left to
  `processing_tasks`, and two messages that share a limit to `webhook_redelivery`.
* `server_starting`: every key has a value that is read, one that is not, and those
  at which the code branches or parses otherwise (digits, a boolean, a comma, nothing);
  two keys in the environment and one in the file meet in every way two sources can,
  for one key or for two of one section. Two calls of `run` overlap, and each may be
  repeated without bound.
* `processing_tasks`: two tasks interleave in all ways that the order of what one
  user receives can depend on; a reaction with two IDs has a first and a last
  context; the plans hold an empty one, the help, one with and one without blobs,
  and each that cannot be sent. One restart: what it leaves does not act.
* `commands_parsing`: four names (a word, a longer one it begins, the reserved one,
  one of two words) and two groups cover each reason to reject, shared commands
  and empty sections; two overrides can agree, contradict each other or meet
  on two levels; four tokens hold a prefix, a name, white space and an argument, and
  white space or a second prefix in every other place.
* `TypingHandle` has 108 reachable states and needs no bound.

## 5. Fairness

* `WebhookHandler!Fairness`: weak fairness of each handler's own steps, because
  the runtime schedules every ready task and every HTTP request ends, by its
  answer or by an error. Strong fairness of the delivery of each message,
  because the Gateway repeats a call that was not answered with 200; it is strong
  because deliveries of other messages may occupy the modelled requests for a
  while. Cancel, restarts, evictions and the passage of time are never assumed, nor
  that the task of a notice ends.
* `MessageProcessing!Spec`: weak fairness of each task. This includes the
  callbacks of the bot: a handler that never returns keeps the later message IDs
  of its reaction from being handled.
* `Bot!BotSpec`: both of the above, for handlers and for the tasks they spawned.
* `TypingHandle!Spec`: weak fairness of `stop`, of the repeating task and of the
  requests under way, for the same reasons. Nothing is assumed of the bot's
  handler: it need not return.

## 6. What is proved

The theorems hold for every value of the constants, under the assumptions that
the modules state (`...Assumption`) and the hypotheses named below. Each rests on an
inductive invariant: the step lemma has one case per action, and the theorem
combines it with the initial states.

`DeduplicatorProofs`, for every number of requests, senders and messages and all
parameters:

* `DeduplicatorTypeOK`, `DeduplicatorNoMistakenIdentity`: no further assumption.
* `DeduplicatorImplementsInbox` and `DeduplicatorAtMostOnce`: if
  `RetentionCoversAcceptance`, that is `Lead + MaxAge + MaxSkew + MaxLag < Ttl`
  with `Lead` the furthest a timestamp may be ahead and be accepted. The
  assumption is a hypothesis of the theorem, not of the module: the defaults do
  not satisfy it (`dedup_boundary`). The inductive invariant adds two facts to
  type correctness. `CheckedRecently`: a request between its checks holds a
  message that was fresh no more than `MaxLag` ago, so that what is inserted is
  not outdated. `InsertedAfterStamp`: an entry was inserted no earlier than its
  message's timestamp minus what clocks may stray, so that it expires only
  when its message is outdated. With them each step is an `Accept`, `Forget`,
  `Retire` or stutter of `Inbox`, and what `Inbox` promises (`PromiseAtMostOnce`)
  carries over: its invariant `Balance` says that a message which would be let
  through now has been forgotten as often as it was let through.

`RateLimiterProofs`, for any users, calls, limits below `CountMax` (where said)
and durations:

* `RateLimiterTypeOK`.
* `RateLimiterNeverLimitedEarly`: for overlapping calls and dropped windows too.
  The invariant `EarlyInv` says that every window, stored or in the copy of a
  call, is backed by as many recorded passes since it started as its count says,
  up to the limit: racing writes lose counts and never invent them.
* `RateLimiterDoubleBurstBound`: if `Serialized` and every limit is below
  `CountMax`. The invariant `BurstInv` relates the recorded passes of a user whose
  window was not dropped to the current window: those since its start are at
  most its count and its limit, and those before it are bounded already. The
  time to idle exceeds the duration (`RateLimiterAssumption`), so that an entry
  that idles out had expired anyway.
* `RateLimiterWaitingHelps`: if `Serialized` and `HoursAreLongest`, that is a second
  is no longer than an hour and a minute neither: 1, 60 and 3600 s in the code. The
  invariant `NoticeInv` adds to `EarlyInv` that every window, stored or in the copy of
  a call, is over by the time the user was told to wait for, or has counted only what
  passed after the refusal (`Harmless`).

`WebhookHandlerProofs`, for any number of overlapping calls, any messages, senders
and allowlists, and any number of restarts, evictions, closed connections and lost
answers (only `Requests` must be finite, `WebhookHandlerAssumption`):

* `WebhookHandlerTypeOK`, with `Held`: a handler that is not idle is about a message.
* `WebhookHandlerUnlistedIsOnlyDenied`. `OnlyListed` is what a handler knows past the
  allowlist: from the first receipt on its message is of a listed sender.
* `WebhookHandlerOneFate`. `Counted`: the fates of a message and the handlers that
  hold it add up to the times it was let through. That those are rare is
  `AcceptedRarely`: every step is one of `Inbox` or leaves it alone, so that its
  `Balance` is kept.
* `WebhookHandlerAcknowledgedIsSettled`. `Accounted`: what is remembered as seen was
  let through, and every answer 200 has a reason that stays, be it a timestamp.
* `WebhookHandlerReceiptsComeFirst` and `WebhookHandlerChargedOnce`. `Progress`: the
  chain let through - received - read - concluded (and let through - charged -
  concluded), each number with the handlers that still owe the step; receipts count
  as attempts, sent or failed (`Attempts`).
* `WebhookHandlerLimitedIsTold`. `NoticedIsTold`: for a user in the notification cache
  a notice was begun (`Begun`), or some handler has yet to begin it, or was dropped; a
  handler that finds the user there relies on it.
* `WebhookHandlerFewNotices`. `FewTellers`: as long as the cache does not hold the
  user, handlers that have missed the entry have not used up any notice; each loss
  of the entry allows one more per handler.

`TypingHandleProofs`, whether or not handlers panic and requests fail:

* `TypingHandleTypeOK`, `TypingHandleOneStream`, `TypingHandleOneLateIndicator`. As
  long as the handler runs, the handle remembers what was spawned (`Remembered`,
  `Spawned`), and a marked task that has issued its late indicator waits for its end
  (`LastRound`).

`MessageProcessingProofs`, for any number of tasks and message IDs, any plans, and
failures, panics and a restart at any step:

* `MessageProcessingTypeOK`, `MessageProcessingInOrder`,
  `MessageProcessingAnnouncedOnce`, `MessageProcessingFewOrphans`,
  `MessageProcessingConcludedForGood`. The invariant is about one task at a time
  (`TaskInv`) and about the chat (`Ordered`). `Context`: what was received of a plan is
  at most the plan, what was announced is that or one less, a context that is "ok" is
  complete, those behind the current one are settled and those ahead untouched.
  `Stage`: in the current context the position of the task is the number of
  responses received, one more while it sends and equal while it announces. It is
  needed because none of the properties says where the task is. `Uploads`: the
  blobs of the current response, and those left behind by each failed context.
  A step of one task changes the chat at its end only, so the others keep theirs.

`BotProofs`, for the calls and the tasks together, as above (`BotAssumption` is that
of the tasks):

* `BotIsWebhookHandler`: every step of the bot is one of `WebhookHandler` or leaves
  its variables alone, so that all its theorems hold of the bot;
  `BotUnlistedIsOnlyDenied` is one of them.
* `BotImplementsConversation`. The refinement maps a message to the number of its
  tasks, of those that ended and of its places in the chat. `Taken`: the tasks of
  a message are as many as the fates that spawn one. `NotBegun`: a task that is not
  spawned is in its first stage and has sent nothing, so that spawning it is all a
  call does to it. `WebhookHandlerOneFate` keeps their number within what was
  forgotten, and `IInv` of `MessageProcessingProofs` is kept by the tasks' own steps.
* `BotAnsweredIsRead`: from `WebhookHandlerReceiptsComeFirst`, with `BodyInv` (which
  body each kind of task has).
* `BotSilenceHasAReason`: from `WebhookHandlerAcknowledgedIsSettled`; a message that
  met a fate that spawns has a task, and a task that ended without an answer had an
  empty plan, failed or was lost.

`BotServerProofs`, for any file, any environment and any number of calls of `run`:

* `BotServerTypeOK`, `BotServerRunsAsWritten`, `BotServerRejectedWithReason`,
  `BotServerLimitedAsWritten`. The invariant `ServerInv` keeps what each check
  concluded together with what was written. The lemma `LoadedIsWritten` is the core: the
  value loaded for a key is the one of the environment, else of the file, else the
  default; only the environment's texts for text fields may be respelled. What does
  not load has a reason by `UnloadedHasReason`, of which `IsNumericEntry` is no
  fault of what was written. `BotServerLimitedAsWritten` follows the limits from the
  sources to each call's limiter.

`CommandsProofs`, for any registry, texts of any length and any calls on the
visibility:

* `CommandsQuotedIsTheSame` and `CommandsNothingIsLost`. The invariant is that a
  message is held together with what the registry makes of its text (`ReceivedInv`).
  The rest are lemmas about `Trim`, `FirstWord` and `Args`: they say which part of a
  text each returns (`TrimShape`, `FirstWordShape`, `ArgsBehindWord`), that a command
  written out is read as it was (`SpelledIsRead`), and what `Parse` returns
  (`ParseShape`). That a text has a first and a last visible token comes from the
  well-foundedness of the naturals (`FirstOf`).
* `CommandsTypeOK`, `CommandsListedOnce`, `CommandsPageFollowsCalls` and
  `CommandsListedIsDispatched`. The invariant is `PageInv`: a server that started has a
  registry which `Validate` accepts, a page is what `HelpText` makes of the registry
  and the visibility, and as long as there is a visibility its maps follow the calls
  (`MapFollows`: a key is there with the value of the last call about it, and is not
  there if there was none). No property says any of this, and each needs a part.
  `HelpTextElements` says which entries a page has, in terms of what each section
  shows, and that a valid registry repeats none. It rests on `FlattenElements`, what
  concatenating sequences keeps. `FlattenSeq` is a recursive function; that its
  recursion has a solution (`FlattenDefined`), and what its values are, is proved
  by the least length at which it would fail, with `FirstOf` again, in place of the
  induction theorems, which the prover cannot instantiate. What is listed is
  registered (`ListedIsRegistered`) and is read as it is written (`BareIsParsed`).

Proving found two flaws of the models, which TLC had not: `WaitingHelps` used to count
messages that passed later than the refusal by the clock, and misses those of the
same tick; and the cases of `Classify` overlapped for a registered empty name.

Every safety invariant, action property and refinement that a passing run checks is
proved. Only model-checked:

* Liveness, which rests on fairness and `ENABLED`, which the prover does not handle:
  `EveryMessageEnds`, `EveryContextConcluded`, `TaskEndsAfterReturn`.
* That the violations which the runs expect are reached.

## 7. Findings

* `dedup_boundary` (`src/server/mod.rs:210`, `src/dedup.rs:16`): the cache keeps
  entries for 300 s, and a message is acceptable for that long after its
  timestamp and as long before. When its entry expires, a message may still be
  acceptable.
* `limiter_racing` (`src/rate_limit.rs:126`, `:52`, `:80`): more than twice the
  limit passes when calls of one user overlap.
* `processing_help` (`src/server/handler.rs:220`): the documentation says that
  `help_visibility` is called before the HTTP response is returned; it is called in
  the spawned task.
* `typing_panicking` (`src/server/handler.rs:58`): the indicator is not stopped
  when the handler panics.

Noted without a run. Notices are "deduplicated" (`src/server/mod.rs:105`), but two
refusals that overlap both find the cache empty and send one each; `FewNotices`
states the bound that holds. The time a refused user is told
(`src/rate_limit.rs:168`) is cut down to whole seconds, and who obeys it to the
letter may be refused again: `WaitingHelps` allows for one second more. A
`webhook_path` without a leading slash passes `validate`, and `run` panics in the
router after the credentials were accepted (`src/server/mod.rs:241`). A
configuration file that does not exist is no error (`src/config.rs:348`): the
load fails for the first missing key, or the environment alone is used.

Two more without a run. The server answers 200 "if message is too old then retrying
will not help" (`src/server/mod.rs:331`), but gives the same answer to a timestamp that
lies in the future (`src/webhook.rs:36`), which would be accepted later: such a message
is acknowledged without having been seen, and lost. `AcknowledgedIsSettled` and
`SilenceHasAReason` name it as a reason (`mistimed`), and fail in their runs without.
And a list in the environment is split only if the whole text does not read as a
boolean or a number (`src/config.rs:388`): `ALLOWED_USERS=12345678`, a list of one
Threema ID as `src/config.rs:52` and `:93` describe it, fails to load, while the same
list loads from a file, and a list of two such entries loads from either source. `RejectedWithReason`
names it as a reason (`IsNumericEntry`), and fails in `server_starting` without. For the
same cause a secret of digits loses its leading zeros and a secret `TRUE` its
capitals, which `RunsAsWritten` excludes. (How the library parses is understood from
its use here, `try_parsing`.)

`validate` accepts a negative `max_webhook_age_seconds`, with which every message
is too old, and a cache size of zero, with which nothing is remembered.

The configuration documents the limits for "any one-minute
window" (`src/config.rs:258`), which the fixed windows exceed as
`src/rate_limit.rs:52` says itself; and an indicator that is under way when the
task is aborted may arrive after the reset, so that it stays shown until the
user's client lets it expire (`src/server/handler.rs:127`).

Two more in the commands. White space after the prefix loses the arguments: of
"/ remind 30m" the handler gets `remind` and no arguments
(`src/commands.rs:535`), where it is told to get "any text after the command"
(`src/server/handler.rs:266`). And `validate` accepts names that are empty or
contain white space; they are listed, but no text invokes them, although
registered commands "are dispatched" (`src/commands.rs:211`). `NothingIsLost` and
`ListedIsDispatched` exclude these two cases, and fail in `commands_parsing`
without the exclusions.

## 8. What is not modelled

* Cryptography, encodings, the wording of messages, logging.
* The syntax of configuration files; HTTP itself, the fallback and the health route:
  input and output with no state. Thumbnails are scaled without any state, too.
* `src/lib.rs`, the example bot, the wording of `src/errors.rs`.
* What a bot sends of its own accord, with the client it got from `client()`.
* The caches' internals: the library is modelled by what it promises (entries
  expire by time to live or to idle; over capacity, any entry may go).
* `RateLimiter` has no restart: it equals dropping all windows and calls.
* In `MessageProcessing`, which command a text is: every outcome is possible.
* In `Commands`, the text around the listed names: descriptions, titles (a group
  stands for its title), the quoted prelude and logged warnings. White space is
  one token; the code splits at any Unicode white space.
* The cache of public keys belongs to the Gateway library.
* In `Bot`, the rate limiter's verdict stays open, as in `WebhookHandler`, and the
  typing indicator is one step, as in `MessageProcessing`.

## 9. Plan

The plan is carried out: each component of section 1 is modelled (the Gateway
client in part, where processing uses it), composed where components interact, checked,
and proved but for liveness. What a change would call for next:

1. If the caches get a lock or an atomic entry, `RateLimiter` and `RateLimitNotice`
   need no `Serialized` any more, and `limiter_racing` becomes a passing run.
2. If the time to live is made to cover `max_webhook_age_seconds`, `RetentionCoversAcceptance`
   can become an assumption of `Deduplicator`, and `dedup_boundary` a passing run.
3. If the Gateway client is to be relied on for more than its uploads, its key cache
   and its errors need a module of their own; here they belong to a library.
