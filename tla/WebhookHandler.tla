--------------------------- MODULE WebhookHandler ---------------------------
(***************************************************************************)
(* The webhook endpoint (server/mod.rs): what the server does with one     *)
(* HTTP call of the Gateway, from the body to the status code, while other *)
(* calls are being handled, calls are repeated and the process restarts.   *)
(*                                                                         *)
(* A handler runs without interruption from one await to the next; at an   *)
(* await other handlers run, and the connection may be closed, in which    *)
(* case the handler is dropped on the spot (Cancel).  What it spawned goes *)
(* on without it.                                                          *)
(*                                                                         *)
(* Duplicate detection and timestamps are those of Inbox, which            *)
(* Deduplicator implements.  The rate limiter's verdict is left open:      *)
(* RateLimiter says what it depends on.                                    *)
(***************************************************************************)
EXTENDS Naturals, FiniteSets

CONSTANTS
  Requests,       \* HTTP calls handled at the same time
  Messages,       \* (sender, message ID) pairs
  NoMessage,      \* what an idle handler is about
  Users,          \* Threema IDs
  Sender,         \* Sender[m]: who sent m
  AllowLists,     \* what allowed_users may be; {} lets everybody in
  RateLimiting,   \* rate_limiting.enabled
  Contents,       \* what bodies of messages may hold, a subset of Bodies
  MaxForgotten,   \* bound of the model: losses of one message
  MaxExpiries,    \* bound of the model: expiries of one user's notice
  MaxRestarts,    \* bound of the model: restarts of the process
  MaxLost         \* bound of the model: calls lost on the way, in either direction

(* forged: the MAC is wrong; unparsable: parameters are missing or wrong;
   garbled: decryption or decoding fails; reaction: a delivery receipt that is
   a classic reaction; silent: any other message that has no handler (files,
   edits, typing indicators, ...); text: a text or a location.              *)
Bodies == {"forged", "unparsable", "garbled", "reaction", "silent", "text"}

ASSUME WebhookHandlerAssumption ==
  /\ IsFiniteSet(Requests)
  /\ NoMessage \notin Messages
  /\ Sender \in [Messages -> Users]
  /\ AllowLists \subseteq SUBSET Users
  /\ RateLimiting \in BOOLEAN
  /\ Contents \subseteq Bodies
  /\ {MaxForgotten, MaxExpiries, MaxRestarts, MaxLost} \subseteq Nat

VARIABLES
  status, accepted, forgotten,   \* the variables of Inbox
  mistimed,   \* the messages whose timestamp was refused before they were too old
  allowedUsers, \* the configured allowed_users
  body,       \* body[m]: what m holds
  gateway,    \* gateway[m]: "pending" until the Gateway has seen a 200 for m
  pc,         \* pc[r]: where the handler of request r is
  cur,        \* cur[r]: the message that request r is about
  receipts,   \* receipts[m]: the receipts for m, by kind, sent or failed
  charged,    \* charged[m]: how often m was counted by the rate limiter
  notified,   \* the users in the rate limit notification cache
  notices,    \* notices[u]: the tasks that tell u of the limit, by their state
  expiries,   \* expiries[u]: how often the cache lost u
  fate,       \* fate[m]: what became of the times m was let through
  restarts,   \* how often the process restarted
  lost        \* how many answers, receipts and notices were lost on the way

given == <<allowedUsers, body>>
inbox == <<status, accepted, forgotten>>
arrivals == <<inbox, mistimed>>
limiting == <<charged, notified, notices, expiries>>
environment == <<restarts, lost>>
vars == <<given, arrivals, gateway, pc, cur, receipts, limiting, fate, environment>>

Memory == INSTANCE Inbox
  WITH Messages <- Messages, status <- status, accepted <- accepted, forgotten <- forgotten

Stages == {"idle", "arrived", "lookup", "received", "read", "limit",
           "getNotice", "insertNotice", "spawnNotice"}

\* Where a handler awaits.  A handler at "spawnNotice" has inserted the notice
\* and is still in the await of that insert.
Awaits == {"lookup", "received", "read", "getNotice", "insertNotice", "spawnNotice"}

\* What becomes of a message that duplicate detection let through.
Fates == {"noKey", "garbled", "ignored", "reacted", "denied", "limited",
          "dispatched", "cancelled", "crashed"}

\* A receipt is sent or fails; a failure may hide that it arrived.  A receipt whose
\* handler is dropped in the meantime is neither.
Receipts == [{"received", "read"} -> [sent : Nat, failed : Nat]]
NoReceipts == [kind \in {"received", "read"} |-> [sent |-> 0, failed |-> 0]]
Attempts(m, kind) == receipts[m][kind].sent + receipts[m][kind].failed

\* The task of a notice is pending until the user was told, or will not be.
Notices == [pending : Nat, told : Nat, untold : Nat]
NoNotices == [pending |-> 0, told |-> 0, untold |-> 0]

Acceptable(m) == body[m] \notin {"forged", "unparsable"}

TypeOK ==
  /\ Memory!TypeOK
  /\ mistimed \subseteq Messages
  /\ allowedUsers \subseteq Users
  /\ body \in [Messages -> Bodies]
  /\ gateway \in [Messages -> {"pending", "acked"}]
  /\ pc \in [Requests -> Stages]
  /\ cur \in [Requests -> Messages \cup {NoMessage}]
  /\ receipts \in [Messages -> Receipts]
  /\ charged \in [Messages -> Nat]
  /\ notified \subseteq Users
  /\ notices \in [Users -> Notices]
  /\ expiries \in [Users -> Nat]
  /\ fate \in [Messages -> [Fates -> Nat]]
  /\ restarts \in Nat
  /\ lost \in Nat

Init ==
  /\ Memory!Init
  /\ mistimed = {}
  /\ allowedUsers \in AllowLists
  /\ body \in [Messages -> Contents]
  /\ gateway = [m \in Messages |-> "pending"]
  /\ pc = [r \in Requests |-> "idle"]
  /\ cur = [r \in Requests |-> NoMessage]
  /\ receipts = [m \in Messages |-> NoReceipts]
  /\ charged = [m \in Messages |-> 0]
  /\ notified = {}
  /\ notices = [u \in Users |-> NoNotices]
  /\ expiries = [u \in Users |-> 0]
  /\ fate = [m \in Messages |-> [f \in Fates |-> 0]]
  /\ restarts = 0
  /\ lost = 0

-----------------------------------------------------------------------------

\* is_sender_allowed.
IsAllowed(u) == allowedUsers = {} \/ u \in allowedUsers

\* Faulty: reactions are routed before the allowlist is consulted.
RouteReactionsFirst(m) ==
  CASE body[m] = "garbled" -> "garbled"
    [] body[m] = "reaction" -> "reacted"
    [] body[m] = "text" -> IF IsAllowed(Sender[m]) THEN "process" ELSE "denied"
    [] OTHER -> "ignored"

\* The routing of a decrypted message: "process" goes on to the receipts.
Route(m) ==
  CASE body[m] = "garbled" -> "garbled"
    [] body[m] = "reaction" -> IF IsAllowed(Sender[m]) THEN "reacted" ELSE "ignored"
    [] body[m] = "text" -> IF IsAllowed(Sender[m]) THEN "process" ELSE "denied"
    [] OTHER -> "ignored"

Goto(r, stage) == pc' = [pc EXCEPT ![r] = stage]

\* The handler of r ends.
Leave(r) == Goto(r, "idle") /\ cur' = [cur EXCEPT ![r] = NoMessage]

\* The handler of r answers 200: the Gateway is done with the message, unless
\* the answer is lost.
AnswerOk(r) ==
  /\ Leave(r)
  /\ \/ gateway' = [gateway EXCEPT ![cur[r]] = "acked"] /\ UNCHANGED lost
     \/ lost < MaxLost /\ lost' = lost + 1 /\ UNCHANGED gateway

\* The handler of r answers 401 or 429: the Gateway will deliver again.
AnswerFailure(r) == Leave(r) /\ UNCHANGED <<gateway, lost>>

Meets(r, f) == fate' = [fate EXCEPT ![cur[r]][f] = @ + 1]

-----------------------------------------------------------------------------

\* The Gateway calls, for the first time or again; it does not wait for an
\* earlier call about the same message.
Deliver(r, m) ==
  /\ pc[r] = "idle"
  /\ gateway[m] = "pending"
  /\ Goto(r, "arrived")
  /\ cur' = [cur EXCEPT ![r] = m]
  /\ UNCHANGED <<arrivals, given, gateway, receipts, limiting, fate, environment>>

RejectForged(r) ==
  /\ pc[r] = "arrived"
  /\ body[cur[r]] = "forged"
  /\ AnswerFailure(r)
  /\ UNCHANGED <<arrivals, given, receipts, limiting, fate, restarts>>

RejectUnparsable(r) ==
  /\ pc[r] = "arrived"
  /\ body[cur[r]] = "unparsable"
  /\ AnswerOk(r)
  /\ UNCHANGED <<arrivals, given, receipts, limiting, fate, restarts>>

\* The timestamp lies in the future or is too old by the server's clock, which may
\* be wrong: a message that could be let through later is refused, too.
RefuseTimestamp(r) ==
  /\ pc[r] = "arrived"
  /\ Acceptable(cur[r])
  /\ mistimed' = mistimed \cup {m \in {cur[r]} : status[m] = "unseen"}
  /\ AnswerOk(r)
  /\ UNCHANGED <<inbox, given, receipts, limiting, fate, restarts>>

\* Faulty: a message counts as a duplicate without having been seen ...
RefuseAnything(r) ==
  /\ pc[r] = "arrived"
  /\ Acceptable(cur[r])
  /\ AnswerOk(r)
  /\ UNCHANGED <<arrivals, given, receipts, limiting, fate, restarts>>

\* ... and a duplicate is answered as a failure.
RefuseWithFailure(r) ==
  /\ pc[r] = "arrived"
  /\ Acceptable(cur[r])
  /\ status[cur[r]] = "seen"
  /\ AnswerFailure(r)
  /\ UNCHANGED <<arrivals, given, receipts, limiting, fate, restarts>>

\* The message is a duplicate.
RefuseDuplicate(r) ==
  /\ pc[r] = "arrived"
  /\ Acceptable(cur[r])
  /\ status[cur[r]] = "seen"
  /\ AnswerOk(r)
  /\ UNCHANGED <<arrivals, given, receipts, limiting, fate, restarts>>

\* The two checks follow each other without an await.
Refuse(r) == RefuseTimestamp(r) \/ RefuseDuplicate(r)

\* Faulty: the message is looked up and not marked as seen.
AdmitUnmarked(r) ==
  /\ pc[r] = "arrived"
  /\ Acceptable(cur[r])
  /\ status[cur[r]] = "unseen"
  /\ accepted' = [accepted EXCEPT ![cur[r]] = @ + 1]
  /\ Goto(r, "lookup")
  /\ UNCHANGED <<status, forgotten, mistimed, given, gateway, cur, receipts, limiting,
                 fate, environment>>

\* The message is new.  From here on it counts as seen, whatever happens.
Admit(r) ==
  /\ pc[r] = "arrived"
  /\ Acceptable(cur[r])
  /\ Memory!Accept(cur[r])
  /\ Goto(r, "lookup")
  /\ UNCHANGED <<mistimed, given, gateway, cur, receipts, limiting, fate, environment>>

LookupFails(r) ==
  /\ pc[r] = "lookup"
  /\ Meets(r, "noKey")
  /\ AnswerOk(r)
  /\ UNCHANGED <<arrivals, given, receipts, limiting, restarts>>

\* The key arrives, and the message is decrypted and routed.  A reaction and
\* the answer to an unlisted sender are left to a spawned task.
LookupSettles(r) ==
  /\ pc[r] = "lookup"
  /\ Route(cur[r]) # "process"
  /\ Meets(r, Route(cur[r]))
  /\ AnswerOk(r)
  /\ UNCHANGED <<arrivals, given, receipts, limiting, restarts>>

\* Faulty: the rate limiter is asked before the receipts are sent.
LookupProceedsToLimit(r) ==
  /\ pc[r] = "lookup"
  /\ Route(cur[r]) = "process"
  /\ Goto(r, "limit")
  /\ UNCHANGED <<arrivals, given, gateway, cur, receipts, limiting, fate, environment>>

LookupProceeds(r) ==
  /\ pc[r] = "lookup"
  /\ Route(cur[r]) = "process"
  /\ Goto(r, "received")
  /\ UNCHANGED <<arrivals, given, gateway, cur, receipts, limiting, fate, environment>>

\* The handler goes on whether a receipt is sent or fails.
SendReceipt(m, kind) ==
  \/ receipts' = [receipts EXCEPT ![m][kind].sent = @ + 1] /\ UNCHANGED lost
  \/ /\ lost < MaxLost /\ lost' = lost + 1
     /\ receipts' = [receipts EXCEPT ![m][kind].failed = @ + 1]

SendReceived(r) ==
  /\ pc[r] = "received"
  /\ SendReceipt(cur[r], "received")
  /\ Goto(r, "read")
  /\ UNCHANGED <<arrivals, given, gateway, cur, limiting, fate, restarts>>

SendRead(r) ==
  /\ pc[r] = "read"
  /\ SendReceipt(cur[r], "read")
  /\ Goto(r, "limit")
  /\ UNCHANGED <<arrivals, given, gateway, cur, limiting, fate, restarts>>

\* RateLimiterManager::check counts the message whatever its verdict is.
Charge(m) == charged' = [charged EXCEPT ![m] = IF RateLimiting THEN @ + 1 ELSE @]

\* Within the limit: processing is spawned, and the call is answered.
Dispatch(r) ==
  /\ pc[r] = "limit"
  /\ Charge(cur[r])
  /\ Meets(r, "dispatched")
  /\ AnswerOk(r)
  /\ UNCHANGED <<arrivals, given, receipts, notified, notices, expiries, restarts>>

\* Faulty: a refused message is not counted.
LimitUncharged(r) ==
  /\ pc[r] = "limit"
  /\ RateLimiting
  /\ Goto(r, "getNotice")
  /\ UNCHANGED <<arrivals, given, gateway, cur, receipts, limiting, fate, environment>>

Limit(r) ==
  /\ pc[r] = "limit"
  /\ RateLimiting
  /\ Charge(cur[r])
  /\ Goto(r, "getNotice")
  /\ UNCHANGED <<arrivals, given, gateway, cur, receipts, notified, notices, expiries,
                 fate, environment>>

\* Faulty: the notice is skipped for users who were not told.
SkipFirstNotice(r) ==
  /\ pc[r] = "getNotice"
  /\ Sender[cur[r]] \notin notified
  /\ Meets(r, "limited")
  /\ AnswerFailure(r)
  /\ UNCHANGED <<arrivals, given, receipts, limiting, restarts>>

\* The user was told a moment ago.
SkipNotice(r) ==
  /\ pc[r] = "getNotice"
  /\ Sender[cur[r]] \in notified
  /\ Meets(r, "limited")
  /\ AnswerFailure(r)
  /\ UNCHANGED <<arrivals, given, receipts, limiting, restarts>>

MissNotice(r) ==
  /\ pc[r] = "getNotice"
  /\ Sender[cur[r]] \notin notified
  /\ Goto(r, "insertNotice")
  /\ UNCHANGED <<arrivals, given, gateway, cur, receipts, limiting, fate, environment>>

\* Faulty: the notice is remembered for the message and not for its sender.
InsertNoticeOfMessage(r) ==
  /\ pc[r] = "insertNotice"
  /\ notified' = notified \cup {cur[r]}
  /\ Goto(r, "spawnNotice")
  /\ UNCHANGED <<arrivals, given, gateway, cur, receipts, charged, notices, expiries,
                 fate, environment>>

\* Faulty: the notice is not remembered at all.
InsertNoNotice(r) ==
  /\ pc[r] = "insertNotice"
  /\ Goto(r, "spawnNotice")
  /\ UNCHANGED <<arrivals, given, gateway, cur, receipts, limiting, fate, environment>>

InsertNotice(r) ==
  /\ pc[r] = "insertNotice"
  /\ notified' = notified \cup {Sender[cur[r]]}
  /\ Goto(r, "spawnNotice")
  /\ UNCHANGED <<arrivals, given, gateway, cur, receipts, charged, notices, expiries,
                 fate, environment>>

\* The handler leaves the notice to a task and does not wait for it.
SpawnNotice(r) ==
  /\ pc[r] = "spawnNotice"
  /\ notices' = [notices EXCEPT ![Sender[cur[r]]].pending = @ + 1]
  /\ Meets(r, "limited")
  /\ AnswerFailure(r)
  /\ UNCHANGED <<arrivals, given, receipts, charged, notified, expiries, restarts>>

\* A task that tells u of the limit ends; that sending failed is ignored.
FinishNotice(u) ==
  /\ notices[u].pending > 0
  /\ LET n == notices[u]
     IN  \/ /\ notices' = [notices EXCEPT ![u] =
                  [pending |-> n.pending - 1, told |-> n.told + 1, untold |-> n.untold]]
            /\ UNCHANGED lost
         \/ /\ lost < MaxLost /\ lost' = lost + 1
            /\ notices' = [notices EXCEPT ![u] =
                  [pending |-> n.pending - 1, told |-> n.told, untold |-> n.untold + 1]]
  /\ UNCHANGED <<arrivals, given, gateway, pc, cur, receipts, charged, notified, expiries,
                 fate, restarts>>

-----------------------------------------------------------------------------

\* The connection is closed while the handler awaits something.
Cancel(r) ==
  /\ pc[r] \in Awaits
  /\ Meets(r, "cancelled")
  /\ Leave(r)
  /\ UNCHANGED <<arrivals, given, gateway, receipts, limiting, environment>>

\* The requests that hold a message that was let through.
InFlight(m) == {r \in Requests : cur[r] = m /\ pc[r] \notin {"idle", "arrived"}}

\* The process restarts: all handlers, caches and tasks are gone.
Restart ==
  /\ restarts < MaxRestarts
  /\ restarts' = restarts + 1
  /\ pc' = [r \in Requests |-> "idle"]
  /\ cur' = [r \in Requests |-> NoMessage]
  /\ fate' = [m \in Messages |->
                [fate[m] EXCEPT !["crashed"] = @ + Cardinality(InFlight(m))]]
  /\ LET S == {m \in Messages : status[m] = "seen"}
     IN  /\ \A m \in S : forgotten[m] < MaxForgotten
         /\ Memory!Forget(S) \/ (S = {} /\ UNCHANGED inbox)
  /\ notified' = {}
  /\ expiries' = [u \in Users |-> IF u \in notified THEN expiries[u] + 1 ELSE expiries[u]]
  /\ notices' = [u \in Users |->
                   LET n == notices[u]
                   IN  [pending |-> 0, told |-> n.told, untold |-> n.untold + n.pending]]
  /\ UNCHANGED <<mistimed, given, gateway, receipts, charged, lost>>

\* The cache of seen messages drops one over its capacity.
Evict(m) ==
  /\ forgotten[m] < MaxForgotten
  /\ Memory!Forget({m})
  /\ UNCHANGED <<mistimed, given, gateway, pc, cur, receipts, limiting, fate, environment>>

\* Time passes: a message becomes too old ...
Retire(m) ==
  /\ status[m] # "retired"
  /\ Memory!Retire({m})
  /\ UNCHANGED <<mistimed, given, gateway, pc, cur, receipts, limiting, fate, environment>>

\* ... and a notice, too.
ExpireNotice(u) ==
  /\ u \in notified
  /\ expiries[u] < MaxExpiries
  /\ notified' = notified \ {u}
  /\ expiries' = [expiries EXCEPT ![u] = @ + 1]
  /\ UNCHANGED <<arrivals, given, gateway, pc, cur, receipts, charged, notices, fate,
                 environment>>

\* What the handler of r does of itself, once it was called.
Step(r) ==
  \/ RejectForged(r)
  \/ RejectUnparsable(r)
  \/ Refuse(r)
  \/ Admit(r)
  \/ LookupFails(r)
  \/ LookupSettles(r)
  \/ LookupProceeds(r)
  \/ SendReceived(r)
  \/ SendRead(r)
  \/ Dispatch(r)
  \/ Limit(r)
  \/ SkipNotice(r)
  \/ MissNotice(r)
  \/ InsertNotice(r)
  \/ SpawnNotice(r)

Next ==
  \/ \E r \in Requests, m \in Messages : Deliver(r, m)
  \/ \E r \in Requests : Step(r)
  \/ \E r \in Requests : Cancel(r)
  \/ Restart
  \/ \E m \in Messages : Evict(m)
  \/ \E m \in Messages : Retire(m)
  \/ \E u \in Users : ExpireNotice(u)
  \/ \E u \in Users : FinishNotice(u)

Spec == Init /\ [][Next]_vars

\* Every handler is scheduled (each HTTP request it makes comes to an end), and
\* the Gateway delivers a message again until it is acknowledged, whatever
\* other messages it delivers meanwhile.
Fairness ==
  /\ \A r \in Requests : WF_vars(Step(r))
  /\ \A m \in Messages : SF_vars(\E r \in Requests : Deliver(r, m))

FairSpec == Spec /\ Fairness

-----------------------------------------------------------------------------

\* How often m has met one of the Fates.
Settled(m) ==
  LET f == fate[m]
  IN  f["noKey"] + f["garbled"] + f["ignored"] + f["reacted"] + f["denied"]
        + f["limited"] + f["dispatched"] + f["cancelled"] + f["crashed"]

\* However often a message is delivered, and however its handlers overlap, it
\* is let through to one end only - one handler call, one denial, one refusal
\* by the rate limiter - unless the cache forgot it in between.
OneFate ==
  \A m \in Messages : Settled(m) + Cardinality(InFlight(m)) <= 1 + forgotten[m]

\* A message the Gateway will not deliver again, and that no handler holds, was
\* not lost without a reason: it was never acceptable, is too old, has met one of
\* the fates, or came with a timestamp that the server's clock did not like.  In
\* that last case retrying could have helped, in spite of what server/mod.rs says
\* where it answers 200; in the others it could not.
AcknowledgedIsSettled ==
  \A m \in Messages :
    gateway[m] = "acked" /\ InFlight(m) = {} =>
      \/ ~Acceptable(m)
      \/ status[m] = "retired"
      \/ m \in mistimed
      \/ Settled(m) > 0

\* The bot's handler runs, and the rate limiter refuses, only after the server has
\* tried to send both receipts, in their order and whatever came of it; no receipt
\* is tried again unless the cache forgot the message in between.
ReceiptsComeFirst ==
  \A m \in Messages :
    /\ fate[m]["dispatched"] + fate[m]["limited"] <= Attempts(m, "read")
    /\ Attempts(m, "read") <= Attempts(m, "received")
    /\ Attempts(m, "received") <= 1 + forgotten[m]

\* A sender who is not listed learns nothing of the bot but that access is
\* denied, not by an attempt that fails either, and uses none of its rate limit.
UnlistedIsOnlyDenied ==
  \A m \in Messages : ~IsAllowed(Sender[m]) =>
    /\ receipts[m] = NoReceipts
    /\ charged[m] = 0
    /\ notices[Sender[m]] = NoNotices
    /\ fate[m]["dispatched"] = 0 /\ fate[m]["reacted"] = 0

\* Redelivery costs a user nothing: a message that reaches the bot's handler
\* or is refused is counted by the rate limiter, and never twice.
ChargedOnce ==
  RateLimiting => \A m \in Messages :
    /\ fate[m]["dispatched"] + fate[m]["limited"] <= charged[m]
    /\ charged[m] <= 1 + forgotten[m]

\* The notices that were begun for u, whatever came of them.
Begun(u) == notices[u].pending + notices[u].told + notices[u].untold

\* For a user whose message was refused by the rate limiter a notice was begun,
\* or some handler is about to begin it, unless a closed connection or a restart
\* came in between; nobody is refused in silence because his entry in the cache
\* is taken for a notice that no one has begun (server/mod.rs: sending a
\* notification if rate limited).  A notice that was begun tells him unless its
\* sending fails or the process ends first: then it is untold, and not repeated.
LimitedIsTold ==
  \A m \in Messages : fate[m]["limited"] > 0 =>
    \/ Begun(Sender[m]) > 0
    \/ \E r \in Requests : pc[r] = "spawnNotice" /\ Sender[cur[r]] = Sender[m]
    \/ \E n \in Messages : /\ Sender[n] = Sender[m]
                           /\ fate[n]["cancelled"] + fate[n]["crashed"] > 0

\* Notices are deduplicated (server/mod.rs), but for handlers that looked into
\* the cache before one of them had filled it: of all that are refused between
\* two losses of a user's entry, at most those that overlap begin a notice.
FewNotices == \A u \in Users : Begun(u) <= Cardinality(Requests) * (1 + expiries[u])

=============================================================================
