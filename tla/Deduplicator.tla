---------------------------- MODULE Deduplicator ----------------------------
(***************************************************************************)
(* Replay protection of the webhook: the timestamp check (webhook.rs) and  *)
(* the duplicate check (dedup.rs), in the order the webhook handler makes  *)
(* them (server/mod.rs), with the two clocks they read.                    *)
(*                                                                         *)
(* The timestamp check reads the wall clock, which may be set back and     *)
(* forth; the cache of seen messages measures the age of its entries with  *)
(* the monotonic clock.  `now` is the monotonic clock and now + offset the *)
(* wall clock.  The handler may be preempted between the two checks.       *)
(***************************************************************************)
EXTENDS Integers, FiniteSets

CONSTANTS
  Requests,      \* webhook calls being handled at the same time
  Senders,       \* Threema IDs of the senders
  MessageIds,    \* message IDs, which each sender assigns for itself
  Ttl,           \* time to live of a cache entry
  MaxAge,        \* max_webhook_age_seconds
  Capacity,      \* message_id_cache_size
  MaxLead,       \* how far ahead of the wall clock a timestamp may be
  MaxSkew,       \* how far the wall clock may stray
  MaxLag,        \* the longest a handler takes from one check to the other
  MaxTime,       \* bound of the model: last tick
  MaxForgotten   \* bound of the model: losses of one message

ASSUME DeduplicatorAssumption ==
  /\ MaxAge \in Int
  /\ {Ttl, Capacity, MaxLead, MaxSkew, MaxLag, MaxTime, MaxForgotten} \subseteq Nat

Messages == Senders \X MessageIds

\* Faulty keys, for testing the properties: the message ID alone ...
BareKey(m) == <<m[2]>>

\* ... and a pair whose sender part is always the same.
CollidingKey(m) == <<CHOOSE s \in Senders : TRUE, m[2]>>

\* What the cache is keyed on: message IDs of two senders may collide.
Key(m) == <<m[1], m[2]>>

VARIABLES
  now,        \* monotonic clock, in seconds
  offset,     \* wall clock minus monotonic clock
  stamp,      \* stamp[m]: the date field of m's webhook calls
  cache,      \* the moment each remembered key was inserted
  checked,    \* checked[r]: the message of request r between the two checks
  accepted,   \* accepted[m]: how often m was found New
  forgotten   \* forgotten[m]: how often the cache lost m while it mattered

vars == <<now, offset, stamp, cache, checked, accepted, forgotten>>

NoMessage == [since |-> -1]

wall == now + offset

Stamps == 0..(MaxTime + MaxSkew + MaxLead)

TypeOK ==
  /\ now \in Nat
  /\ offset \in 0..MaxSkew
  /\ stamp \in [Messages -> Nat]
  /\ \E S \in SUBSET Messages : cache \in [S -> Nat]
  /\ checked \in [Requests -> [msg : Messages, since : Nat] \cup {NoMessage}]
  /\ accepted \in [Messages -> Nat]
  /\ forgotten \in [Messages -> Nat]

Init ==
  /\ now = 0
  /\ offset \in 0..MaxSkew
  /\ stamp \in [Messages -> Stamps]
  /\ cache = [m \in {} |-> 0]
  /\ checked = [r \in Requests |-> NoMessage]
  /\ accepted = [m \in Messages |-> 0]
  /\ forgotten = [m \in Messages |-> 0]

-----------------------------------------------------------------------------

\* validate_timestamp: neither too old nor too far in the future.
Fresh(m) ==
  LET age == wall - stamp[m]
  IN  /\ age <= MaxAge
      /\ age >= -MaxAge

\* Faulty: an entry is gone one second early.
ExpiredEarly(k) == now - cache[k] >= Ttl - 1

Expired(k) == now - cache[k] >= Ttl

\* m has an entry that has not expired.
Remembered(m) ==
  /\ Key(m) \in DOMAIN cache
  /\ ~Expired(Key(m))

\* No clock setting lets m pass the timestamp check any more, and no request
\* that passed it earlier can still be on its way to the duplicate check.
Outdated(m) == now - stamp[m] > MaxAge + MaxLag

Without(f, S) == [m \in DOMAIN f \ S |-> f[m]]

Forgets(S) ==
  forgotten' = [m \in Messages |->
                  IF m \in S THEN forgotten[m] + 1 ELSE forgotten[m]]

-----------------------------------------------------------------------------

\* Time passes.  A handler between its two checks does not await anything,
\* so it is never longer there than MaxLag.
Tick ==
  /\ now < MaxTime
  /\ \A r \in Requests : checked[r] # NoMessage => now - checked[r].since < MaxLag
  /\ now' = now + 1
  /\ UNCHANGED <<offset, stamp, cache, checked, accepted, forgotten>>

\* The wall clock is set (NTP, an administrator).
AdjustClock ==
  /\ offset' \in 0..MaxSkew
  /\ offset' # offset
  /\ UNCHANGED <<now, stamp, cache, checked, accepted, forgotten>>

\* A webhook call for m passes the timestamp check.  Its timestamp is not
\* further ahead of the wall clock than senders' clocks are.
ValidateTimestamp(r, m) ==
  /\ checked[r] = NoMessage
  /\ stamp[m] <= wall + MaxLead
  /\ Fresh(m)
  /\ checked' = [checked EXCEPT ![r] = [msg |-> m, since |-> now]]
  /\ UNCHANGED <<now, offset, stamp, cache, accepted, forgotten>>

\* A webhook call for m fails the timestamp check: the handler acknowledges
\* it and does nothing else.
RejectTimestamp(r, m) ==
  /\ checked[r] = NoMessage
  /\ stamp[m] <= wall + MaxLead
  /\ ~Fresh(m)
  /\ UNCHANGED vars

\* Faulty: the message is found New and is not recorded.
InsertNothing(r) ==
  /\ checked[r] # NoMessage
  /\ ~Remembered(checked[r].msg)
  /\ accepted' = [accepted EXCEPT ![checked[r].msg] = @ + 1]
  /\ checked' = [checked EXCEPT ![r] = NoMessage]
  /\ UNCHANGED <<now, offset, stamp, cache, forgotten>>

\* check_and_insert finds the message New.
InsertNew(r) ==
  /\ checked[r] # NoMessage
  /\ LET m == checked[r].msg
     IN  /\ ~Remembered(m)
         /\ cache' = [k \in DOMAIN cache \cup {Key(m)} |->
                        IF k = Key(m) THEN now ELSE cache[k]]
         /\ accepted' = [accepted EXCEPT ![m] = @ + 1]
  /\ checked' = [checked EXCEPT ![r] = NoMessage]
  /\ UNCHANGED <<now, offset, stamp, forgotten>>

\* check_and_insert finds a Duplicate.  The entry keeps its insertion time.
FindDuplicate(r) ==
  /\ checked[r] # NoMessage
  /\ Remembered(checked[r].msg)
  /\ checked' = [checked EXCEPT ![r] = NoMessage]
  /\ UNCHANGED <<now, offset, stamp, cache, accepted, forgotten>>

\* The cache drops expired entries in its own time.
Purge ==
  /\ \E k \in DOMAIN cache : Expired(k)
  /\ cache' = Without(cache, {k \in DOMAIN cache : Expired(k)})
  /\ UNCHANGED <<now, offset, stamp, checked, accepted, forgotten>>

\* The cache holds more than its capacity and drops an entry of its choice;
\* its admission policy may choose the newest.
Evict(m) ==
  /\ Cardinality(DOMAIN cache) > Capacity
  /\ Remembered(m)
  /\ forgotten[m] < MaxForgotten
  /\ cache' = Without(cache, {Key(m)})
  /\ Forgets({m} \ {n \in Messages : Outdated(n)})
  /\ UNCHANGED <<now, offset, stamp, checked, accepted>>

\* The process restarts: nothing is persisted.
Restart ==
  /\ \A m \in Messages : Remembered(m) => forgotten[m] < MaxForgotten
  /\ cache' = [m \in {} |-> 0]
  /\ checked' = [r \in Requests |-> NoMessage]
  /\ Forgets({m \in Messages : Remembered(m) /\ ~Outdated(m)})
  /\ UNCHANGED <<now, offset, stamp, accepted>>

Next ==
  \/ Tick
  \/ AdjustClock
  \/ \E r \in Requests, m \in Messages : ValidateTimestamp(r, m)
  \/ \E r \in Requests, m \in Messages : RejectTimestamp(r, m)
  \/ \E r \in Requests : InsertNew(r)
  \/ \E r \in Requests : FindDuplicate(r)
  \/ Purge
  \/ \E m \in Messages : Evict(m)
  \/ Restart

Spec == Init /\ [][Next]_vars

-----------------------------------------------------------------------------

\* The furthest ahead of the wall clock an acceptable timestamp can be.
Lead == IF MaxLead < MaxAge THEN MaxLead ELSE MaxAge

\* Not an assumption: BotServer::run fixes Ttl at 300 s whatever the
\* configured MaxAge is, so a deployment satisfies this or does not.
RetentionCoversAcceptance == Lead + MaxAge + MaxSkew + MaxLag < Ttl

\* A message that is let through twice was lost by a restart or an eviction
\* in between, whatever the two clocks did (dedup.rs: a cache of recently
\* seen messages to prevent replay; webhook.rs: old messages are refused).
AtMostOnce == \A m \in Messages : accepted[m] <= 1 + forgotten[m]

\* A request is told Duplicate only about a message that some request was
\* let through with: no message is lost by being mistaken for one that
\* another sender gave the same ID (dedup.rs: keyed on sender and ID).
NoMistakenIdentity == \A m \in Messages : Remembered(m) => accepted[m] > 0

\* What the clocks and the cache together make of a message.
Standing ==
  [m \in Messages |-> IF Outdated(m) THEN "retired"
                      ELSE IF Key(m) \in DOMAIN cache THEN "seen" ELSE "unseen"]

Promise == INSTANCE Inbox
  WITH Messages <- Messages, status <- Standing, accepted <- accepted,
       forgotten <- forgotten

\* Timestamps, clocks and the cache implement Inbox: every step is one of its
\* steps or leaves what it promises alone.
ImplementsInbox == Promise!Spec

=============================================================================
