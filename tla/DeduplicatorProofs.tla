------------------------- MODULE DeduplicatorProofs -------------------------
(***************************************************************************)
(* When the cache remembers a message for longer than the timestamp check  *)
(* can let it through (RetentionCoversAcceptance), Deduplicator implements *)
(* Inbox, and so lets no message through twice that it did not forget.     *)
(* The theorems hold for any number of requests, senders and messages, any *)
(* time to live, clock skew and preemption, and any capacity.              *)
(***************************************************************************)
EXTENDS Deduplicator, TLAPS

\* A request between its checks passed the first one not long ago.
CheckedRecently ==
  \A r \in Requests : checked[r] # NoMessage =>
    LET c == checked[r]
    IN  /\ c.since <= now
        /\ now - c.since <= MaxLag
        /\ stamp[c.msg] >= c.since - MaxAge
        /\ stamp[c.msg] <= c.since + MaxSkew + Lead

\* A remembered message was not inserted long before its own timestamp.
InsertedAfterStamp ==
  \A m \in Messages : Key(m) \in DOMAIN cache =>
    /\ cache[Key(m)] <= now
    /\ stamp[m] <= cache[Key(m)] + MaxSkew + Lead
    /\ accepted[m] > 0

\* The inductive invariant: neither the two checks nor the cache lose track of
\* how a message's timestamp relates to the monotonic clock.
IInv == TypeOK /\ CheckedRecently /\ InsertedAfterStamp

-----------------------------------------------------------------------------

LEMMA KeyIdentity == \A m \in Messages : Key(m) = m
  BY DEF Key, Messages

\* An entry that has expired is of a message that is too old by then.
LEMMA ExpiredIsOutdated ==
  ASSUME IInv, RetentionCoversAcceptance,
         NEW m \in Messages, Key(m) \in DOMAIN cache, Expired(Key(m))
  PROVE  Outdated(m)
<1>1. cache[m] \in Nat /\ stamp[m] \in Nat /\ now \in Nat
  BY KeyIdentity DEF IInv, TypeOK
<1>2. stamp[m] <= cache[m] + MaxSkew + Lead /\ now - cache[m] >= Ttl
  BY KeyIdentity DEF IInv, InsertedAfterStamp, Expired
<1> QED
  BY <1>1, <1>2, DeduplicatorAssumption
  DEF Outdated, RetentionCoversAcceptance, Lead

\* A request between its checks carries a message that is not too old.
LEMMA CheckedIsNotOutdated ==
  ASSUME IInv, NEW r \in Requests, checked[r] # NoMessage
  PROVE  checked[r].msg \in Messages /\ ~Outdated(checked[r].msg)
<1>1. checked[r] \in [msg : Messages, since : Nat]
  BY DEF IInv, TypeOK
<1>2. now \in Nat /\ stamp[checked[r].msg] \in Nat
  BY <1>1 DEF IInv, TypeOK
<1> QED
  BY <1>1, <1>2, DeduplicatorAssumption DEF IInv, CheckedRecently, Outdated

-----------------------------------------------------------------------------

LEMMA NothingCached ==
  /\ DOMAIN [m \in {} |-> 0] = {}
  /\ \E S \in SUBSET Messages : [m \in {} |-> 0] \in [S -> Nat]
<1>1. [m \in {} |-> 0] \in [{} -> Nat]
  OBVIOUS
<1> QED
  BY <1>1

LEMMA ForgetsType ==
  ASSUME forgotten \in [Messages -> Nat], NEW S, Forgets(S)
  PROVE  forgotten' \in [Messages -> Nat]
  BY DEF Forgets

\* What is left of the cache is a cache.
LEMMA WithoutType ==
  ASSUME \E S \in SUBSET Messages : cache \in [S -> Nat], NEW D
  PROVE  \E S \in SUBSET Messages : Without(cache, D) \in [S -> Nat]
<1>1. PICK S \in SUBSET Messages : cache \in [S -> Nat]
  OBVIOUS
<1>2. Without(cache, D) \in [S \ D -> Nat]
  BY <1>1 DEF Without
<1> QED
  BY <1>2

LEMMA InitIInv == Init => IInv
<1> SUFFICES ASSUME Init PROVE IInv
  OBVIOUS
<1>1. DOMAIN cache = {} /\ \E S \in SUBSET Messages : cache \in [S -> Nat]
  BY NothingCached DEF Init
<1>2. TypeOK
  <2>1. Stamps \subseteq Nat
    BY DeduplicatorAssumption DEF Stamps
  <2>2. stamp \in [Messages -> Nat]
    BY <2>1 DEF Init
  <2> QED
    BY <1>1, <2>2 DEF Init, TypeOK
<1>3. CheckedRecently
  BY DEF Init, CheckedRecently
<1> QED
  BY <1>1, <1>2, <1>3 DEF IInv, InsertedAfterStamp


LEMMA NextIInv == IInv /\ [Next]_vars => IInv'
<1> SUFFICES ASSUME IInv, [Next]_vars PROVE IInv'
  OBVIOUS
<1> USE DeduplicatorAssumption DEF IInv
<1>1. CASE Tick
  BY <1>1 DEF Tick, TypeOK, CheckedRecently, InsertedAfterStamp
<1>2. CASE AdjustClock
  BY <1>2 DEF AdjustClock, TypeOK, CheckedRecently, InsertedAfterStamp
<1>3. ASSUME NEW r \in Requests, NEW m \in Messages, ValidateTimestamp(r, m)
      PROVE  IInv'
  BY <1>3 DEF ValidateTimestamp, Fresh, wall, Lead, NoMessage,
              TypeOK, CheckedRecently, InsertedAfterStamp
<1>4. ASSUME NEW r \in Requests, NEW m \in Messages, RejectTimestamp(r, m)
      PROVE  IInv'
  BY <1>4 DEF RejectTimestamp, vars, TypeOK, CheckedRecently, InsertedAfterStamp
<1>5. ASSUME NEW r \in Requests, InsertNew(r) PROVE IInv'
  <2> DEFINE n == checked[r].msg
  <2>1. n \in Messages /\ Key(n) = n
    BY <1>5, KeyIdentity DEF InsertNew, TypeOK
  <2>2. /\ DOMAIN cache' = DOMAIN cache \cup {n}
        /\ \A k \in DOMAIN cache' :
             cache'[k] = IF k = n THEN now ELSE cache[k]
    BY <1>5, <2>1 DEF InsertNew
  <2>3. /\ accepted' = [accepted EXCEPT ![n] = @ + 1]
        /\ checked' = [checked EXCEPT ![r] = NoMessage]
        /\ UNCHANGED <<now, offset, stamp, forgotten>>
    BY <1>5 DEF InsertNew
  <2>4. \E S \in SUBSET Messages : cache' \in [S -> Nat]
    <3>1. PICK S \in SUBSET Messages : cache \in [S -> Nat]
      BY DEF TypeOK
    <3>2. cache' = [k \in S \cup {n} |-> IF k = n THEN now ELSE cache[k]]
      BY <1>5, <2>1, <3>1 DEF InsertNew
    <3>3. cache' \in [S \cup {n} -> Nat]
      BY <3>1, <3>2 DEF TypeOK
    <3> QED
      BY <2>1, <3>1, <3>3
  <2>5. TypeOK'
    BY <2>1, <2>3, <2>4 DEF TypeOK
  <2>6. CheckedRecently'
    BY <2>3 DEF CheckedRecently, TypeOK
  <2>7. stamp[n] <= now + MaxSkew + Lead
    <3>1. checked[r] \in [msg : Messages, since : Nat]
      BY <1>5 DEF InsertNew, TypeOK
    <3> QED
      BY <1>5, <2>1, <3>1 DEF InsertNew, CheckedRecently, TypeOK, Lead
  <2>8. InsertedAfterStamp'
    BY <2>1, <2>2, <2>3, <2>7, KeyIdentity DEF InsertedAfterStamp, TypeOK
  <2> QED
    BY <2>5, <2>6, <2>8
<1>6. ASSUME NEW r \in Requests, FindDuplicate(r) PROVE IInv'
  BY <1>6 DEF FindDuplicate, NoMessage, TypeOK, CheckedRecently, InsertedAfterStamp
<1>7. CASE Purge
  <2>1. \E S \in SUBSET Messages : cache' \in [S -> Nat]
    BY <1>7, WithoutType DEF Purge, TypeOK
  <2>2. TypeOK'
    BY <1>7, <2>1 DEF Purge, TypeOK
  <2> QED
    BY <1>7, <2>2 DEF Purge, Without, CheckedRecently, InsertedAfterStamp
<1>8. ASSUME NEW m \in Messages, Evict(m) PROVE IInv'
  <2>1. \E S \in SUBSET Messages : cache' \in [S -> Nat]
    BY <1>8, WithoutType DEF Evict, TypeOK
  <2>2. TypeOK'
    BY <1>8, <2>1, ForgetsType DEF Evict, TypeOK
  <2> QED
    BY <1>8, <2>2 DEF Evict, Without, CheckedRecently, InsertedAfterStamp
<1>9. CASE Restart
  <2>1. /\ DOMAIN cache' = {}
        /\ \E S \in SUBSET Messages : cache' \in [S -> Nat]
    BY <1>9, NothingCached DEF Restart
  <2>2. TypeOK'
    BY <1>9, <2>1, ForgetsType DEF Restart, TypeOK
  <2> QED
    BY <1>9, <2>1, <2>2 DEF Restart, CheckedRecently, InsertedAfterStamp
<1>10. CASE UNCHANGED vars
  BY <1>10 DEF vars, TypeOK, CheckedRecently, InsertedAfterStamp
<1> QED
  BY <1>1, <1>2, <1>3, <1>4, <1>5, <1>6, <1>7, <1>8, <1>9, <1>10 DEF Next

LEMMA Invariance == Spec => []IInv
  BY InitIInv, NextIInv, PTL DEF Spec

\* The type invariant.
THEOREM DeduplicatorTypeOK == Spec => []TypeOK
<1>1. IInv => TypeOK
  BY DEF IInv
<1> QED
  BY <1>1, Invariance, PTL

\* A request is told Duplicate only about a message that was let through,
\* for any senders that use the same message IDs.
THEOREM DeduplicatorNoMistakenIdentity == Spec => []NoMistakenIdentity
<1>1. IInv => NoMistakenIdentity
  BY DEF IInv, InsertedAfterStamp, NoMistakenIdentity, Remembered
<1> QED
  BY <1>1, Invariance, PTL

-----------------------------------------------------------------------------

LEMMA InitImplements == Init => Promise!Init
  BY DEF Init, Promise!Init, Standing

\* Every step is a step of Inbox or leaves its variables alone.
LEMMA StepImplements ==
  ASSUME RetentionCoversAcceptance, IInv, IInv', [Next]_vars
  PROVE  [Promise!Next]_(Promise!vars)
<1>1. ASSUME NEW m \in Messages PROVE Key(m) = m
  BY KeyIdentity
<1>2. CASE Tick
  <2>1. \A m \in Messages : Outdated(m) => Outdated(m)'
    BY <1>2, DeduplicatorAssumption DEF Tick, Outdated, IInv, TypeOK
  <2> DEFINE S == {m \in Messages : Outdated(m)'}
  <2>2. Standing' = [m \in Messages |-> IF m \in S THEN "retired" ELSE Standing[m]]
    BY <1>2, <2>1 DEF Tick, Standing
  <2>3. CASE S = {}
    BY <1>2, <2>2, <2>3 DEF Tick, Promise!vars, Standing
  <2>4. CASE S # {}
    BY <1>2, <2>2, <2>4 DEF Tick, Promise!Next, Promise!Retire
  <2> QED
    BY <2>3, <2>4
<1>3. ASSUME NEW r \in Requests, InsertNew(r) PROVE Promise!Next
  <2> DEFINE m == checked[r].msg
  <2>1. m \in Messages /\ ~Outdated(m)
    BY <1>3, CheckedIsNotOutdated DEF InsertNew
  <2>2. Key(m) \notin DOMAIN cache
    BY <1>3, <2>1, ExpiredIsOutdated DEF InsertNew, Remembered
  <2>3. \A n \in Messages : Outdated(n)' <=> Outdated(n)
    BY <1>3 DEF InsertNew, Outdated
  <2>4. DOMAIN cache' = DOMAIN cache \cup {m}
    BY <1>1, <1>3, <2>1 DEF InsertNew
  <2>5. Standing' = [Standing EXCEPT ![m] = "seen"]
    BY <1>1, <2>1, <2>3, <2>4 DEF Standing
  <2>6. Standing[m] = "unseen"
    BY <2>1, <2>2 DEF Standing
  <2>7. Promise!Accept(m)
    BY <1>3, <2>5, <2>6 DEF InsertNew, Promise!Accept
  <2> QED
    BY <2>1, <2>7 DEF Promise!Next
<1>4. ASSUME NEW m \in Messages, Evict(m) PROVE [Promise!Next]_(Promise!vars)
  <2>1. \A n \in Messages : Outdated(n)' <=> Outdated(n)
    BY <1>4 DEF Evict, Outdated
  <2>2. DOMAIN cache' = DOMAIN cache \ {m}
    BY <1>1, <1>4 DEF Evict, Without
  <2>3. CASE Outdated(m)
    <3>1. Standing' = Standing
      BY <1>1, <2>1, <2>2, <2>3 DEF Standing
    <3>2. forgotten' = forgotten
      BY <1>4, <2>3 DEF Evict, Forgets, IInv, TypeOK
    <3> QED
      BY <1>4, <3>1, <3>2 DEF Evict, Promise!vars
  <2>4. CASE ~Outdated(m)
    <3>1. Standing[m] = "seen"
      BY <1>4, <2>4 DEF Evict, Remembered, Standing
    <3>2. Standing' = [n \in Messages |-> IF n \in {m} THEN "unseen" ELSE Standing[n]]
      BY <1>1, <2>1, <2>2, <2>4 DEF Standing
    <3>3. forgotten' = [n \in Messages |->
                         IF n \in {m} THEN forgotten[n] + 1 ELSE forgotten[n]]
      BY <1>4, <2>4 DEF Evict, Forgets
    <3>4. Promise!Forget({m})
      BY <1>4, <3>1, <3>2, <3>3 DEF Evict, Promise!Forget
    <3> QED
      BY <3>4 DEF Promise!Next
  <2> QED
    BY <2>3, <2>4
<1>5. CASE Restart
  <2> DEFINE S == {m \in Messages : Remembered(m) /\ ~Outdated(m)}
  <2>1. \A n \in Messages : Outdated(n)' <=> Outdated(n)
    BY <1>5 DEF Restart, Outdated
  <2>2. DOMAIN cache' = {}
    BY <1>5, NothingCached DEF Restart
  <2>3. \A n \in Messages : Key(n) \in DOMAIN cache => n \in S \/ Outdated(n)
    BY ExpiredIsOutdated DEF Remembered
  <2>4. \A n \in S : Standing[n] = "seen"
    BY DEF Standing, Remembered
  <2>5. Standing' = [n \in Messages |-> IF n \in S THEN "unseen" ELSE Standing[n]]
    BY <2>1, <2>2, <2>3 DEF Standing
  <2>6. /\ forgotten' = [n \in Messages |->
                          IF n \in S THEN forgotten[n] + 1 ELSE forgotten[n]]
        /\ accepted' = accepted
    BY <1>5 DEF Restart, Forgets
  <2>7. CASE S = {}
    <3>1. Standing' = Standing
      BY <2>5, <2>7 DEF Standing
    <3>2. forgotten' = forgotten
      BY <2>6, <2>7 DEF IInv, TypeOK
    <3> QED
      BY <2>6, <3>1, <3>2 DEF Promise!vars
  <2>8. CASE S # {}
    <3>1. Promise!Forget(S)
      BY <2>4, <2>5, <2>6, <2>8 DEF Promise!Forget
    <3> QED
      BY <3>1 DEF Promise!Next
  <2> QED
    BY <2>7, <2>8
<1>6. CASE Purge
  <2>1. \A n \in Messages : Outdated(n)' <=> Outdated(n)
    BY <1>6 DEF Purge, Outdated
  <2>2. \A n \in Messages : Key(n) \in DOMAIN cache /\ Key(n) \notin DOMAIN cache'
                              => Outdated(n)
    BY <1>6, ExpiredIsOutdated DEF Purge, Without
  <2>3. DOMAIN cache' \subseteq DOMAIN cache
    BY <1>6 DEF Purge, Without
  <2>4. Standing' = Standing
    BY <2>1, <2>2, <2>3 DEF Standing
  <2> QED
    BY <1>6, <2>4 DEF Purge, Promise!vars
<1>7. ASSUME UNCHANGED <<now, stamp, cache, accepted, forgotten>>
      PROVE  UNCHANGED Promise!vars
  BY <1>7 DEF Promise!vars, Standing, Outdated, Key
<1>8. CASE \/ AdjustClock
           \/ \E r \in Requests, m \in Messages : ValidateTimestamp(r, m)
           \/ \E r \in Requests, m \in Messages : RejectTimestamp(r, m)
           \/ \E r \in Requests : FindDuplicate(r)
           \/ UNCHANGED vars
  BY <1>7, <1>8 DEF AdjustClock, ValidateTimestamp, RejectTimestamp, FindDuplicate, vars
<1> QED
  BY <1>2, <1>3, <1>4, <1>5, <1>6, <1>8 DEF Next

\* The timestamp check, the two clocks and the cache together keep Inbox's
\* promise when the retention covers the acceptance of a message.
THEOREM DeduplicatorImplementsInbox ==
  ASSUME RetentionCoversAcceptance
  PROVE  Spec => ImplementsInbox
<1>1. IInv /\ IInv' /\ [Next]_vars => [Promise!Next]_(Promise!vars)
  BY StepImplements
<1> QED
  BY <1>1, InitImplements, Invariance, PTL DEF Spec, ImplementsInbox, Promise!Spec

\* A message that would be let through now has been forgotten as often as it
\* was let through; any other may be one ahead.
Balance ==
  \A m \in Messages :
    /\ accepted[m] <= 1 + forgotten[m]
    /\ Standing[m] = "unseen" => accepted[m] <= forgotten[m]

LEMMA NextBalance ==
  Promise!TypeOK /\ Balance /\ [Promise!Next]_(Promise!vars) => Promise!TypeOK' /\ Balance'
<1> SUFFICES ASSUME Promise!TypeOK, Balance, [Promise!Next]_(Promise!vars)
             PROVE  Promise!TypeOK' /\ Balance'
  OBVIOUS
<1> USE DEF Promise!TypeOK, Promise!Statuses, Balance
<1>1. ASSUME NEW m \in Messages, Promise!Accept(m) PROVE Promise!TypeOK' /\ Balance'
  BY <1>1 DEF Promise!Accept
<1>2. ASSUME NEW S \in SUBSET Messages, Promise!Forget(S) PROVE Promise!TypeOK' /\ Balance'
  BY <1>2 DEF Promise!Forget
<1>3. ASSUME NEW S \in SUBSET Messages, Promise!Retire(S) PROVE Promise!TypeOK' /\ Balance'
  BY <1>3 DEF Promise!Retire
<1>4. CASE UNCHANGED Promise!vars
  BY <1>4 DEF Promise!vars
<1> QED
  BY <1>1, <1>2, <1>3, <1>4 DEF Promise!Next

\* Inbox itself lets no message through twice that it did not forget.
LEMMA PromiseAtMostOnce == Promise!Spec => []AtMostOnce
<1>1. Promise!Init => Promise!TypeOK /\ Balance
  BY DEF Promise!Init, Promise!TypeOK, Promise!Statuses, Balance
<1>2. Promise!TypeOK /\ Balance => AtMostOnce
  BY DEF Balance, AtMostOnce
<1> QED
  BY <1>1, <1>2, NextBalance, PTL DEF Promise!Spec

\* A message that is let through twice was lost by a restart or an eviction
\* in between, whatever the clocks did: from Inbox, by the refinement.
THEOREM DeduplicatorAtMostOnce ==
  ASSUME RetentionCoversAcceptance
  PROVE  Spec => []AtMostOnce
BY DeduplicatorImplementsInbox, PromiseAtMostOnce, PTL DEF ImplementsInbox

=============================================================================
