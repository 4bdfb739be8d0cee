------------------------ MODULE WebhookHandlerProofs ------------------------
(***************************************************************************)
(* The webhook endpoint, for any number of overlapping calls, any messages *)
(* and allowlists, and any number of faults.  What is proved is, in this   *)
(* order: types; that an unlisted sender gets nothing but a denial; that a *)
(* message meets one fate per time it is let through and is acknowledged   *)
(* only with a reason; that attempts at receipts and charges come before   *)
(* verdicts and are not repeated; that a notice is begun for who is        *)
(* refused, and how many are at most.                                      *)
(***************************************************************************)
EXTENDS WebhookHandler, FiniteSetTheorems, TLAPS

\* A handler that is not idle is about a message.
Held == \A r \in Requests : pc[r] # "idle" => cur[r] \in Messages

TypeInv == TypeOK /\ Held

LEMMA FlightFinite ==
  \A m : IsFiniteSet(InFlight(m)) /\ Cardinality(InFlight(m)) \in Nat
BY WebhookHandlerAssumption, FS_Subset, FS_CardinalityType DEF InFlight

LEMMA InitTypeInv == Init => TypeInv
BY WebhookHandlerAssumption
DEF Init, TypeInv, TypeOK, Held, Memory!Init, Memory!TypeOK, Memory!Statuses, Stages,
    NoReceipts, Receipts, NoNotices, Notices

\* The two ways of a handler to go on, and the two to end: what they do to the
\* variables that they share.
LEMMA GotoType ==
  ASSUME TypeInv, NEW r \in Requests, NEW stage \in Stages \ {"idle"}, Goto(r, stage),
         pc[r] # "idle", UNCHANGED cur
  PROVE  /\ pc' \in [Requests -> Stages]
         /\ cur' \in [Requests -> Messages \cup {NoMessage}]
         /\ Held'
BY DEF TypeInv, TypeOK, Held, Goto

LEMMA LeaveType ==
  ASSUME TypeInv, NEW r \in Requests, Leave(r)
  PROVE  /\ pc' \in [Requests -> Stages]
         /\ cur' \in [Requests -> Messages \cup {NoMessage}]
         /\ Held'
BY DEF TypeInv, TypeOK, Held, Leave, Goto, Stages

LEMMA AnswerType ==
  ASSUME TypeInv, NEW r \in Requests, pc[r] # "idle", AnswerOk(r) \/ AnswerFailure(r)
  PROVE  /\ Leave(r)
         /\ gateway' \in [Messages -> {"pending", "acked"}]
         /\ lost' \in Nat
<1>1. gateway \in [Messages -> {"pending", "acked"}] /\ lost \in Nat
  BY DEF TypeInv, TypeOK
<1>2. CASE AnswerOk(r)
  BY <1>1, <1>2 DEF AnswerOk
<1>3. CASE AnswerFailure(r)
  BY <1>1, <1>3 DEF AnswerFailure
<1> QED
  BY <1>2, <1>3

LEMMA MeetsType ==
  ASSUME TypeInv, NEW r \in Requests, pc[r] # "idle", NEW f \in Fates, Meets(r, f)
  PROVE  fate' \in [Messages -> [Fates -> Nat]]
<1>1. cur[r] \in Messages /\ fate \in [Messages -> [Fates -> Nat]]
  BY DEF TypeInv, TypeOK, Held
<1>2. fate[cur[r]] \in [Fates -> Nat] /\ fate[cur[r]][f] + 1 \in Nat
  BY <1>1
<1>3. [fate[cur[r]] EXCEPT ![f] = @ + 1] \in [Fates -> Nat]
  BY <1>2
<1> QED
  BY <1>1, <1>3 DEF Meets

LEMMA NoneType == NoReceipts \in Receipts /\ NoNotices \in Notices
BY DEF NoReceipts, Receipts, NoNotices, Notices

LEMMA ReceiptType ==
  ASSUME TypeInv, NEW r \in Requests, pc[r] # "idle", NEW kind \in {"received", "read"},
         SendReceipt(cur[r], kind)
  PROVE  receipts' \in [Messages -> Receipts] /\ lost' \in Nat
<1>1. cur[r] \in Messages /\ receipts \in [Messages -> Receipts] /\ lost \in Nat
  BY DEF TypeInv, TypeOK, Held
<1>2. /\ receipts[cur[r]] \in [{"received", "read"} -> [sent : Nat, failed : Nat]]
      /\ receipts[cur[r]][kind] \in [sent : Nat, failed : Nat]
  BY <1>1 DEF Receipts
<1>3. /\ [receipts[cur[r]][kind] EXCEPT !.sent = @ + 1] \in [sent : Nat, failed : Nat]
      /\ [receipts[cur[r]][kind] EXCEPT !.failed = @ + 1] \in [sent : Nat, failed : Nat]
  BY <1>2
<1>4. /\ [receipts[cur[r]] EXCEPT ![kind].sent = @ + 1] \in Receipts
      /\ [receipts[cur[r]] EXCEPT ![kind].failed = @ + 1] \in Receipts
  BY <1>2, <1>3 DEF Receipts
<1> QED
  BY <1>1, <1>4 DEF SendReceipt

LEMMA ChargeType ==
  ASSUME TypeInv, NEW r \in Requests, pc[r] # "idle", Charge(cur[r])
  PROVE  charged' \in [Messages -> Nat]
<1>1. cur[r] \in Messages /\ charged \in [Messages -> Nat]
  BY DEF TypeInv, TypeOK, Held
<1> QED
  BY <1>1 DEF Charge

\* What becomes of the notices of one user.
LEMMA NoticesType ==
  ASSUME TypeInv, NEW u \in Users
  PROVE  /\ notices[u] \in Notices
         /\ notices[u].pending \in Nat /\ notices[u].told \in Nat /\ notices[u].untold \in Nat
BY DEF TypeInv, TypeOK, Notices

LEMMA SpawnType ==
  ASSUME TypeInv, NEW u \in Users
  PROVE  [notices EXCEPT ![u].pending = @ + 1] \in [Users -> Notices]
<1>1. notices \in [Users -> Notices] /\ notices[u] \in Notices
  BY DEF TypeInv, TypeOK
<1>2. [notices[u] EXCEPT !.pending = @ + 1] \in Notices
  BY <1>1 DEF Notices
<1> QED
  BY <1>1, <1>2

LEMMA FinishType ==
  ASSUME TypeInv, NEW u \in Users, FinishNotice(u)
  PROVE  notices' \in [Users -> Notices] /\ lost' \in Nat
<1>1. notices \in [Users -> Notices] /\ lost \in Nat
  BY DEF TypeInv, TypeOK
<1>2. /\ notices[u].pending - 1 \in Nat /\ notices[u].told \in Nat /\ notices[u].untold \in Nat
  <2>1. notices[u].pending > 0
    BY DEF FinishNotice
  <2> QED
    BY <2>1, NoticesType
<1>3. /\ [pending |-> notices[u].pending - 1, told |-> notices[u].told + 1,
           untold |-> notices[u].untold] \in Notices
      /\ [pending |-> notices[u].pending - 1, told |-> notices[u].told,
           untold |-> notices[u].untold + 1] \in Notices
  BY <1>2 DEF Notices
<1> QED
  BY <1>1, <1>3 DEF FinishNotice

LEMMA SenderType ==
  ASSUME TypeInv, NEW r \in Requests, pc[r] # "idle"
  PROVE  Sender[cur[r]] \in Users
BY WebhookHandlerAssumption DEF TypeInv, Held

LEMMA MemoryType ==
  ASSUME Memory!TypeOK, Memory!Next
  PROVE  Memory!TypeOK'
BY
DEF Memory!TypeOK, Memory!Next, Memory!Accept, Memory!Forget, Memory!Retire,
    Memory!Statuses

LEMMA MemoryChanges ==
  ASSUME Memory!TypeOK, Memory!Next \/ UNCHANGED inbox
  PROVE  Memory!TypeOK'
<1>1. CASE Memory!Next
  BY <1>1, MemoryType
<1>2. CASE UNCHANGED inbox
  BY <1>2 DEF inbox, Memory!TypeOK
<1> QED
  BY <1>1, <1>2

LEMMA NextTypeInv == TypeInv /\ [Next]_vars => TypeInv'
<1> SUFFICES ASSUME TypeInv, [Next]_vars PROVE TypeInv'
  OBVIOUS
<1> USE DEF given, inbox, arrivals, limiting, environment
<1>1. ASSUME NEW r \in Requests, NEW m \in Messages, Deliver(r, m) PROVE TypeInv'
  BY <1>1 DEF Deliver, Goto, Held, TypeInv, TypeOK, Memory!TypeOK, Stages
<1>2. ASSUME NEW r \in Requests, RejectForged(r) PROVE TypeInv'
  BY <1>2, AnswerType, LeaveType DEF RejectForged, TypeInv, TypeOK, Memory!TypeOK
<1>3. ASSUME NEW r \in Requests, RejectUnparsable(r) PROVE TypeInv'
  BY <1>3, AnswerType, LeaveType DEF RejectUnparsable, TypeInv, TypeOK, Memory!TypeOK
<1>4. ASSUME NEW r \in Requests, Refuse(r) PROVE TypeInv'
  <2>1. cur[r] \in Messages /\ pc[r] # "idle"
    BY <1>4 DEF Refuse, RefuseTimestamp, RefuseDuplicate, TypeInv, Held
  <2> QED
    BY <1>4, <2>1, AnswerType, LeaveType
    DEF Refuse, RefuseTimestamp, RefuseDuplicate, TypeInv, TypeOK, Memory!TypeOK
<1>5. ASSUME NEW r \in Requests, Admit(r) PROVE TypeInv'
  <2>1. cur[r] \in Messages
    BY <1>5 DEF Admit, TypeInv, Held
  <2>2. Memory!TypeOK'
    BY <1>5, <2>1, MemoryChanges DEF Admit, Memory!Next, TypeInv, TypeOK
  <2> QED
    BY <1>5, <2>2, GotoType DEF Admit, TypeInv, TypeOK, Stages
<1>6. ASSUME NEW r \in Requests, LookupFails(r) PROVE TypeInv'
  <2>1. Leave(r) /\ fate' \in [Messages -> [Fates -> Nat]]
    BY <1>6, AnswerType, MeetsType DEF LookupFails, Fates
  <2> QED
    BY <1>6, <2>1, AnswerType, LeaveType
    DEF LookupFails, TypeInv, TypeOK, Memory!TypeOK
<1>7. ASSUME NEW r \in Requests, LookupSettles(r) PROVE TypeInv'
  <2>1. Leave(r) /\ fate' \in [Messages -> [Fates -> Nat]]
    BY <1>7, AnswerType, MeetsType DEF LookupSettles, Fates, Route
  <2> QED
    BY <1>7, <2>1, AnswerType, LeaveType
    DEF LookupSettles, TypeInv, TypeOK, Memory!TypeOK
<1>8. ASSUME NEW r \in Requests, LookupProceeds(r) PROVE TypeInv'
  BY <1>8, GotoType DEF LookupProceeds, TypeInv, TypeOK, Memory!TypeOK, Stages
<1>9. ASSUME NEW r \in Requests, SendReceived(r) PROVE TypeInv'
  BY <1>9, GotoType, ReceiptType
  DEF SendReceived, TypeInv, TypeOK, Memory!TypeOK, Stages
<1>10. ASSUME NEW r \in Requests, SendRead(r) PROVE TypeInv'
  BY <1>10, GotoType, ReceiptType DEF SendRead, TypeInv, TypeOK, Memory!TypeOK, Stages
<1>11. ASSUME NEW r \in Requests, Dispatch(r) PROVE TypeInv'
  <2>1. Leave(r) /\ fate' \in [Messages -> [Fates -> Nat]]
    BY <1>11, AnswerType, MeetsType DEF Dispatch, Fates
  <2> QED
    BY <1>11, <2>1, AnswerType, LeaveType, ChargeType
    DEF Dispatch, TypeInv, TypeOK, Memory!TypeOK
<1>12. ASSUME NEW r \in Requests, Limit(r) PROVE TypeInv'
  BY <1>12, GotoType, ChargeType DEF Limit, TypeInv, TypeOK, Memory!TypeOK, Stages
<1>13. ASSUME NEW r \in Requests, SkipNotice(r) PROVE TypeInv'
  <2>1. Leave(r) /\ fate' \in [Messages -> [Fates -> Nat]]
    BY <1>13, AnswerType, MeetsType DEF SkipNotice, Fates
  <2> QED
    BY <1>13, <2>1, AnswerType, LeaveType
    DEF SkipNotice, TypeInv, TypeOK, Memory!TypeOK
<1>14. ASSUME NEW r \in Requests, MissNotice(r) PROVE TypeInv'
  BY <1>14, GotoType DEF MissNotice, TypeInv, TypeOK, Memory!TypeOK, Stages
<1>15. ASSUME NEW r \in Requests, InsertNotice(r) PROVE TypeInv'
  BY <1>15, GotoType, SenderType
  DEF InsertNotice, TypeInv, TypeOK, Memory!TypeOK, Stages
<1>16. ASSUME NEW r \in Requests, SpawnNotice(r) PROVE TypeInv'
  <2>1. Leave(r) /\ fate' \in [Messages -> [Fates -> Nat]]
    BY <1>16, AnswerType, MeetsType DEF SpawnNotice, Fates
  <2>2. notices' \in [Users -> Notices]
    BY <1>16, SenderType, SpawnType DEF SpawnNotice
  <2> QED
    BY <1>16, <2>1, <2>2, AnswerType, LeaveType
    DEF SpawnNotice, TypeInv, TypeOK, Memory!TypeOK
<1>17. ASSUME NEW r \in Requests, Cancel(r) PROVE TypeInv'
  <2>1. Leave(r) /\ fate' \in [Messages -> [Fates -> Nat]]
    BY <1>17, AnswerType, MeetsType DEF Cancel, Fates, Awaits
  <2> QED
    BY <1>17, <2>1, AnswerType, LeaveType DEF Cancel, TypeInv, TypeOK, Memory!TypeOK
<1>18. CASE Restart
  <2>1. Memory!TypeOK'
    BY <1>18, MemoryChanges DEF Restart, Memory!Next, TypeInv, TypeOK
  <2>2. ASSUME NEW m \in Messages
        PROVE  [fate[m] EXCEPT !["crashed"] = @ + Cardinality(InFlight(m))] \in [Fates -> Nat]
    <3>1. fate[m] \in [Fates -> Nat] /\ Cardinality(InFlight(m)) \in Nat
      BY FlightFinite DEF TypeInv, TypeOK
    <3>2. fate[m]["crashed"] + Cardinality(InFlight(m)) \in Nat
      BY <3>1 DEF Fates
    <3> QED
      BY <3>1, <3>2
  <2>3. fate' \in [Messages -> [Fates -> Nat]]
    BY <1>18, <2>2 DEF Restart
  <2>4. notices' \in [Users -> Notices]
    <3>1. ASSUME NEW u \in Users
          PROVE  [pending |-> 0, told |-> notices[u].told,
                  untold |-> notices[u].untold + notices[u].pending] \in Notices
      BY NoticesType DEF Notices
    <3> QED
      BY <1>18, <3>1 DEF Restart
  <2> QED
    BY <1>18, <2>1, <2>3, <2>4 DEF Restart, Held, TypeInv, TypeOK, Stages
<1>19. ASSUME NEW m \in Messages, Evict(m) \/ Retire(m) PROVE TypeInv'
  <2>1. Memory!TypeOK'
    BY <1>19, MemoryChanges DEF Evict, Retire, Memory!Next, TypeInv, TypeOK
  <2> QED
    BY <1>19, <2>1 DEF Evict, Retire, Held, TypeInv, TypeOK
<1>20. ASSUME NEW u \in Users, ExpireNotice(u) PROVE TypeInv'
  BY <1>20 DEF ExpireNotice, Held, TypeInv, TypeOK, Memory!TypeOK
<1>21. ASSUME NEW u \in Users, FinishNotice(u) PROVE TypeInv'
  <2>1. notices' \in [Users -> Notices] /\ lost' \in Nat
    BY <1>21, FinishType
  <2> QED
    BY <1>21, <2>1 DEF FinishNotice, Held, TypeInv, TypeOK, Memory!TypeOK
<1>22. CASE UNCHANGED vars
  BY <1>22 DEF vars, Held, TypeInv, TypeOK, Memory!TypeOK
<1> QED
  BY <1>1, <1>2, <1>3, <1>4, <1>5, <1>6, <1>7, <1>8, <1>9, <1>10, <1>11, <1>12,
     <1>13, <1>14, <1>15, <1>16, <1>17, <1>18, <1>19, <1>20, <1>21, <1>22
  DEF Next, Step

\* All variables keep their types, and a handler at work is about a message.
THEOREM WebhookHandlerTypeOK == Spec => []TypeOK
<1>1. TypeInv => TypeOK
  BY DEF TypeInv
<1> QED
  BY <1>1, InitTypeInv, NextTypeInv, PTL DEF Spec

-----------------------------------------------------------------------------

\* Past the routing of a message, its handler knows that the sender is listed.
OnlyListed ==
  \A r \in Requests :
    pc[r] \in Stages \ {"idle", "arrived", "lookup"} => IsAllowed(Sender[cur[r]])

UnlistedInv == TypeInv /\ OnlyListed /\ UnlistedIsOnlyDenied

LEMMA InitUnlistedInv == Init => UnlistedInv
BY InitTypeInv, WebhookHandlerAssumption
DEF Init, UnlistedInv, OnlyListed, UnlistedIsOnlyDenied, Fates

\* What the routing leads to for whom.
LEMMA RouteListed ==
  ASSUME NEW m \in Messages
  PROVE  /\ Route(m) # "dispatched"
         /\ Route(m) \in {"reacted", "process"} => IsAllowed(Sender[m])
         /\ Route(m) # "process" => Route(m) \in Fates
BY DEF Route, Fates

\* A handler that changes what an unlisted sender must not see changed does so
\* for a listed one.
LEMMA MeetsListed ==
  ASSUME UnlistedInv, NEW r \in Requests, pc[r] # "idle", NEW f \in Fates, Meets(r, f),
         f \in {"dispatched", "reacted"} => IsAllowed(Sender[cur[r]])
  PROVE  \A m \in Messages : ~IsAllowed(Sender[m]) =>
            fate'[m]["dispatched"] = 0 /\ fate'[m]["reacted"] = 0
<1> TAKE m \in Messages
<1>1. /\ cur[r] \in Messages
      /\ fate \in [Messages -> [Fates -> Nat]]
      /\ ~IsAllowed(Sender[m]) => fate[m]["dispatched"] = 0 /\ fate[m]["reacted"] = 0
  BY DEF UnlistedInv, UnlistedIsOnlyDenied, TypeInv, TypeOK, Held
<1>2. CASE m # cur[r]
  BY <1>1, <1>2 DEF Meets
<1>3. CASE m = cur[r]
  <2>1. fate[m] \in [Fates -> Nat]
    BY <1>1
  <2>2. fate'[m] = [fate[m] EXCEPT ![f] = @ + 1]
    BY <1>1, <1>3 DEF Meets
  <2> QED
    BY <1>1, <1>3, <2>1, <2>2 DEF Fates
<1> QED
  BY <1>2, <1>3

\* Where handlers go does not concern unlisted senders, unless it is past the
\* routing.
LEMMA GotoListed ==
  ASSUME UnlistedInv, NEW r \in Requests, NEW stage \in Stages, Goto(r, stage),
         UNCHANGED <<cur, allowedUsers>>,
         stage \in {"idle", "arrived", "lookup"} \/ IsAllowed(Sender[cur[r]])
  PROVE  OnlyListed'
BY DEF UnlistedInv, TypeInv, TypeOK, OnlyListed, Goto, IsAllowed, Stages

LEMMA LeaveListed ==
  ASSUME UnlistedInv, NEW r \in Requests, Leave(r), UNCHANGED allowedUsers
  PROVE  OnlyListed'
BY DEF UnlistedInv, TypeInv, TypeOK, OnlyListed, Leave, Goto, IsAllowed, Stages

LEMMA NextUnlistedInv == UnlistedInv /\ [Next]_vars => UnlistedInv'
<1> SUFFICES ASSUME UnlistedInv, [Next]_vars
      PROVE  OnlyListed' /\ UnlistedIsOnlyDenied'
  BY NextTypeInv DEF UnlistedInv
<1> USE DEF given, inbox, arrivals, limiting, environment
<1>1. /\ TypeInv /\ OnlyListed /\ UnlistedIsOnlyDenied
      /\ \A r \in Requests : pc[r] # "idle" => cur[r] \in Messages
  BY DEF UnlistedInv, TypeInv, Held
<1>2. ASSUME NEW r \in Requests, NEW m \in Messages, Deliver(r, m)
      PROVE  OnlyListed' /\ UnlistedIsOnlyDenied'
  <2>1. OnlyListed'
    BY <1>2, <1>1 DEF Deliver, Goto, OnlyListed, IsAllowed, TypeInv, TypeOK
  <2>2. UnlistedIsOnlyDenied'
    BY <1>2, <1>1 DEF Deliver, UnlistedIsOnlyDenied, IsAllowed
  <2> QED
    BY <2>1, <2>2
<1>3. ASSUME NEW r \in Requests, RejectForged(r) \/ RejectUnparsable(r) \/ Refuse(r)
      PROVE  OnlyListed' /\ UnlistedIsOnlyDenied'
  <2>1. OnlyListed'
    BY <1>3, LeaveListed
    DEF RejectForged, RejectUnparsable, Refuse, RefuseTimestamp, RefuseDuplicate,
        AnswerOk, AnswerFailure
  <2>2. UnlistedIsOnlyDenied'
    BY <1>3, <1>1
    DEF RejectForged, RejectUnparsable, Refuse, RefuseTimestamp, RefuseDuplicate,
        UnlistedIsOnlyDenied, IsAllowed
  <2> QED
    BY <2>1, <2>2
<1>4. ASSUME NEW r \in Requests, Admit(r)
      PROVE  OnlyListed' /\ UnlistedIsOnlyDenied'
  <2>1. OnlyListed'
    BY <1>4, GotoListed DEF Admit, Stages
  <2>2. UnlistedIsOnlyDenied'
    BY <1>4, <1>1 DEF Admit, UnlistedIsOnlyDenied, IsAllowed
  <2> QED
    BY <2>1, <2>2
<1>5. ASSUME NEW r \in Requests, LookupFails(r)
      PROVE  OnlyListed' /\ UnlistedIsOnlyDenied'
  <2>1. \A m \in Messages : ~IsAllowed(Sender[m]) =>
            fate'[m]["dispatched"] = 0 /\ fate'[m]["reacted"] = 0
    BY <1>5, <1>1, MeetsListed DEF LookupFails, Fates
  <2>2. OnlyListed'
    BY <1>5, LeaveListed DEF LookupFails, AnswerOk
  <2>3. UnlistedIsOnlyDenied'
    BY <1>5, <1>1, <2>1 DEF LookupFails, UnlistedIsOnlyDenied, IsAllowed
  <2> QED
    BY <2>2, <2>3
<1>6. ASSUME NEW r \in Requests, LookupSettles(r)
      PROVE  OnlyListed' /\ UnlistedIsOnlyDenied'
  <2>1. \A m \in Messages : ~IsAllowed(Sender[m]) =>
            fate'[m]["dispatched"] = 0 /\ fate'[m]["reacted"] = 0
    BY <1>6, <1>1, MeetsListed, RouteListed DEF LookupSettles, Fates
  <2>2. OnlyListed'
    BY <1>6, LeaveListed DEF LookupSettles, AnswerOk
  <2>3. UnlistedIsOnlyDenied'
    BY <1>6, <1>1, <2>1 DEF LookupSettles, UnlistedIsOnlyDenied, IsAllowed
  <2> QED
    BY <2>2, <2>3
<1>7. ASSUME NEW r \in Requests, LookupProceeds(r)
      PROVE  OnlyListed' /\ UnlistedIsOnlyDenied'
  <2>1. OnlyListed'
    BY <1>7, <1>1, RouteListed, GotoListed DEF LookupProceeds, Stages
  <2>2. UnlistedIsOnlyDenied'
    BY <1>7, <1>1 DEF LookupProceeds, UnlistedIsOnlyDenied, IsAllowed
  <2> QED
    BY <2>1, <2>2
<1>8. ASSUME NEW r \in Requests, SendReceived(r)
      PROVE  OnlyListed' /\ UnlistedIsOnlyDenied'
  <2>1. IsAllowed(Sender[cur[r]]) /\ cur[r] \in Messages
    BY <1>8, <1>1 DEF SendReceived, OnlyListed, Stages
  <2>2. OnlyListed'
    BY <1>8, <2>1, GotoListed DEF SendReceived, Stages
  <2>3. UnlistedIsOnlyDenied'
    BY <1>8, <1>1, <2>1
    DEF SendReceived, SendReceipt, UnlistedIsOnlyDenied, IsAllowed, TypeInv, TypeOK
  <2> QED
    BY <2>2, <2>3
<1>9. ASSUME NEW r \in Requests, SendRead(r)
      PROVE  OnlyListed' /\ UnlistedIsOnlyDenied'
  <2>1. IsAllowed(Sender[cur[r]]) /\ cur[r] \in Messages
    BY <1>9, <1>1 DEF SendRead, OnlyListed, Stages
  <2>2. OnlyListed'
    BY <1>9, <2>1, GotoListed DEF SendRead, Stages
  <2>3. UnlistedIsOnlyDenied'
    BY <1>9, <1>1, <2>1
    DEF SendRead, SendReceipt, UnlistedIsOnlyDenied, IsAllowed, TypeInv, TypeOK
  <2> QED
    BY <2>2, <2>3
<1>10. ASSUME NEW r \in Requests, Limit(r)
      PROVE  OnlyListed' /\ UnlistedIsOnlyDenied'
  <2>1. IsAllowed(Sender[cur[r]]) /\ cur[r] \in Messages
    BY <1>10, <1>1 DEF Limit, OnlyListed, Stages
  <2>2. OnlyListed'
    BY <1>10, <2>1, GotoListed DEF Limit, Stages
  <2>3. UnlistedIsOnlyDenied'
    BY <1>10, <1>1, <2>1
    DEF Limit, Charge, UnlistedIsOnlyDenied, IsAllowed, TypeInv, TypeOK
  <2> QED
    BY <2>2, <2>3
<1>11. ASSUME NEW r \in Requests, MissNotice(r)
      PROVE  OnlyListed' /\ UnlistedIsOnlyDenied'
  <2>1. IsAllowed(Sender[cur[r]]) /\ cur[r] \in Messages
    BY <1>11, <1>1 DEF MissNotice, OnlyListed, Stages
  <2>2. OnlyListed'
    BY <1>11, <2>1, GotoListed DEF MissNotice, Stages
  <2>3. UnlistedIsOnlyDenied'
    BY <1>11, <1>1, <2>1
    DEF MissNotice, UnlistedIsOnlyDenied, IsAllowed, TypeInv, TypeOK
  <2> QED
    BY <2>2, <2>3
<1>12. ASSUME NEW r \in Requests, InsertNotice(r)
      PROVE  OnlyListed' /\ UnlistedIsOnlyDenied'
  <2>1. IsAllowed(Sender[cur[r]]) /\ cur[r] \in Messages
    BY <1>12, <1>1 DEF InsertNotice, OnlyListed, Stages
  <2>2. OnlyListed'
    BY <1>12, <2>1, GotoListed DEF InsertNotice, Stages
  <2>3. UnlistedIsOnlyDenied'
    BY <1>12, <1>1, <2>1
    DEF InsertNotice, UnlistedIsOnlyDenied, IsAllowed, TypeInv, TypeOK
  <2> QED
    BY <2>2, <2>3
<1>13. ASSUME NEW r \in Requests, Dispatch(r)
      PROVE  OnlyListed' /\ UnlistedIsOnlyDenied'
  <2>1. IsAllowed(Sender[cur[r]]) /\ cur[r] \in Messages
    BY <1>13, <1>1 DEF Dispatch, OnlyListed, Stages
  <2>2. \A m \in Messages : ~IsAllowed(Sender[m]) =>
            fate'[m]["dispatched"] = 0 /\ fate'[m]["reacted"] = 0
    BY <1>13, <1>1, <2>1, MeetsListed DEF Dispatch, Fates
  <2>3. OnlyListed'
    BY <1>13, LeaveListed DEF Dispatch, AnswerOk
  <2>4. UnlistedIsOnlyDenied'
    BY <1>13, <1>1, <2>1, <2>2
    DEF Dispatch, Charge, UnlistedIsOnlyDenied, IsAllowed, TypeInv, TypeOK
  <2> QED
    BY <2>3, <2>4
<1>14. ASSUME NEW r \in Requests, SkipNotice(r)
      PROVE  OnlyListed' /\ UnlistedIsOnlyDenied'
  <2>1. IsAllowed(Sender[cur[r]]) /\ cur[r] \in Messages
    BY <1>14, <1>1 DEF SkipNotice, OnlyListed, Stages
  <2>2. \A m \in Messages : ~IsAllowed(Sender[m]) =>
            fate'[m]["dispatched"] = 0 /\ fate'[m]["reacted"] = 0
    BY <1>14, <1>1, <2>1, MeetsListed DEF SkipNotice, Fates
  <2>3. OnlyListed'
    BY <1>14, LeaveListed DEF SkipNotice, AnswerFailure
  <2>4. UnlistedIsOnlyDenied'
    BY <1>14, <1>1, <2>1, <2>2
    DEF SkipNotice, UnlistedIsOnlyDenied, IsAllowed, TypeInv, TypeOK
  <2> QED
    BY <2>3, <2>4
<1>15. ASSUME NEW r \in Requests, SpawnNotice(r)
      PROVE  OnlyListed' /\ UnlistedIsOnlyDenied'
  <2>1. IsAllowed(Sender[cur[r]]) /\ cur[r] \in Messages
    BY <1>15, <1>1 DEF SpawnNotice, OnlyListed, Stages
  <2>2. \A m \in Messages : ~IsAllowed(Sender[m]) =>
            fate'[m]["dispatched"] = 0 /\ fate'[m]["reacted"] = 0
    BY <1>15, <1>1, <2>1, MeetsListed DEF SpawnNotice, Fates
  <2>3. OnlyListed'
    BY <1>15, LeaveListed DEF SpawnNotice, AnswerFailure
  <2>4. UnlistedIsOnlyDenied'
    BY <1>15, <1>1, <2>1, <2>2
    DEF SpawnNotice, UnlistedIsOnlyDenied, IsAllowed, TypeInv, TypeOK
  <2> QED
    BY <2>3, <2>4
<1>16. ASSUME NEW r \in Requests, Cancel(r)
      PROVE  OnlyListed' /\ UnlistedIsOnlyDenied'
  <2>1. \A m \in Messages : ~IsAllowed(Sender[m]) =>
            fate'[m]["dispatched"] = 0 /\ fate'[m]["reacted"] = 0
    BY <1>16, <1>1, MeetsListed DEF Cancel, Fates, Awaits
  <2>2. OnlyListed'
    BY <1>16, LeaveListed DEF Cancel
  <2>3. UnlistedIsOnlyDenied'
    BY <1>16, <1>1, <2>1 DEF Cancel, UnlistedIsOnlyDenied, IsAllowed
  <2> QED
    BY <2>2, <2>3
<1>17. ASSUME Restart
      PROVE  OnlyListed' /\ UnlistedIsOnlyDenied'
  <2>1. \A m \in Messages :
          /\ fate'[m]["dispatched"] = fate[m]["dispatched"]
          /\ fate'[m]["reacted"] = fate[m]["reacted"]
    BY <1>17, <1>1 DEF Restart, TypeInv, TypeOK, Fates
  <2>2. OnlyListed'
    BY <1>17 DEF Restart, OnlyListed, Stages
  <2>3. ASSUME NEW u \in Users, notices[u] = NoNotices PROVE notices'[u] = NoNotices
    BY <1>17, <2>3 DEF Restart, NoNotices
  <2>4. UnlistedIsOnlyDenied'
    <3>1. UNCHANGED <<receipts, charged, allowedUsers>>
      BY <1>17 DEF Restart
    <3> QED
      BY <1>1, <2>1, <2>3, <3>1, WebhookHandlerAssumption
      DEF UnlistedIsOnlyDenied, IsAllowed
  <2> QED
    BY <2>2, <2>4
<1>18. ASSUME NEW m \in Messages, Evict(m) \/ Retire(m)
      PROVE  OnlyListed' /\ UnlistedIsOnlyDenied'
  <2>1. OnlyListed'
    BY <1>18, <1>1 DEF Evict, Retire, OnlyListed, IsAllowed
  <2>2. UnlistedIsOnlyDenied'
    BY <1>18, <1>1 DEF Evict, Retire, UnlistedIsOnlyDenied, IsAllowed
  <2> QED
    BY <2>1, <2>2
<1>19. ASSUME NEW u \in Users, ExpireNotice(u)
      PROVE  OnlyListed' /\ UnlistedIsOnlyDenied'
  <2>1. OnlyListed'
    BY <1>19, <1>1 DEF ExpireNotice, OnlyListed, IsAllowed
  <2>2. UnlistedIsOnlyDenied'
    BY <1>19, <1>1 DEF ExpireNotice, UnlistedIsOnlyDenied, IsAllowed
  <2> QED
    BY <2>1, <2>2
<1>20. ASSUME NEW u \in Users, FinishNotice(u)
      PROVE  OnlyListed' /\ UnlistedIsOnlyDenied'
  <2>1. OnlyListed'
    BY <1>20, <1>1 DEF FinishNotice, OnlyListed, IsAllowed
  <2>2. notices[u] # NoNotices
    BY <1>20 DEF FinishNotice, NoNotices
  <2>3. \A v \in Users : v # u => notices'[v] = notices[v]
    BY <1>20, <1>1 DEF FinishNotice, TypeInv, TypeOK
  <2>4. UNCHANGED <<receipts, charged, fate, allowedUsers>>
    BY <1>20 DEF FinishNotice
  <2>5. UnlistedIsOnlyDenied'
    BY <1>1, <2>2, <2>3, <2>4, WebhookHandlerAssumption
    DEF UnlistedIsOnlyDenied, IsAllowed
  <2> QED
    BY <2>1, <2>5
<1>21. ASSUME UNCHANGED vars
      PROVE  OnlyListed' /\ UnlistedIsOnlyDenied'
  <2>1. OnlyListed'
    BY <1>21, <1>1 DEF vars, OnlyListed, IsAllowed
  <2>2. UnlistedIsOnlyDenied'
    BY <1>21, <1>1 DEF vars, UnlistedIsOnlyDenied, IsAllowed
  <2> QED
    BY <2>1, <2>2
<1> QED
  BY <1>2, <1>3, <1>4, <1>5, <1>6, <1>7, <1>8, <1>9, <1>10, <1>11, <1>12, <1>13,
     <1>14, <1>15, <1>16, <1>17, <1>18, <1>19, <1>20, <1>21
  DEF Next, Step

\* A sender who is not listed learns nothing of the bot but that access is
\* denied, and uses none of its rate limit, whatever calls overlap or end early
\* (server/mod.rs: each branch of the routing consults the allowlist).
THEOREM WebhookHandlerUnlistedIsOnlyDenied == Spec => []UnlistedIsOnlyDenied
<1>1. UnlistedInv => UnlistedIsOnlyDenied
  BY DEF UnlistedInv
<1> QED
  BY <1>1, InitUnlistedInv, NextUnlistedInv, PTL DEF Spec

-----------------------------------------------------------------------------

\* Each time a message was let through it has met a fate, or a handler is at work on
\* it.
Counted ==
  \A m \in Messages : Settled(m) + Cardinality(InFlight(m)) = accepted[m]

\* What counts as seen was let through, and what is acknowledged was let through
\* or never will be.
Accounted ==
  \A m \in Messages :
    /\ status[m] = "seen" => accepted[m] > 0
    /\ gateway[m] = "acked" =>
         ~Acceptable(m) \/ status[m] = "retired" \/ m \in mistimed \/ accepted[m] > 0

FateInv == TypeInv /\ Counted /\ Accounted

LEMMA SettledType ==
  ASSUME TypeInv, NEW m \in Messages
  PROVE  Settled(m) \in Nat
<1>1. fate[m] \in [Fates -> Nat]
  BY DEF TypeInv, TypeOK
<1> QED
  BY <1>1 DEF Settled, Fates

LEMMA MeetsSettles ==
  ASSUME TypeInv, NEW r \in Requests, pc[r] # "idle", NEW f \in Fates, Meets(r, f),
         NEW m \in Messages
  PROVE  Settled(m)' = IF m = cur[r] THEN Settled(m) + 1 ELSE Settled(m)
<1>1. cur[r] \in Messages /\ fate[m] \in [Fates -> Nat]
  BY DEF TypeInv, TypeOK, Held
<1>2. CASE m # cur[r]
  BY <1>1, <1>2 DEF Meets, Settled, TypeInv, TypeOK
<1>3. CASE m = cur[r]
  <2>1. fate'[m] = [fate[m] EXCEPT ![f] = @ + 1]
    BY <1>1, <1>3 DEF Meets, TypeInv, TypeOK
  <2> QED
    BY <1>1, <1>3, <2>1 DEF Settled, Fates
<1> QED
  BY <1>2, <1>3

\* A handler at work takes up one more request of its message, and gives it
\* back when it ends.
LEMMA EnterFlight ==
  ASSUME TypeInv, NEW r \in Requests, pc[r] = "arrived", Goto(r, "lookup"), UNCHANGED cur,
         NEW m \in Messages
  PROVE  Cardinality(InFlight(m))' =
           IF m = cur[r] THEN Cardinality(InFlight(m)) + 1 ELSE Cardinality(InFlight(m))
<1>1. CASE m # cur[r]
  <2>1. InFlight(m)' = InFlight(m)
    BY <1>1 DEF InFlight, Goto, TypeInv, TypeOK
  <2> QED
    BY <1>1, <2>1
<1>2. CASE m = cur[r]
  <2>1. InFlight(m)' = InFlight(m) \cup {r} /\ r \notin InFlight(m)
    BY <1>2 DEF InFlight, Goto, TypeInv, TypeOK
  <2> QED
    BY <1>2, <2>1, FlightFinite, FS_AddElement
<1> QED
  BY <1>1, <1>2

LEMMA LeaveFlight ==
  ASSUME TypeInv, NEW r \in Requests, pc[r] \notin {"idle", "arrived"}, Leave(r),
         NEW m \in Messages
  PROVE  Cardinality(InFlight(m))' =
           IF m = cur[r] THEN Cardinality(InFlight(m)) - 1 ELSE Cardinality(InFlight(m))
<1>1. \A q \in Requests : q # r => pc'[q] = pc[q] /\ cur'[q] = cur[q]
  BY DEF Leave, Goto, TypeInv, TypeOK
<1>2. pc'[r] = "idle"
  BY DEF Leave, Goto, TypeInv, TypeOK
<1>3. CASE m # cur[r]
  <2>1. InFlight(m)' = InFlight(m)
    BY <1>1, <1>2, <1>3 DEF InFlight
  <2> QED
    BY <1>3, <2>1
<1>4. CASE m = cur[r]
  <2>1. InFlight(m)' = InFlight(m) \ {r} /\ r \in InFlight(m)
    BY <1>1, <1>2, <1>4 DEF InFlight
  <2> QED
    BY <1>4, <2>1, FlightFinite, FS_RemoveElement
<1> QED
  BY <1>3, <1>4

\* A handler that ends when its message meets a fate keeps the count.
LEMMA MeetsCounted ==
  ASSUME TypeInv, Counted, NEW r \in Requests, pc[r] \notin {"idle", "arrived"},
         NEW f \in Fates, Meets(r, f), Leave(r), UNCHANGED accepted
  PROVE  Counted'
<1> SUFFICES ASSUME NEW m \in Messages
             PROVE  Settled(m)' + Cardinality(InFlight(m))' = accepted'[m]
  BY DEF Counted
<1>1. Settled(m) \in Nat /\ Cardinality(InFlight(m)) \in Nat
  BY SettledType, FlightFinite
<1>2. Settled(m) + Cardinality(InFlight(m)) = accepted[m]
  BY DEF Counted
<1> QED
  BY <1>1, <1>2, MeetsSettles, LeaveFlight

\* So does one that goes on, or that ends before its message was let through.
LEMMA GotoCounted ==
  ASSUME TypeInv, Counted, NEW r \in Requests, NEW stage \in Stages, Goto(r, stage),
         \/ UNCHANGED cur
         \/ pc[r] \in {"idle", "arrived"},
         \A q \in Requests \ {r} : cur'[q] = cur[q],
         pc[r] \in {"idle", "arrived"} <=> stage \in {"idle", "arrived"},
         UNCHANGED <<accepted, fate>>
  PROVE  Counted'
<1> SUFFICES ASSUME NEW m \in Messages
             PROVE  Settled(m)' + Cardinality(InFlight(m))' = accepted'[m]
  BY DEF Counted
<1>1. InFlight(m)' = InFlight(m)
  BY DEF InFlight, Goto, TypeInv, TypeOK
<1> QED
  BY <1>1 DEF Counted, Settled

LEMMA InitFateInv == Init => FateInv
<1> SUFFICES ASSUME Init PROVE FateInv
  OBVIOUS
<1>1. \A m \in Messages : InFlight(m) = {}
  BY DEF Init, InFlight
<1>2. \A m \in Messages : Settled(m) = 0
  BY DEF Init, Settled, Fates
<1>3. Counted
  <2>1. Cardinality({}) = 0
    BY FS_EmptySet
  <2>2. \A m \in Messages : accepted[m] = 0
    BY DEF Init, Memory!Init
  <2> QED
    BY <1>1, <1>2, <2>1, <2>2 DEF Counted
<1>4. Accounted
  BY DEF Accounted, Init, Memory!Init
<1> QED
  BY <1>3, <1>4, InitTypeInv DEF FateInv

LEMMA NextCounted == TypeInv /\ Counted /\ [Next]_vars => Counted'
<1> SUFFICES ASSUME TypeInv, Counted, [Next]_vars PROVE Counted'
  OBVIOUS
<1> USE DEF inbox, arrivals
<1>1. ASSUME \A q \in Requests : pc'[q] = pc[q] /\ cur'[q] = cur[q],
             UNCHANGED <<accepted, fate>>
      PROVE  Counted'
  <2>1. \A m : InFlight(m)' = InFlight(m)
    BY <1>1 DEF InFlight
  <2> QED
    BY <1>1, <2>1 DEF Counted, Settled
<1>2. ASSUME NEW r \in Requests, NEW m \in Messages, Deliver(r, m) PROVE Counted'
  BY <1>2, GotoCounted DEF Deliver, Stages, TypeInv, TypeOK
<1>3. ASSUME NEW r \in Requests, RejectForged(r) \/ RejectUnparsable(r) \/ Refuse(r)
      PROVE  Counted'
  BY <1>3, GotoCounted
  DEF RejectForged, RejectUnparsable, Refuse, RefuseTimestamp, RefuseDuplicate, AnswerOk,
      AnswerFailure, Leave, Stages, TypeInv, TypeOK
<1>4. ASSUME NEW r \in Requests, Admit(r) PROVE Counted'
  <2> SUFFICES ASSUME NEW m \in Messages
               PROVE  Settled(m)' + Cardinality(InFlight(m))' = accepted'[m]
    BY DEF Counted
  <2>1. /\ Settled(m) \in Nat /\ Cardinality(InFlight(m)) \in Nat
        /\ Settled(m) + Cardinality(InFlight(m)) = accepted[m]
    BY SettledType, FlightFinite DEF Counted
  <2>2. Settled(m)' = Settled(m)
    BY <1>4 DEF Admit, Settled
  <2>3. accepted'[m] = IF m = cur[r] THEN accepted[m] + 1 ELSE accepted[m]
    BY <1>4 DEF Admit, Memory!Accept, TypeInv, TypeOK, Memory!TypeOK
  <2>4. Cardinality(InFlight(m))' =
          IF m = cur[r] THEN Cardinality(InFlight(m)) + 1 ELSE Cardinality(InFlight(m))
    BY <1>4, EnterFlight DEF Admit
  <2> QED
    BY <2>1, <2>2, <2>3, <2>4
<1>5. ASSUME NEW r \in Requests,
             \/ LookupFails(r) \/ LookupSettles(r) \/ Dispatch(r) \/ SkipNotice(r)
             \/ SpawnNotice(r) \/ Cancel(r)
      PROVE  Counted'
  <2>1. /\ pc[r] \notin {"idle", "arrived"} /\ Leave(r) /\ UNCHANGED accepted
        /\ \E f \in Fates : Meets(r, f)
    <3>1. CASE LookupSettles(r)
      BY <3>1, RouteListed DEF LookupSettles, AnswerOk, TypeInv, Held
    <3>2. CASE Cancel(r)
      BY <3>2 DEF Cancel, Awaits, Fates
    <3> QED
      BY <1>5, <3>1, <3>2
      DEF LookupFails, Dispatch, SkipNotice, SpawnNotice, AnswerOk, AnswerFailure, Fates
  <2> QED
    BY <2>1, MeetsCounted
<1>6. ASSUME NEW r \in Requests,
             \/ LookupProceeds(r) \/ SendReceived(r) \/ SendRead(r) \/ Limit(r)
             \/ MissNotice(r) \/ InsertNotice(r)
      PROVE  Counted'
  <2>1. /\ pc[r] \notin {"idle", "arrived"} /\ UNCHANGED <<cur, accepted, fate>>
        /\ \E stage \in Stages \ {"idle", "arrived"} : Goto(r, stage)
    BY <1>6
    DEF LookupProceeds, SendReceived, SendRead, Limit, MissNotice, InsertNotice, Stages
  <2> QED
    BY <2>1, GotoCounted
<1>7. CASE Restart
  <2> SUFFICES ASSUME NEW m \in Messages
               PROVE  Settled(m)' + Cardinality(InFlight(m))' = accepted'[m]
    BY DEF Counted
  <2>1. /\ fate[m] \in [Fates -> Nat] /\ Cardinality(InFlight(m)) \in Nat
        /\ Settled(m) + Cardinality(InFlight(m)) = accepted[m]
    BY FlightFinite DEF Counted, TypeInv, TypeOK
  <2>2. fate'[m] = [fate[m] EXCEPT !["crashed"] = @ + Cardinality(InFlight(m))]
    BY <1>7 DEF Restart
  <2>3. Settled(m)' = Settled(m) + Cardinality(InFlight(m))
    BY <2>1, <2>2 DEF Settled, Fates
  <2>4. InFlight(m)' = {}
    BY <1>7 DEF Restart, InFlight
  <2>5. UNCHANGED accepted
    BY <1>7 DEF Restart, Memory!Forget
  <2> QED
    BY <2>1, <2>3, <2>4, <2>5, SettledType, FS_EmptySet
<1>8. ASSUME NEW m \in Messages, Evict(m) \/ Retire(m) PROVE Counted'
  BY <1>1, <1>8 DEF Evict, Retire, Memory!Forget, Memory!Retire
<1>9. ASSUME NEW u \in Users, ExpireNotice(u) PROVE Counted'
  BY <1>1, <1>9 DEF ExpireNotice
<1>10. ASSUME NEW u \in Users, FinishNotice(u) PROVE Counted'
  BY <1>1, <1>10 DEF FinishNotice
<1>11. CASE UNCHANGED vars
  BY <1>1, <1>11 DEF vars
<1> QED
  BY <1>2, <1>3, <1>4, <1>5, <1>6, <1>7, <1>8, <1>9, <1>10, <1>11 DEF Next, Step

\* Each step is one of the memory, or leaves it alone.
LEMMA MemoryStep == TypeInv /\ [Next]_vars => [Memory!Next]_(Memory!vars)
<1> SUFFICES ASSUME TypeInv, [Next]_vars PROVE Memory!Next \/ UNCHANGED inbox
  BY DEF inbox, Memory!vars
<1> USE DEF arrivals
<1>1. ASSUME NEW r \in Requests, Admit(r) PROVE Memory!Next
  BY <1>1 DEF Admit, Memory!Next, TypeInv, Held
<1>2. ASSUME NEW m \in Messages, Evict(m) \/ Retire(m) PROVE Memory!Next
  BY <1>2 DEF Evict, Retire, Memory!Next
<1>3. CASE Restart
  BY <1>3 DEF Restart, Memory!Next
<1>4. ASSUME NEW r \in Requests, Step(r), ~Admit(r) PROVE UNCHANGED inbox
  BY <1>4
  DEF Step, RejectForged, RejectUnparsable, Refuse, RefuseTimestamp, RefuseDuplicate,
      LookupFails, LookupSettles, LookupProceeds, SendReceived, SendRead, Dispatch, Limit,
      SkipNotice, MissNotice, InsertNotice, SpawnNotice
<1>5. CASE \/ \E r \in Requests, m \in Messages : Deliver(r, m)
           \/ \E r \in Requests : Cancel(r)
           \/ \E u \in Users : ExpireNotice(u) \/ FinishNotice(u)
           \/ UNCHANGED vars
  BY <1>5 DEF Deliver, Cancel, ExpireNotice, FinishNotice, vars
<1> QED
  BY <1>1, <1>2, <1>3, <1>4, <1>5 DEF Next

\* The memory does not take back what it has let through or refused.
LEMMA MemoryKeeps ==
  ASSUME Memory!TypeOK, [Memory!Next]_(Memory!vars), NEW m \in Messages
  PROVE  /\ accepted'[m] >= accepted[m]
         /\ status[m] = "retired" => status'[m] = "retired"
         /\ status'[m] = "seen" => status[m] = "seen" \/ accepted'[m] > 0
<1> USE DEF Memory!TypeOK
<1>1. ASSUME NEW n \in Messages, Memory!Accept(n)
      PROVE  /\ accepted'[m] >= accepted[m]
             /\ status[m] = "retired" => status'[m] = "retired"
             /\ status'[m] = "seen" => status[m] = "seen" \/ accepted'[m] > 0
  BY <1>1 DEF Memory!Accept
<1>2. ASSUME NEW S \in SUBSET Messages, Memory!Forget(S) \/ Memory!Retire(S)
      PROVE  /\ accepted'[m] >= accepted[m]
             /\ status[m] = "retired" => status'[m] = "retired"
             /\ status'[m] = "seen" => status[m] = "seen" \/ accepted'[m] > 0
  BY <1>2 DEF Memory!Forget, Memory!Retire
<1> QED
  BY <1>1, <1>2 DEF Memory!Next, Memory!vars

\* A handler that was let through is one of those that are counted.
LEMMA AtWorkIsAccepted ==
  ASSUME TypeInv, Counted, NEW r \in Requests, pc[r] \notin {"idle", "arrived"}
  PROVE  accepted[cur[r]] > 0
<1>1. cur[r] \in Messages /\ r \in InFlight(cur[r])
  BY DEF TypeInv, Held, InFlight
<1>2. Cardinality(InFlight(cur[r])) # 0
  BY <1>1, FlightFinite, FS_EmptySet
<1> QED
  BY <1>1, <1>2, FlightFinite, SettledType DEF Counted

\* A step that lets the Gateway be done with a message has one of the reasons.
LEMMA AnswerHasReason ==
  ASSUME FateInv, [Next]_vars, NEW m \in Messages, gateway'[m] = "acked"
  PROVE  \/ gateway[m] = "acked" \/ ~Acceptable(m) \/ status[m] # "unseen"
         \/ m \in mistimed' \/ accepted[m] > 0
<1> DEFINE Reason(n) ==
      \/ gateway[n] = "acked" \/ ~Acceptable(n) \/ status[n] # "unseen"
      \/ n \in mistimed' \/ accepted[n] > 0
<1>1. ASSUME UNCHANGED gateway PROVE Reason(m)
  BY <1>1
<1>2. ASSUME NEW r \in Requests, AnswerOk(r), Reason(cur[r]) PROVE Reason(m)
  BY <1>2 DEF AnswerOk, FateInv, TypeInv, TypeOK
<1>3. ASSUME NEW r \in Requests, RejectUnparsable(r) \/ Refuse(r) PROVE Reason(m)
  <2>1. AnswerOk(r) /\ Reason(cur[r])
    <3>1. CASE RejectUnparsable(r)
      BY <3>1 DEF RejectUnparsable, Acceptable
    <3>2. CASE Refuse(r)
      BY <3>2 DEF Refuse, RefuseTimestamp, RefuseDuplicate
    <3> QED
      BY <1>3, <3>1, <3>2
  <2> QED
    BY <1>2, <2>1
<1>4. ASSUME NEW r \in Requests, LookupFails(r) \/ LookupSettles(r) \/ Dispatch(r)
      PROVE  Reason(m)
  <2>1. AnswerOk(r) /\ Reason(cur[r])
    BY <1>4, AtWorkIsAccepted DEF LookupFails, LookupSettles, Dispatch, FateInv
  <2> QED
    BY <1>2, <2>1
<1>5. ASSUME NEW r \in Requests, Step(r) PROVE Reason(m)
  BY <1>1, <1>3, <1>4, <1>5
  DEF Step, RejectForged, Admit, LookupProceeds, SendReceived, SendRead, Limit,
      SkipNotice, MissNotice, InsertNotice, SpawnNotice, AnswerFailure
<1>6. CASE \/ \E r \in Requests, n \in Messages : Deliver(r, n)
           \/ \E r \in Requests : Cancel(r)
           \/ Restart
           \/ \E n \in Messages : Evict(n) \/ Retire(n)
           \/ \E u \in Users : ExpireNotice(u) \/ FinishNotice(u)
           \/ UNCHANGED vars
  BY <1>1, <1>6
  DEF Deliver, Cancel, Restart, Evict, Retire, ExpireNotice, FinishNotice, vars
<1> QED
  BY <1>5, <1>6 DEF Next

LEMMA BodiesStay == [Next]_vars => UNCHANGED body
<1> SUFFICES ASSUME [Next]_vars PROVE UNCHANGED body
  OBVIOUS
<1> USE DEF given
<1>1. ASSUME NEW r \in Requests, Step(r) PROVE UNCHANGED body
  BY <1>1
  DEF Step, RejectForged, RejectUnparsable, Refuse, RefuseTimestamp, RefuseDuplicate,
      Admit, LookupFails, LookupSettles, LookupProceeds, SendReceived, SendRead, Dispatch,
      Limit, SkipNotice, MissNotice, InsertNotice, SpawnNotice
<1> QED
  BY <1>1 DEF Next, Deliver, Cancel, Restart, Evict, Retire, ExpireNotice, FinishNotice,
     vars

LEMMA MistimedStays == TypeInv /\ [Next]_vars => mistimed \subseteq mistimed'
<1> SUFFICES ASSUME TypeInv, [Next]_vars PROVE mistimed \subseteq mistimed'
  OBVIOUS
<1> USE DEF arrivals
<1>1. ASSUME NEW r \in Requests, Step(r) PROVE mistimed \subseteq mistimed'
  BY <1>1
  DEF Step, RejectForged, RejectUnparsable, Refuse, RefuseTimestamp, RefuseDuplicate,
      Admit, LookupFails, LookupSettles, LookupProceeds, SendReceived, SendRead,
      Dispatch, Limit, SkipNotice, MissNotice, InsertNotice, SpawnNotice
<1> QED
  BY <1>1
  DEF Next, Deliver, Cancel, Restart, Evict, Retire, ExpireNotice, FinishNotice, vars

LEMMA NextFateInv == FateInv /\ [Next]_vars => FateInv'
<1> SUFFICES ASSUME FateInv, [Next]_vars PROVE FateInv'
  OBVIOUS
<1>1. TypeInv' /\ Counted'
  BY NextTypeInv, NextCounted DEF FateInv
<1>2. ASSUME NEW m \in Messages
      PROVE  /\ status'[m] = "seen" => accepted'[m] > 0
             /\ gateway'[m] = "acked" =>
                  \/ ~Acceptable(m)' \/ status'[m] = "retired"
                  \/ m \in mistimed' \/ accepted'[m] > 0
  <2>1. /\ accepted'[m] >= accepted[m]
        /\ status[m] = "retired" => status'[m] = "retired"
        /\ status'[m] = "seen" => status[m] = "seen" \/ accepted'[m] > 0
    BY MemoryStep, MemoryKeeps DEF FateInv, TypeInv, TypeOK
  <2>2. /\ accepted[m] \in Nat /\ accepted'[m] \in Nat
        /\ status[m] \in {"unseen", "seen", "retired"}
    BY <1>1 DEF FateInv, TypeInv, TypeOK, Memory!TypeOK, Memory!Statuses
  <2>3. /\ status[m] = "seen" => accepted[m] > 0
        /\ gateway[m] = "acked" =>
             \/ ~Acceptable(m) \/ status[m] = "retired"
             \/ m \in mistimed \/ accepted[m] > 0
    BY DEF FateInv, Accounted
  <2>4. Acceptable(m)' <=> Acceptable(m)
    BY BodiesStay DEF Acceptable
  <2>5. m \in mistimed => m \in mistimed'
    BY MistimedStays DEF FateInv
  <2> QED
    BY <2>1, <2>2, <2>3, <2>4, <2>5, AnswerHasReason
<1> QED
  BY <1>1, <1>2 DEF FateInv, Accounted

LEMMA FateInvariance == Spec => []FateInv
BY InitFateInv, NextFateInv, PTL DEF Spec

\* A message that would be let through now has been forgotten as often as it
\* was let through; any other may be one ahead.
Balance ==
  \A m \in Messages :
    /\ accepted[m] <= 1 + forgotten[m]
    /\ status[m] = "unseen" => accepted[m] <= forgotten[m]

LEMMA NextBalance ==
  Memory!TypeOK /\ Balance /\ [Memory!Next]_(Memory!vars) => Memory!TypeOK' /\ Balance'
<1> SUFFICES ASSUME Memory!TypeOK, Balance, [Memory!Next]_(Memory!vars)
             PROVE  Memory!TypeOK' /\ Balance'
  OBVIOUS
<1> USE DEF Memory!TypeOK, Memory!Statuses, Balance
<1>1. ASSUME NEW m \in Messages, Memory!Accept(m) PROVE Memory!TypeOK' /\ Balance'
  BY <1>1 DEF Memory!Accept
<1>2. ASSUME NEW S \in SUBSET Messages, Memory!Forget(S) PROVE Memory!TypeOK' /\ Balance'
  BY <1>2 DEF Memory!Forget
<1>3. ASSUME NEW S \in SUBSET Messages, Memory!Retire(S) PROVE Memory!TypeOK' /\ Balance'
  BY <1>3 DEF Memory!Retire
<1>4. CASE UNCHANGED Memory!vars
  BY <1>4 DEF Memory!vars
<1> QED
  BY <1>1, <1>2, <1>3, <1>4 DEF Memory!Next

\* The handlers pass on what Inbox promises: a message is let through again only
\* when the memory had lost it.
LEMMA AcceptedRarely == Spec => []Memory!AtMostOnce
<1>1. Init => Memory!TypeOK /\ Balance
  BY DEF Init, Memory!Init, Memory!TypeOK, Memory!Statuses, Balance
<1>2. FateInv /\ [Next]_vars => [Memory!Next]_(Memory!vars)
  BY MemoryStep DEF FateInv
<1>3. Memory!TypeOK /\ Balance => Memory!AtMostOnce
  BY DEF Balance, Memory!AtMostOnce
<1> QED
  BY <1>1, <1>2, <1>3, FateInvariance, NextBalance, PTL DEF Spec

\* However often a message is delivered, and however its handlers overlap, end
\* early or are lost, it meets one fate only unless the cache forgot it in
\* between (server/mod.rs and dedup.rs: a message is processed once).
THEOREM WebhookHandlerOneFate == Spec => []OneFate
<1>1. Memory!AtMostOnce /\ FateInv => OneFate
  BY DEF Memory!AtMostOnce, FateInv, Counted, OneFate
<1> QED
  BY <1>1, FateInvariance, AcceptedRarely, PTL

\* No message that the Gateway is done with, and that no handler holds, was lost
\* without a reason, of which a timestamp that the server's clock did not like is one
\* (server/mod.rs answers 200 where it says that retrying will not help).
THEOREM WebhookHandlerAcknowledgedIsSettled == Spec => []AcknowledgedIsSettled
<1>1. FateInv => AcknowledgedIsSettled
  <2> SUFFICES ASSUME FateInv, NEW m \in Messages, gateway[m] = "acked", InFlight(m) = {},
                      Acceptable(m), status[m] # "retired", m \notin mistimed
               PROVE  Settled(m) > 0
    BY DEF AcknowledgedIsSettled
  <2>1. accepted[m] > 0
    BY DEF FateInv, Accounted
  <2>2. Settled(m) \in Nat /\ Settled(m) + Cardinality({}) = accepted[m]
    BY SettledType DEF FateInv, Counted
  <2>3. Cardinality({}) = 0
    BY FS_EmptySet
  <2> QED
    BY <2>1, <2>2, <2>3
<1> QED
  BY <1>1, FateInvariance, PTL

-----------------------------------------------------------------------------

\* The handlers of m that are in one of the stages S.
At(S, m) == {r \in Requests : cur[r] = m /\ pc[r] \in S}

\* The stages before a receipt, before the verdict, before the charge, and of a refusal.
ToReceive == {"lookup", "received"}
ToRead == {"read"}
ToJudge == {"limit", "getNotice", "insertNotice", "spawnNotice"}
ToCharge == {"lookup", "received", "read", "limit"}
ToRefuse == {"getNotice", "insertNotice", "spawnNotice"}

\* The handlers of m in these stages.
Unreceived(m) == Cardinality(At(ToReceive, m))
Unread(m) == Cardinality(At(ToRead, m))
Unjudged(m) == Cardinality(At(ToJudge, m))
Uncharged(m) == Cardinality(At(ToCharge, m))
Refused(m) == Cardinality(At(ToRefuse, m))

Concluded(m) == fate[m]["dispatched"] + fate[m]["limited"]

\* Attempts at receipts and charges of m never run ahead of the handlers that owe them, nor
\* verdicts of the receipts and the charges before them.
Progress(m) ==
  /\ Attempts(m, "received") + Unreceived(m) <= accepted[m]
  /\ Attempts(m, "read") + Unread(m) <= Attempts(m, "received")
  /\ Concluded(m) + Unjudged(m) <= Attempts(m, "read")
  /\ RateLimiting => /\ charged[m] + Uncharged(m) <= accepted[m]
                     /\ Concluded(m) + Refused(m) <= charged[m]

ProgressInv == TypeInv /\ \A m \in Messages : Progress(m)

LEMMA AtFinite == \A S, m : IsFiniteSet(At(S, m)) /\ Cardinality(At(S, m)) \in Nat
BY WebhookHandlerAssumption, FS_Subset, FS_CardinalityType DEF At

LEMMA AttemptsType ==
  ASSUME TypeInv, NEW m \in Messages, NEW kind \in {"received", "read"}
  PROVE  /\ receipts[m][kind].sent \in Nat /\ receipts[m][kind].failed \in Nat
         /\ Attempts(m, kind) \in Nat
<1>1. receipts[m] \in [{"received", "read"} -> [sent : Nat, failed : Nat]]
  BY DEF TypeInv, TypeOK, Receipts
<1>2. receipts[m][kind] \in [sent : Nat, failed : Nat]
  BY <1>1
<1> QED
  BY <1>2 DEF Attempts

\* Whether it is sent or fails, a receipt is one attempt more, of its kind.
LEMMA ReceiptCounts ==
  ASSUME TypeInv, NEW n \in Messages, NEW k \in {"received", "read"}, SendReceipt(n, k),
         NEW m \in Messages, NEW kind \in {"received", "read"}
  PROVE  Attempts(m, kind)' = IF m = n /\ kind = k THEN Attempts(m, kind) + 1
                                                    ELSE Attempts(m, kind)
<1>1. /\ receipts \in [Messages -> [{"received", "read"} -> [sent : Nat, failed : Nat]]]
      /\ receipts[n] \in [{"received", "read"} -> [sent : Nat, failed : Nat]]
      /\ receipts[n][k] \in [sent : Nat, failed : Nat]
      /\ receipts[n][k].sent \in Nat /\ receipts[n][k].failed \in Nat
  BY AttemptsType DEF TypeInv, TypeOK, Receipts
<1>2. CASE m = n /\ kind = k
  <2>1. \/ receipts'[n][k] = [receipts[n][k] EXCEPT !.sent = @ + 1]
        \/ receipts'[n][k] = [receipts[n][k] EXCEPT !.failed = @ + 1]
    <3>1. CASE receipts' = [receipts EXCEPT ![n][k].sent = @ + 1]
      BY <1>1, <3>1
    <3>2. CASE receipts' = [receipts EXCEPT ![n][k].failed = @ + 1]
      BY <1>1, <3>2
    <3> QED
      BY <3>1, <3>2 DEF SendReceipt
  <2> QED
    BY <1>1, <1>2, <2>1 DEF Attempts
<1>3. CASE ~(m = n /\ kind = k)
  <2>1. receipts'[m][kind] = receipts[m][kind]
    BY <1>1, <1>3 DEF SendReceipt
  <2> QED
    BY <1>3, <2>1 DEF Attempts
<1> QED
  BY <1>2, <1>3

LEMMA ProgressType ==
  ASSUME TypeInv, NEW m \in Messages
  PROVE  /\ Unreceived(m) \in Nat /\ Unread(m) \in Nat /\ Unjudged(m) \in Nat
         /\ Uncharged(m) \in Nat /\ Refused(m) \in Nat
         /\ accepted[m] \in Nat /\ charged[m] \in Nat /\ Concluded(m) \in Nat
         /\ Attempts(m, "received") \in Nat /\ Attempts(m, "read") \in Nat
<1>1. /\ fate[m] \in [Fates -> Nat]
      /\ Attempts(m, "received") \in Nat /\ Attempts(m, "read") \in Nat
  BY AttemptsType DEF TypeInv, TypeOK
<1>2. Concluded(m) \in Nat
  BY <1>1 DEF Concluded, Fates
<1>3. accepted[m] \in Nat /\ charged[m] \in Nat
  BY DEF TypeInv, TypeOK, Memory!TypeOK
<1>4. /\ Unreceived(m) \in Nat /\ Unread(m) \in Nat /\ Unjudged(m) \in Nat
      /\ Uncharged(m) \in Nat /\ Refused(m) \in Nat
  BY AtFinite DEF Unreceived, Unread, Unjudged, Uncharged, Refused
<1> QED
  BY <1>1, <1>2, <1>3, <1>4

\* The five numbers, when r moves from one stage to another.
LEMMA ProgressChanges ==
  ASSUME TypeInv, NEW r \in Requests, NEW stage \in Stages,
         \/ Goto(r, stage) /\ UNCHANGED cur
         \/ stage = "idle" /\ Leave(r),
         NEW m \in Messages
  PROVE  /\ m # cur[r] => /\ Unreceived(m)' = Unreceived(m)
                          /\ Unread(m)' = Unread(m)
                          /\ Unjudged(m)' = Unjudged(m)
                          /\ Uncharged(m)' = Uncharged(m)
                          /\ Refused(m)' = Refused(m)
         /\ m = cur[r] => /\ Unreceived(m)' = Unreceived(m)
                               + (IF stage \in ToReceive THEN 1 ELSE 0)
                               - (IF pc[r] \in ToReceive THEN 1 ELSE 0)
                          /\ Unread(m)' = Unread(m)
                               + (IF stage \in ToRead THEN 1 ELSE 0)
                               - (IF pc[r] \in ToRead THEN 1 ELSE 0)
                          /\ Unjudged(m)' = Unjudged(m)
                               + (IF stage \in ToJudge THEN 1 ELSE 0)
                               - (IF pc[r] \in ToJudge THEN 1 ELSE 0)
                          /\ Uncharged(m)' = Uncharged(m)
                               + (IF stage \in ToCharge THEN 1 ELSE 0)
                               - (IF pc[r] \in ToCharge THEN 1 ELSE 0)
                          /\ Refused(m)' = Refused(m)
                               + (IF stage \in ToRefuse THEN 1 ELSE 0)
                               - (IF pc[r] \in ToRefuse THEN 1 ELSE 0)
<1>1. ASSUME NEW S, "idle" \notin S
      PROVE  Cardinality(At(S, m))' =
               IF m # cur[r] THEN Cardinality(At(S, m))
               ELSE Cardinality(At(S, m)) + (IF stage \in S THEN 1 ELSE 0)
                                          - (IF pc[r] \in S THEN 1 ELSE 0)
  <2>1. /\ \A q \in Requests : q # r => pc'[q] = pc[q] /\ cur'[q] = cur[q]
        /\ pc'[r] = stage
        /\ stage \in S => cur'[r] = cur[r]
    BY <1>1 DEF Goto, Leave, TypeInv, TypeOK
  <2>2. CASE m # cur[r]
    <3>1. At(S, m)' = At(S, m)
      BY <2>1, <2>2 DEF At
    <3> QED
      BY <2>2, <3>1
  <2>3. CASE m = cur[r] /\ (stage \in S <=> pc[r] \in S)
    <3>1. At(S, m)' = At(S, m)
      BY <2>1, <2>3 DEF At
    <3> QED
      BY <2>3, <3>1, AtFinite
  <2>4. CASE m = cur[r] /\ stage \in S /\ pc[r] \notin S
    <3>1. At(S, m)' = At(S, m) \cup {r} /\ r \notin At(S, m)
      BY <2>1, <2>4 DEF At
    <3>2. Cardinality(At(S, m) \cup {r}) = Cardinality(At(S, m)) + 1
      BY <3>1, AtFinite, FS_AddElement
    <3>3. Cardinality(At(S, m))' = Cardinality(At(S, m)) + 1
      BY <3>1, <3>2
    <3> QED
      BY <2>4, <3>3, AtFinite
  <2>5. CASE m = cur[r] /\ stage \notin S /\ pc[r] \in S
    <3>1. At(S, m)' = At(S, m) \ {r} /\ r \in At(S, m)
      BY <2>1, <2>5 DEF At
    <3>2. Cardinality(At(S, m) \ {r}) = Cardinality(At(S, m)) - 1
      BY <3>1, AtFinite, FS_RemoveElement
    <3>3. Cardinality(At(S, m))' = Cardinality(At(S, m)) - 1
      BY <3>1, <3>2
    <3> QED
      BY <2>5, <3>3, AtFinite
  <2> QED
    BY <2>2, <2>3, <2>4, <2>5
<1>2. Unreceived(m)' =
        IF m # cur[r] THEN Unreceived(m)
        ELSE Unreceived(m) + (IF stage \in ToReceive THEN 1 ELSE 0)
               - (IF pc[r] \in ToReceive THEN 1 ELSE 0)
  BY <1>1 DEF Unreceived, ToReceive
<1>3. Unread(m)' =
        IF m # cur[r] THEN Unread(m)
        ELSE Unread(m) + (IF stage \in ToRead THEN 1 ELSE 0)
               - (IF pc[r] \in ToRead THEN 1 ELSE 0)
  BY <1>1 DEF Unread, ToRead
<1>4. Unjudged(m)' =
        IF m # cur[r] THEN Unjudged(m)
        ELSE Unjudged(m) + (IF stage \in ToJudge THEN 1 ELSE 0)
               - (IF pc[r] \in ToJudge THEN 1 ELSE 0)
  BY <1>1 DEF Unjudged, ToJudge
<1>5. Uncharged(m)' =
        IF m # cur[r] THEN Uncharged(m)
        ELSE Uncharged(m) + (IF stage \in ToCharge THEN 1 ELSE 0)
               - (IF pc[r] \in ToCharge THEN 1 ELSE 0)
  BY <1>1 DEF Uncharged, ToCharge
<1>6. Refused(m)' =
        IF m # cur[r] THEN Refused(m)
        ELSE Refused(m) + (IF stage \in ToRefuse THEN 1 ELSE 0)
               - (IF pc[r] \in ToRefuse THEN 1 ELSE 0)
  BY <1>1 DEF Refused, ToRefuse
<1> QED
  BY <1>2, <1>3, <1>4, <1>5, <1>6

\* A step that moves r and counts nothing.
LEMMA ProgressKept ==
  ASSUME TypeInv, NEW m \in Messages, Progress(m), UNCHANGED <<receipts, charged, accepted>>,
         Concluded(m)' = Concluded(m),
         Unreceived(m)' <= Unreceived(m) /\ Unreceived(m)' \in Int,
         Unread(m)' <= Unread(m) /\ Unread(m)' \in Int,
         Unjudged(m)' <= Unjudged(m) /\ Unjudged(m)' \in Int,
         Uncharged(m)' <= Uncharged(m) /\ Uncharged(m)' \in Int,
         Refused(m)' <= Refused(m) /\ Refused(m)' \in Int
  PROVE  Progress(m)'
BY ProgressType DEF Progress, Concluded, Attempts

LEMMA MeetsConcludes ==
  ASSUME TypeInv, NEW r \in Requests, NEW f \in Fates, Meets(r, f), NEW m \in Messages
  PROVE  Concluded(m)' = IF m = cur[r] /\ f \in {"dispatched", "limited"}
                         THEN Concluded(m) + 1 ELSE Concluded(m)
<1>1. /\ fate[m] \in [Fates -> Nat]
      /\ fate'[m] = IF m = cur[r] THEN [fate[m] EXCEPT ![f] = @ + 1] ELSE fate[m]
  BY DEF TypeInv, TypeOK, Meets
<1> QED
  BY <1>1 DEF Concluded, Fates

LEMMA ChargeCounts ==
  ASSUME TypeInv, NEW r \in Requests, Charge(cur[r]), NEW m \in Messages
  PROVE  charged'[m] = IF RateLimiting /\ m = cur[r] THEN charged[m] + 1 ELSE charged[m]
BY DEF TypeInv, TypeOK, Charge

LEMMA NextProgress == ProgressInv /\ [Next]_vars => \A m \in Messages : Progress(m)'
<1> SUFFICES ASSUME ProgressInv, [Next]_vars, NEW m \in Messages PROVE Progress(m)'
  OBVIOUS
<1> USE DEF inbox, arrivals, limiting, environment, given,
            ToReceive, ToRead, ToJudge, ToCharge, ToRefuse
<1>1. TypeInv /\ Progress(m)
  BY DEF ProgressInv
<1>2. /\ Unreceived(m) \in Nat /\ Unread(m) \in Nat /\ Unjudged(m) \in Nat
      /\ Uncharged(m) \in Nat /\ Refused(m) \in Nat
      /\ accepted[m] \in Nat /\ charged[m] \in Nat /\ Concluded(m) \in Nat
      /\ Attempts(m, "received") \in Nat /\ Attempts(m, "read") \in Nat
  BY <1>1, ProgressType
<1>3. ASSUME \A q \in Requests : pc'[q] = pc[q] /\ cur'[q] = cur[q],
             UNCHANGED <<receipts, charged, fate, accepted>>
      PROVE  Progress(m)'
  <2>1. \A S : At(S, m)' = At(S, m)
    BY <1>3 DEF At
  <2> QED
    BY <1>3, <1>1, <2>1
    DEF Progress, Attempts, Concluded, Unreceived, Unread, Unjudged, Uncharged, Refused
<1>4. ASSUME NEW r \in Requests, NEW n \in Messages, Deliver(r, n) PROVE Progress(m)'
  <2>1. \A S : "idle" \notin S /\ "arrived" \notin S => At(S, m)' = At(S, m)
    BY <1>4, <1>1 DEF At, Deliver, Goto, TypeInv, TypeOK
  <2> QED
    BY <1>4, <1>1, <2>1
    DEF Deliver, Progress, Attempts, Concluded, Unreceived, Unread, Unjudged, Uncharged,
        Refused
<1>5. ASSUME NEW r \in Requests, RejectForged(r) \/ RejectUnparsable(r) \/ Refuse(r)
      PROVE  Progress(m)'
  <2>1. Leave(r) /\ UNCHANGED <<receipts, charged, fate, accepted>>
    BY <1>5
    DEF RejectForged, RejectUnparsable, Refuse, RefuseTimestamp, RefuseDuplicate,
        AnswerOk, AnswerFailure
  <2>2. Concluded(m)' = Concluded(m)
    BY <2>1 DEF Concluded
  <2> QED
    BY <1>1, <1>2, <2>1, <2>2, ProgressChanges, ProgressKept DEF Stages
<1>6. ASSUME NEW r \in Requests, Admit(r) PROVE Progress(m)'
  <2>1. accepted'[m] = IF m = cur[r] THEN accepted[m] + 1 ELSE accepted[m]
    BY <1>6, <1>1 DEF Admit, Memory!Accept, TypeInv, TypeOK, Memory!TypeOK
  <2>2. LET d == IF m = cur[r] THEN 1 ELSE 0
        IN  /\ Unreceived(m)' = Unreceived(m) + d
            /\ Unread(m)' = Unread(m)
            /\ Unjudged(m)' = Unjudged(m)
            /\ Uncharged(m)' = Uncharged(m) + d
            /\ Refused(m)' = Refused(m)
    BY <1>6, <1>1, <1>2, ProgressChanges DEF Admit, Stages
  <2>3. UNCHANGED <<receipts, charged, fate>>
    BY <1>6 DEF Admit
  <2> QED
    BY <1>1, <1>2, <2>1, <2>2, <2>3 DEF Progress, Attempts, Concluded
<1>7. ASSUME NEW r \in Requests, LookupFails(r) \/ LookupSettles(r) \/ Cancel(r)
      PROVE  Progress(m)'
  <2>1. /\ Leave(r) /\ UNCHANGED <<receipts, charged, accepted>>
        /\ \E f \in Fates \ {"dispatched", "limited"} : Meets(r, f)
    <3>1. CASE LookupSettles(r)
      BY <3>1 DEF LookupSettles, AnswerOk, Route, Fates
    <3> QED
      BY <1>7, <3>1 DEF LookupFails, Cancel, AnswerOk, Fates
  <2>2. Concluded(m)' = Concluded(m)
    BY <1>1, <2>1, MeetsConcludes
  <2> QED
    BY <1>1, <1>2, <2>1, <2>2, ProgressChanges, ProgressKept DEF Stages
<1>8. ASSUME NEW r \in Requests, LookupProceeds(r) PROVE Progress(m)'
  <2>1. UNCHANGED <<receipts, charged, accepted, fate>>
    BY <1>8 DEF LookupProceeds
  <2>2. Concluded(m)' = Concluded(m)
    BY <2>1 DEF Concluded
  <2> QED
    BY <1>8, <1>1, <1>2, <2>1, <2>2, ProgressChanges, ProgressKept
    DEF LookupProceeds, Stages
<1>9. ASSUME NEW r \in Requests, SendReceived(r) PROVE Progress(m)'
  <2>1. /\ Attempts(m, "received")' = Attempts(m, "received") + (IF m = cur[r] THEN 1 ELSE 0)
        /\ Attempts(m, "read")' = Attempts(m, "read")
    BY <1>9, <1>1, <1>2, ReceiptCounts DEF SendReceived, TypeInv, Held
  <2>2. LET d == IF m = cur[r] THEN 1 ELSE 0
        IN  /\ Unreceived(m)' = Unreceived(m) - d
            /\ Unread(m)' = Unread(m) + d
            /\ Unjudged(m)' = Unjudged(m)
            /\ Uncharged(m)' = Uncharged(m)
            /\ Refused(m)' = Refused(m)
    BY <1>9, <1>1, <1>2, ProgressChanges DEF SendReceived, Stages
  <2>3. UNCHANGED <<accepted, charged, fate>>
    BY <1>9 DEF SendReceived
  <2> QED
    BY <1>1, <1>2, <2>1, <2>2, <2>3 DEF Progress, Concluded
<1>10. ASSUME NEW r \in Requests, SendRead(r) PROVE Progress(m)'
  <2>1. /\ Attempts(m, "read")' = Attempts(m, "read") + (IF m = cur[r] THEN 1 ELSE 0)
        /\ Attempts(m, "received")' = Attempts(m, "received")
    BY <1>10, <1>1, <1>2, ReceiptCounts DEF SendRead, TypeInv, Held
  <2>2. LET d == IF m = cur[r] THEN 1 ELSE 0
        IN  /\ Unreceived(m)' = Unreceived(m)
            /\ Unread(m)' = Unread(m) - d
            /\ Unjudged(m)' = Unjudged(m) + d
            /\ Uncharged(m)' = Uncharged(m)
            /\ Refused(m)' = Refused(m)
    BY <1>10, <1>1, <1>2, ProgressChanges DEF SendRead, Stages
  <2>3. UNCHANGED <<accepted, charged, fate>>
    BY <1>10 DEF SendRead
  <2> QED
    BY <1>1, <1>2, <2>1, <2>2, <2>3 DEF Progress, Concluded
<1>11. ASSUME NEW r \in Requests, Dispatch(r) PROVE Progress(m)'
  <2>1. Leave(r) /\ Meets(r, "dispatched") /\ Charge(cur[r])
        /\ UNCHANGED <<accepted, receipts>>
    BY <1>11 DEF Dispatch, AnswerOk
  <2>2. LET d == IF m = cur[r] THEN 1 ELSE 0
        IN  /\ Unreceived(m)' = Unreceived(m)
            /\ Unread(m)' = Unread(m)
            /\ Unjudged(m)' = Unjudged(m) - d
            /\ Uncharged(m)' = Uncharged(m) - d
            /\ Refused(m)' = Refused(m)
    BY <1>11, <1>1, <1>2, <2>1, ProgressChanges DEF Dispatch, Stages
  <2>3. Concluded(m)' = IF m = cur[r] THEN Concluded(m) + 1 ELSE Concluded(m)
    BY <1>1, <2>1, MeetsConcludes DEF Fates
  <2>4. charged'[m] = IF RateLimiting /\ m = cur[r] THEN charged[m] + 1 ELSE charged[m]
    BY <1>1, <2>1, ChargeCounts
  <2> QED
    BY <1>1, <1>2, <2>1, <2>2, <2>3, <2>4 DEF Progress, Attempts
<1>12. ASSUME NEW r \in Requests, Limit(r) PROVE Progress(m)'
  <2>1. LET d == IF m = cur[r] THEN 1 ELSE 0
        IN  /\ Unreceived(m)' = Unreceived(m)
            /\ Unread(m)' = Unread(m)
            /\ Unjudged(m)' = Unjudged(m)
            /\ Uncharged(m)' = Uncharged(m) - d
            /\ Refused(m)' = Refused(m) + d
    BY <1>12, <1>1, <1>2, ProgressChanges DEF Limit, Stages
  <2>2. charged'[m] = IF RateLimiting /\ m = cur[r] THEN charged[m] + 1 ELSE charged[m]
    BY <1>12, <1>1, ChargeCounts DEF Limit
  <2>3. RateLimiting /\ UNCHANGED <<accepted, receipts, fate>>
    BY <1>12 DEF Limit
  <2> QED
    BY <1>1, <1>2, <2>1, <2>2, <2>3 DEF Progress, Attempts, Concluded
<1>13. ASSUME NEW r \in Requests, SkipNotice(r) \/ SpawnNotice(r) PROVE Progress(m)'
  <2>1. Leave(r) /\ Meets(r, "limited") /\ UNCHANGED <<accepted, receipts, charged>>
    BY <1>13 DEF SkipNotice, SpawnNotice, AnswerFailure
  <2>2. LET d == IF m = cur[r] THEN 1 ELSE 0
        IN  /\ Unreceived(m)' = Unreceived(m)
            /\ Unread(m)' = Unread(m)
            /\ Unjudged(m)' = Unjudged(m) - d
            /\ Uncharged(m)' = Uncharged(m)
            /\ Refused(m)' = Refused(m) - d
    BY <1>13, <1>1, <1>2, <2>1, ProgressChanges
    DEF SkipNotice, SpawnNotice, Stages
  <2>3. Concluded(m)' = IF m = cur[r] THEN Concluded(m) + 1 ELSE Concluded(m)
    BY <1>1, <2>1, MeetsConcludes DEF Fates
  <2> QED
    BY <1>1, <1>2, <2>1, <2>2, <2>3 DEF Progress, Attempts
<1>14. ASSUME NEW r \in Requests, MissNotice(r) \/ InsertNotice(r) PROVE Progress(m)'
  <2>1. UNCHANGED <<receipts, charged, accepted, fate>>
    BY <1>14 DEF MissNotice, InsertNotice
  <2>2. Concluded(m)' = Concluded(m)
    BY <2>1 DEF Concluded
  <2>3. CASE MissNotice(r)
    BY <2>3, <1>1, <1>2, <2>1, <2>2, ProgressChanges, ProgressKept
    DEF MissNotice, Stages
  <2>4. CASE InsertNotice(r)
    BY <2>4, <1>1, <1>2, <2>1, <2>2, ProgressChanges, ProgressKept
    DEF InsertNotice, Stages
  <2> QED
    BY <1>14, <2>3, <2>4
<1>15. CASE Restart
  <2>1. \A S : "idle" \notin S => Cardinality(At(S, m))' = 0
    <3>1. \A S : "idle" \notin S => At(S, m)' = {}
      BY <1>15 DEF Restart, At
    <3> QED
      BY <3>1, FS_EmptySet
  <2>2. /\ Unreceived(m)' = 0 /\ Unread(m)' = 0 /\ Unjudged(m)' = 0
        /\ Uncharged(m)' = 0 /\ Refused(m)' = 0
    BY <2>1 DEF Unreceived, Unread, Unjudged, Uncharged, Refused
  <2>3. Concluded(m)' = Concluded(m)
    <3>1. /\ fate[m] \in [Fates -> Nat]
          /\ fate'[m] = [fate[m] EXCEPT !["crashed"] = @ + Cardinality(InFlight(m))]
      BY <1>15, <1>1 DEF Restart, TypeInv, TypeOK
    <3> QED
      BY <3>1 DEF Concluded, Fates
  <2>4. UNCHANGED <<receipts, charged, accepted>>
    BY <1>15 DEF Restart, Memory!Forget
  <2> QED
    BY <1>1, <1>2, <2>2, <2>3, <2>4 DEF Progress, Attempts
<1>16. ASSUME NEW n \in Messages, Evict(n) \/ Retire(n) PROVE Progress(m)'
  BY <1>3, <1>16 DEF Evict, Retire, Memory!Forget, Memory!Retire
<1>17. ASSUME NEW u \in Users, ExpireNotice(u) PROVE Progress(m)'
  BY <1>3, <1>17 DEF ExpireNotice
<1>18. ASSUME NEW u \in Users, FinishNotice(u) PROVE Progress(m)'
  BY <1>3, <1>18 DEF FinishNotice
<1>19. CASE UNCHANGED vars
  BY <1>3, <1>19 DEF vars
<1> QED
  BY <1>4, <1>5, <1>6, <1>7, <1>8, <1>9, <1>10, <1>11, <1>12, <1>13, <1>14, <1>15,
     <1>16, <1>17, <1>18, <1>19
  DEF Next, Step

LEMMA ProgressInvariance == Spec => []ProgressInv
<1>1. Init => ProgressInv
  <2> SUFFICES ASSUME Init PROVE ProgressInv
    OBVIOUS
  <2>1. \A S : "idle" \notin S => \A m \in Messages : At(S, m) = {}
    BY DEF Init, At
  <2>2. Cardinality({}) = 0
    BY FS_EmptySet
  <2>3. ASSUME NEW m \in Messages PROVE Progress(m)
    <3>1. /\ Unreceived(m) = 0 /\ Unread(m) = 0 /\ Unjudged(m) = 0
          /\ Uncharged(m) = 0 /\ Refused(m) = 0
      BY <2>1, <2>2
      DEF Unreceived, Unread, Unjudged, Uncharged, Refused,
          ToReceive, ToRead, ToJudge, ToCharge, ToRefuse
    <3>2. /\ Concluded(m) = 0 /\ accepted[m] = 0 /\ charged[m] = 0
          /\ Attempts(m, "received") = 0 /\ Attempts(m, "read") = 0
      BY DEF Init, Memory!Init, Concluded, Fates, Attempts, NoReceipts
    <3> QED
      BY <3>1, <3>2 DEF Progress
  <2> QED
    BY <2>3, InitTypeInv DEF ProgressInv
<1>2. ProgressInv /\ [Next]_vars => ProgressInv'
  BY NextTypeInv, NextProgress DEF ProgressInv
<1> QED
  BY <1>1, <1>2, PTL DEF Spec

\* The bot's handler runs, and the rate limiter refuses, only after the server has
\* tried to send both receipts, successfully or not (server/mod.rs, before the check
\* of the rate limit), and no receipt is tried twice unless the cache forgot the
\* message in between.
THEOREM WebhookHandlerReceiptsComeFirst == Spec => []ReceiptsComeFirst
<1>1. ProgressInv /\ Memory!AtMostOnce => ReceiptsComeFirst
  <2> SUFFICES ASSUME ProgressInv, Memory!AtMostOnce, NEW m \in Messages
               PROVE  /\ Concluded(m) <= Attempts(m, "read")
                      /\ Attempts(m, "read") <= Attempts(m, "received")
                      /\ Attempts(m, "received") <= 1 + forgotten[m]
    BY DEF ReceiptsComeFirst, Concluded
  <2>1. accepted[m] <= 1 + forgotten[m] /\ forgotten[m] \in Nat
    BY DEF Memory!AtMostOnce, ProgressInv, TypeInv, TypeOK, Memory!TypeOK
  <2> QED
    BY <2>1, ProgressType DEF ProgressInv, Progress
<1> QED
  BY <1>1, ProgressInvariance, AcceptedRarely, PTL

\* A message that reaches the bot's handler or is refused was counted by the rate
\* limiter, and redelivery does not count it again.
THEOREM WebhookHandlerChargedOnce == Spec => []ChargedOnce
<1>1. ProgressInv /\ Memory!AtMostOnce => ChargedOnce
  <2> SUFFICES ASSUME ProgressInv, Memory!AtMostOnce, RateLimiting, NEW m \in Messages
               PROVE  Concluded(m) <= charged[m] /\ charged[m] <= 1 + forgotten[m]
    BY DEF ChargedOnce, Concluded
  <2>1. accepted[m] <= 1 + forgotten[m] /\ forgotten[m] \in Nat
    BY DEF Memory!AtMostOnce, ProgressInv, TypeInv, TypeOK, Memory!TypeOK
  <2> QED
    BY <2>1, ProgressType DEF ProgressInv, Progress
<1> QED
  BY <1>1, ProgressInvariance, AcceptedRarely, PTL

-----------------------------------------------------------------------------

\* A notice was begun for u, is about to be, or would have been but for a closed
\* connection or a restart.
Told(u) ==
  \/ Begun(u) > 0
  \/ \E r \in Requests : pc[r] = "spawnNotice" /\ Sender[cur[r]] = u
  \/ \E n \in Messages : Sender[n] = u /\ fate[n]["cancelled"] + fate[n]["crashed"] > 0

\* A handler that finds a user in the cache may rely on another to tell him.
NoticedIsTold == \A u \in notified : Told(u)

ToldInv == TypeInv /\ NoticedIsTold /\ LimitedIsTold

LEMMA BegunType ==
  ASSUME TypeInv, NEW u \in Users
  PROVE  Begun(u) \in Nat
BY NoticesType DEF Begun

\* A notice is begun by a handler; what becomes of it later does not count.
LEMMA BegunChanges ==
  ASSUME TypeInv, NEW u \in Users
  PROVE  /\ UNCHANGED notices => Begun(u)' = Begun(u)
         /\ \A r \in Requests : SpawnNotice(r) =>
              Begun(u)' = IF u = Sender[cur[r]] THEN Begun(u) + 1 ELSE Begun(u)
         /\ \A v \in Users : FinishNotice(v) => Begun(u)' = Begun(u)
         /\ Restart => Begun(u)' = Begun(u)
<1>1. /\ notices \in [Users -> Notices] /\ notices[u] \in Notices
      /\ notices[u].pending \in Nat /\ notices[u].told \in Nat
      /\ notices[u].untold \in Nat
  BY NoticesType DEF TypeInv, TypeOK
<1>2. UNCHANGED notices => Begun(u)' = Begun(u)
  BY DEF Begun
<1>3. ASSUME NEW r \in Requests, SpawnNotice(r)
      PROVE  Begun(u)' = IF u = Sender[cur[r]] THEN Begun(u) + 1 ELSE Begun(u)
  <2>1. notices'[u] = IF u = Sender[cur[r]]
                      THEN [notices[u] EXCEPT !.pending = @ + 1] ELSE notices[u]
    BY <1>1, <1>3 DEF SpawnNotice
  <2> QED
    BY <1>1, <2>1 DEF Begun, Notices
<1>4. ASSUME NEW v \in Users, FinishNotice(v) PROVE Begun(u)' = Begun(u)
  <2>1. \/ notices'[u] = notices[u]
        \/ notices'[u] = [pending |-> notices[u].pending - 1, told |-> notices[u].told + 1,
                          untold |-> notices[u].untold]
        \/ notices'[u] = [pending |-> notices[u].pending - 1, told |-> notices[u].told,
                          untold |-> notices[u].untold + 1]
    BY <1>1, <1>4 DEF FinishNotice
  <2> QED
    BY <1>1, <2>1 DEF Begun
<1>5. ASSUME Restart PROVE Begun(u)' = Begun(u)
  <2>1. notices'[u] = [pending |-> 0, told |-> notices[u].told,
                       untold |-> notices[u].untold + notices[u].pending]
    BY <1>5 DEF Restart
  <2> QED
    BY <1>1, <2>1 DEF Begun
<1> QED
  BY <1>2, <1>3, <1>4, <1>5

LEMMA MeetsGrows ==
  ASSUME TypeInv, NEW r \in Requests, NEW f \in Fates, Meets(r, f)
  PROVE  /\ \A n \in Messages, g \in Fates : fate'[n][g] >= fate[n][g]
         /\ cur[r] \in Messages => fate'[cur[r]][f] = fate[cur[r]][f] + 1
BY DEF TypeInv, TypeOK, Meets

\* The notices that were begun, and what became of messages, are not taken back.
LEMMA CountsGrow ==
  ASSUME TypeInv, [Next]_vars
  PROVE  /\ \A n \in Messages, f \in Fates : fate'[n][f] >= fate[n][f]
         /\ \A u \in Users : Begun(u)' >= Begun(u)
<1> DEFINE Goal == /\ \A n \in Messages, f \in Fates : fate'[n][f] >= fate[n][f]
                   /\ \A u \in Users : Begun(u)' >= Begun(u)
<1> USE DEF limiting
<1>1. fate \in [Messages -> [Fates -> Nat]] /\ \A u \in Users : Begun(u) \in Nat
  BY BegunType DEF TypeInv, TypeOK
<1>2. ASSUME UNCHANGED <<fate, notices>> PROVE Goal
  BY <1>1, <1>2, BegunChanges
<1>3. ASSUME NEW r \in Requests, NEW f \in Fates, Meets(r, f), UNCHANGED notices
      PROVE  Goal
  BY <1>1, <1>3, MeetsGrows, BegunChanges
<1>4. ASSUME NEW r \in Requests, SpawnNotice(r) PROVE Goal
  <2>1. "limited" \in Fates /\ Meets(r, "limited")
    BY <1>4 DEF SpawnNotice, Fates
  <2>2. \A u \in Users : Begun(u)' >= Begun(u)
    BY <1>1, <1>4, BegunChanges
  <2> QED
    BY <2>1, <2>2, MeetsGrows
<1>5. ASSUME NEW r \in Requests,
             LookupFails(r) \/ LookupSettles(r) \/ Dispatch(r) \/ SkipNotice(r) \/ Cancel(r)
      PROVE  Goal
  <2>1. \E f \in Fates : Meets(r, f)
    <3>1. CASE LookupSettles(r)
      BY <3>1 DEF LookupSettles, Route, Fates
    <3> QED
      BY <1>5, <3>1 DEF LookupFails, Dispatch, SkipNotice, Cancel, Fates
  <2>2. UNCHANGED notices
    BY <1>5 DEF LookupFails, LookupSettles, Dispatch, SkipNotice, Cancel
  <2> QED
    BY <2>1, <2>2, <1>3
<1>6. CASE Restart
  <2>1. \A n \in Messages :
          fate'[n] = [fate[n] EXCEPT !["crashed"] = @ + Cardinality(InFlight(n))]
    BY <1>6 DEF Restart
  <2>2. ASSUME NEW n \in Messages, NEW f \in Fates PROVE fate'[n][f] >= fate[n][f]
    <3>1. fate[n] \in [Fates -> Nat] /\ Cardinality(InFlight(n)) \in Nat
      BY <1>1, FlightFinite
    <3>2. fate[n][f] \in Nat
      BY <3>1
    <3>3. fate'[n][f] =
            IF f = "crashed" THEN fate[n][f] + Cardinality(InFlight(n)) ELSE fate[n][f]
      BY <2>1, <3>1
    <3> QED
      BY <3>1, <3>2, <3>3
  <2> QED
    BY <1>1, <1>6, <2>2, BegunChanges
<1>7. ASSUME NEW r \in Requests,
             \/ RejectForged(r) \/ RejectUnparsable(r) \/ Refuse(r) \/ Admit(r)
             \/ LookupProceeds(r) \/ SendReceived(r) \/ SendRead(r) \/ Limit(r)
             \/ MissNotice(r) \/ InsertNotice(r)
      PROVE  Goal
  <2>1. UNCHANGED <<fate, notices>>
    BY <1>7
    DEF RejectForged, RejectUnparsable, Refuse, RefuseTimestamp, RefuseDuplicate, Admit,
        LookupProceeds, SendReceived, SendRead, Limit, MissNotice, InsertNotice
  <2> QED
    BY <1>2, <2>1
<1>8. CASE \/ \E r \in Requests, n \in Messages : Deliver(r, n)
           \/ \E n \in Messages : Evict(n) \/ Retire(n)
           \/ \E u \in Users : ExpireNotice(u)
           \/ UNCHANGED vars
  <2>1. UNCHANGED <<fate, notices>>
    BY <1>8 DEF Deliver, Evict, Retire, ExpireNotice, vars
  <2> QED
    BY <1>2, <2>1
<1>9. ASSUME NEW v \in Users, FinishNotice(v) PROVE Goal
  <2>1. UNCHANGED fate
    BY <1>9 DEF FinishNotice
  <2> QED
    BY <1>1, <1>9, <2>1, BegunChanges
<1> QED
  BY <1>4, <1>5, <1>6, <1>7, <1>8, <1>9 DEF Next, Step

\* A handler that is about to tell does so, or is dropped.
LEMMA TellerWaits ==
  ASSUME TypeInv, [Next]_vars, NEW q \in Requests, pc[q] = "spawnNotice"
  PROVE  \/ pc'[q] = pc[q] /\ cur'[q] = cur[q]
         \/ SpawnNotice(q) \/ Cancel(q) \/ Restart
<1> DEFINE Goal == \/ pc'[q] = pc[q] /\ cur'[q] = cur[q]
                   \/ SpawnNotice(q) \/ Cancel(q) \/ Restart
<1>1. ASSUME NEW r \in Requests, r # q, NEW stage, Goto(r, stage),
             UNCHANGED cur \/ \E m : cur' = [cur EXCEPT ![r] = m]
      PROVE  Goal
  BY <1>1 DEF Goto, TypeInv, TypeOK
<1>2. ASSUME NEW r \in Requests, r # q, Leave(r) PROVE Goal
  BY <1>1, <1>2 DEF Leave
<1>3. ASSUME NEW r \in Requests, NEW m \in Messages, Deliver(r, m) PROVE Goal
  BY <1>1, <1>3 DEF Deliver
<1>4. ASSUME NEW r \in Requests,
             \/ RejectForged(r) \/ RejectUnparsable(r) \/ Refuse(r) \/ LookupFails(r)
             \/ LookupSettles(r) \/ Dispatch(r) \/ SkipNotice(r)
      PROVE  Goal
  <2>1. r # q /\ Leave(r)
    BY <1>4
    DEF RejectForged, RejectUnparsable, Refuse, RefuseTimestamp, RefuseDuplicate,
        LookupFails, LookupSettles, Dispatch, SkipNotice, AnswerOk, AnswerFailure
  <2> QED
    BY <1>2, <2>1
<1>5. ASSUME NEW r \in Requests,
             \/ Admit(r) \/ LookupProceeds(r) \/ SendReceived(r) \/ SendRead(r)
             \/ Limit(r) \/ MissNotice(r) \/ InsertNotice(r)
      PROVE  Goal
  <2>1. r # q /\ UNCHANGED cur /\ \E stage : Goto(r, stage)
    BY <1>5
    DEF Admit, LookupProceeds, SendReceived, SendRead, Limit, MissNotice, InsertNotice
  <2> QED
    BY <1>1, <2>1
<1>6. ASSUME NEW r \in Requests, SpawnNotice(r) \/ Cancel(r) PROVE Goal
  <2>1. CASE r = q
    BY <1>6, <2>1
  <2>2. CASE r # q
    BY <1>2, <1>6, <2>2 DEF SpawnNotice, Cancel, AnswerFailure
  <2> QED
    BY <2>1, <2>2
<1>7. CASE \/ \E m \in Messages : Evict(m) \/ Retire(m)
           \/ \E u \in Users : ExpireNotice(u) \/ FinishNotice(u)
           \/ UNCHANGED vars
  BY <1>7 DEF Evict, Retire, ExpireNotice, FinishNotice, vars
<1> QED
  BY <1>3, <1>4, <1>5, <1>6, <1>7 DEF Next, Step

\* For whom a notice was begun, or is owed, that stays so.
LEMMA ToldStays ==
  ASSUME TypeInv, [Next]_vars, NEW u \in Users, Told(u)
  PROVE  Told(u)'
<1> DEFINE Cut(n) == fate[n]["cancelled"] + fate[n]["crashed"] > 0
<1>1. /\ fate \in [Messages -> [Fates -> Nat]] /\ fate' \in [Messages -> [Fates -> Nat]]
      /\ Begun(u) \in Nat
  BY NextTypeInv, BegunType DEF TypeInv, TypeOK
<1>2. CASE Begun(u) > 0
  <2>1. notices' \in [Users -> Notices]
    BY NextTypeInv DEF TypeInv, TypeOK
  <2>2. Begun(u)' \in Nat
    BY <2>1 DEF Begun, Notices
  <2>3. Begun(u)' > 0
    BY <1>1, <1>2, <2>2, CountsGrow
  <2> QED
    BY <2>3 DEF Told
<1>3. ASSUME NEW n \in Messages, Sender[n] = u, Cut(n) PROVE Told(u)'
  <2>1. /\ fate'[n]["cancelled"] >= fate[n]["cancelled"]
        /\ fate'[n]["crashed"] >= fate[n]["crashed"]
        /\ fate[n] \in [Fates -> Nat] /\ fate'[n] \in [Fates -> Nat]
    BY <1>1, CountsGrow DEF Fates
  <2>2. Cut(n)'
    BY <1>3, <2>1 DEF Fates
  <2> QED
    BY <1>3, <2>2 DEF Told
<1>4. ASSUME NEW r \in Requests, pc[r] = "spawnNotice", Sender[cur[r]] = u
      PROVE  Told(u)'
  <2>1. cur[r] \in Messages
    BY <1>4 DEF TypeInv, Held
  <2>2. CASE pc'[r] = pc[r] /\ cur'[r] = cur[r]
    BY <1>4, <2>2 DEF Told
  <2>3. CASE SpawnNotice(r)
    BY <1>1, <1>4, <2>3, BegunChanges DEF Told
  <2>4. CASE Cancel(r)
    <3>1. fate'[cur[r]]["cancelled"] = fate[cur[r]]["cancelled"] + 1
      BY <2>1, <2>4, MeetsGrows DEF Cancel, Fates
    <3>2. /\ fate[cur[r]] \in [Fates -> Nat] /\ fate'[cur[r]] \in [Fates -> Nat]
      BY <1>1, <2>1
    <3>3. fate'[cur[r]]["cancelled"] + fate'[cur[r]]["crashed"] > 0
      BY <3>1, <3>2 DEF Fates
    <3> QED
      BY <1>4, <2>1, <3>3 DEF Told
  <2>5. CASE Restart
    <3>1. r \in InFlight(cur[r])
      BY <1>4 DEF InFlight
    <3>2. Cardinality(InFlight(cur[r])) \in Nat /\ Cardinality(InFlight(cur[r])) # 0
      BY <3>1, FlightFinite, FS_EmptySet
    <3>3. fate'[cur[r]] =
            [fate[cur[r]] EXCEPT !["crashed"] = @ + Cardinality(InFlight(cur[r]))]
      BY <2>1, <2>5 DEF Restart
    <3>4. fate[cur[r]] \in [Fates -> Nat]
      BY <1>1, <2>1
    <3>5. fate'[cur[r]]["cancelled"] + fate'[cur[r]]["crashed"] > 0
      BY <3>2, <3>3, <3>4 DEF Fates
    <3> QED
      BY <1>4, <2>1, <3>5 DEF Told
  <2> QED
    BY <1>4, <2>2, <2>3, <2>4, <2>5, TellerWaits
<1> QED
  BY <1>2, <1>3, <1>4 DEF Told

LEMMA NextNoticed == ToldInv /\ [Next]_vars => NoticedIsTold'
<1> SUFFICES ASSUME ToldInv, [Next]_vars, NEW u \in notified' PROVE Told(u)'
  BY DEF NoticedIsTold
<1> USE DEF limiting
<1>1. TypeInv /\ notified \subseteq Users
  BY DEF ToldInv, TypeInv, TypeOK
<1>2. CASE u \in notified
  BY <1>1, <1>2, ToldStays DEF ToldInv, NoticedIsTold
<1>3. ASSUME NEW r \in Requests, InsertNotice(r), u \notin notified PROVE Told(u)'
  <2>1. u = Sender[cur[r]] /\ cur'[r] = cur[r] /\ pc'[r] = "spawnNotice"
    BY <1>3, <1>1 DEF InsertNotice, Goto, TypeInv, TypeOK
  <2> QED
    BY <2>1 DEF Told
<1>4. ASSUME NEW r \in Requests, Step(r), ~InsertNotice(r) PROVE UNCHANGED notified
  BY <1>4
  DEF Step, RejectForged, RejectUnparsable, Refuse, RefuseTimestamp, RefuseDuplicate,
      Admit, LookupFails, LookupSettles, LookupProceeds, SendReceived, SendRead, Dispatch,
      Limit, SkipNotice, MissNotice, SpawnNotice
<1>5. CASE \/ \E r \in Requests, m \in Messages : Deliver(r, m)
           \/ \E r \in Requests : Cancel(r)
           \/ Restart
           \/ \E m \in Messages : Evict(m) \/ Retire(m)
           \/ \E v \in Users : ExpireNotice(v) \/ FinishNotice(v)
           \/ UNCHANGED vars
  <2>1. notified' \subseteq notified
    BY <1>5 DEF Deliver, Cancel, Restart, Evict, Retire, ExpireNotice, FinishNotice, vars
  <2> QED
    BY <1>2, <2>1
<1> QED
  BY <1>2, <1>3, <1>4, <1>5 DEF Next

LEMMA NextLimited == ToldInv /\ [Next]_vars => LimitedIsTold'
<1> SUFFICES ASSUME ToldInv, [Next]_vars, NEW m \in Messages, fate'[m]["limited"] > 0
             PROVE  Told(Sender[m])'
  BY DEF LimitedIsTold, Told
<1>1. /\ TypeInv /\ fate[m] \in [Fates -> Nat] /\ Begun(Sender[m]) \in Nat
      /\ Sender[m] \in Users /\ "limited" \in Fates
  BY WebhookHandlerAssumption, BegunType DEF ToldInv, TypeInv, TypeOK, Fates
<1>2. CASE Told(Sender[m])
  BY <1>1, <1>2, ToldStays
<1>3. CASE fate[m]["limited"] > 0
  BY <1>2, <1>3 DEF ToldInv, LimitedIsTold, Told
<1>4. ASSUME NEW r \in Requests, NEW f \in Fates, Meets(r, f), f # "limited" \/ m # cur[r]
      PROVE  fate'[m]["limited"] = fate[m]["limited"]
  BY <1>1, <1>4 DEF Meets, TypeInv, TypeOK
<1>5. ASSUME NEW r \in Requests, SkipNotice(r) PROVE Told(Sender[m])'
  <2>1. CASE m = cur[r]
    BY <1>2, <1>5, <2>1 DEF SkipNotice, ToldInv, NoticedIsTold
  <2>2. CASE m # cur[r]
    BY <1>1, <1>3, <1>4, <1>5, <2>2 DEF SkipNotice
  <2> QED
    BY <2>1, <2>2
<1>6. ASSUME NEW r \in Requests, SpawnNotice(r) PROVE Told(Sender[m])'
  <2>1. CASE m = cur[r]
    BY <1>1, <1>6, <2>1, BegunChanges DEF Told
  <2>2. CASE m # cur[r]
    BY <1>1, <1>3, <1>4, <1>6, <2>2 DEF SpawnNotice
  <2> QED
    BY <2>1, <2>2
<1>7. ASSUME NEW r \in Requests,
             LookupFails(r) \/ LookupSettles(r) \/ Dispatch(r) \/ Cancel(r)
      PROVE  Told(Sender[m])'
  <2>1. \E f \in Fates \ {"limited"} : Meets(r, f)
    <3>1. CASE LookupSettles(r)
      BY <3>1 DEF LookupSettles, Route, Fates
    <3> QED
      BY <1>7, <3>1 DEF LookupFails, Dispatch, Cancel, Fates
  <2> QED
    BY <1>3, <1>4, <2>1
<1>8. CASE Restart
  <2>1. fate'[m]["limited"] = fate[m]["limited"]
    BY <1>1, <1>8 DEF Restart
  <2> QED
    BY <1>3, <2>1
<1>9. ASSUME NEW r \in Requests,
             \/ RejectForged(r) \/ RejectUnparsable(r) \/ Refuse(r) \/ Admit(r)
             \/ LookupProceeds(r) \/ SendReceived(r) \/ SendRead(r) \/ Limit(r)
             \/ MissNotice(r) \/ InsertNotice(r)
      PROVE  Told(Sender[m])'
  <2>1. UNCHANGED fate
    BY <1>9
    DEF RejectForged, RejectUnparsable, Refuse, RefuseTimestamp, RefuseDuplicate, Admit,
        LookupProceeds, SendReceived, SendRead, Limit, MissNotice, InsertNotice
  <2> QED
    BY <1>3, <2>1
<1>10. CASE \/ \E r \in Requests, n \in Messages : Deliver(r, n)
            \/ \E n \in Messages : Evict(n) \/ Retire(n)
            \/ \E u \in Users : ExpireNotice(u) \/ FinishNotice(u)
            \/ UNCHANGED vars
  <2>1. UNCHANGED fate
    BY <1>10 DEF Deliver, Evict, Retire, ExpireNotice, FinishNotice, vars
  <2> QED
    BY <1>3, <2>1
<1> QED
  BY <1>5, <1>6, <1>7, <1>8, <1>9, <1>10 DEF Next, Step

\* For a user whose message was refused by the rate limiter a notice was begun or is
\* about to be, unless a closed connection or a restart came in between: also when
\* his handler left it to one that had filled the cache and not yet begun the notice
\* (server/mod.rs, the notification cache).  Its task may still fail to tell him.
THEOREM WebhookHandlerLimitedIsTold == Spec => []LimitedIsTold
<1>1. Init => ToldInv
  BY InitTypeInv DEF Init, ToldInv, NoticedIsTold, LimitedIsTold, Fates
<1>2. ToldInv /\ [Next]_vars => ToldInv'
  BY NextTypeInv, NextNoticed, NextLimited DEF ToldInv
<1>3. ToldInv => LimitedIsTold
  BY DEF ToldInv
<1> QED
  BY <1>1, <1>2, <1>3, PTL DEF Spec

-----------------------------------------------------------------------------

\* The handlers about messages of u that are in one of the stages S.
Tellers(S, u) == {r \in Requests : pc[r] \in S /\ Sender[cur[r]] = u}

Inserting(u) == Cardinality(Tellers({"insertNotice"}, u))
Spawning(u) == Cardinality(Tellers({"spawnNotice"}, u))

Allowance(u) == Cardinality(Requests) * expiries[u]

\* A loss of the entry of u lets each handler begin one notice more: those that have
\* missed the entry do not use it up before one of them has filled it again.
FewTellers(u) ==
  IF u \in notified
  THEN Begun(u) + Inserting(u) + Spawning(u) <= Allowance(u) + Cardinality(Requests)
  ELSE Begun(u) + Spawning(u) <= Allowance(u)

NoticeInv == TypeInv /\ \A u \in Users : FewTellers(u)

LEMMA TellersFinite ==
  \A S, u : /\ IsFiniteSet(Tellers(S, u))
            /\ Cardinality(Tellers(S, u)) \in Nat
            /\ Cardinality(Tellers(S, u)) <= Cardinality(Requests)
<1> TAKE S, u
<1>1. Tellers(S, u) \subseteq Requests
  BY DEF Tellers
<1> QED
  BY <1>1, WebhookHandlerAssumption, FS_Subset, FS_CardinalityType

LEMMA NoticeType ==
  ASSUME TypeInv, NEW u \in Users
  PROVE  /\ Begun(u) \in Nat /\ expiries[u] \in Nat
         /\ Cardinality(Requests) \in Nat /\ Allowance(u) \in Nat
         /\ Inserting(u) \in Nat /\ Inserting(u) <= Cardinality(Requests)
         /\ Spawning(u) \in Nat
<1>1. Begun(u) \in Nat /\ expiries[u] \in Nat
  BY BegunType DEF TypeInv, TypeOK
<1>2. Cardinality(Requests) \in Nat
  BY WebhookHandlerAssumption, FS_CardinalityType
<1>3. \A n, e \in Nat : n * e \in Nat
  OBVIOUS
<1> QED
  BY <1>1, <1>2, <1>3, TellersFinite DEF Inserting, Spawning, Allowance

LEMMA AllowanceGrows ==
  ASSUME TypeInv, NEW u \in Users
  PROVE  /\ expiries'[u] = expiries[u] => Allowance(u)' = Allowance(u)
         /\ expiries'[u] = expiries[u] + 1 =>
              Allowance(u)' = Allowance(u) + Cardinality(Requests)
<1>1. \A n, e \in Nat : n * (e + 1) = n * e + n
  OBVIOUS
<1> QED
  BY <1>1, NoticeType DEF Allowance

\* The two numbers, when r moves from one stage to another.
LEMMA TellersChange ==
  ASSUME TypeInv, NEW r \in Requests, NEW stage \in Stages,
         \/ Goto(r, stage) /\ UNCHANGED cur
         \/ stage = "idle" /\ Leave(r),
         NEW u \in Users
  PROVE  /\ u # Sender[cur[r]] => Inserting(u)' = Inserting(u) /\ Spawning(u)' = Spawning(u)
         /\ u = Sender[cur[r]] =>
              /\ Inserting(u)' = Inserting(u) + (IF stage = "insertNotice" THEN 1 ELSE 0)
                                              - (IF pc[r] = "insertNotice" THEN 1 ELSE 0)
              /\ Spawning(u)' = Spawning(u) + (IF stage = "spawnNotice" THEN 1 ELSE 0)
                                            - (IF pc[r] = "spawnNotice" THEN 1 ELSE 0)
<1>1. ASSUME NEW s, s # "idle"
      PROVE  Cardinality(Tellers({s}, u))' =
               IF u # Sender[cur[r]] THEN Cardinality(Tellers({s}, u))
               ELSE Cardinality(Tellers({s}, u)) + (IF stage = s THEN 1 ELSE 0)
                                                 - (IF pc[r] = s THEN 1 ELSE 0)
  <2> DEFINE T == Tellers({s}, u)
  <2>1. /\ \A q \in Requests : q # r => pc'[q] = pc[q] /\ cur'[q] = cur[q]
        /\ pc'[r] = stage
        /\ stage = s => cur'[r] = cur[r]
    BY <1>1 DEF Goto, Leave, TypeInv, TypeOK
  <2>2. CASE u # Sender[cur[r]] \/ (stage = s <=> pc[r] = s)
    <3>1. T' = T
      BY <2>1, <2>2 DEF Tellers
    <3>2. Cardinality(T)' = Cardinality(T) /\ Cardinality(T) \in Nat
      BY <3>1, TellersFinite
    <3> QED
      BY <2>2, <3>2
  <2>3. CASE u = Sender[cur[r]] /\ stage = s /\ pc[r] # s
    <3>1. T' = T \cup {r} /\ r \notin T
      BY <2>1, <2>3 DEF Tellers
    <3>2. Cardinality(T \cup {r}) = Cardinality(T) + 1 /\ Cardinality(T) \in Nat
      BY <3>1, TellersFinite, FS_AddElement
    <3>3. Cardinality(T)' = Cardinality(T) + 1
      BY <3>1, <3>2
    <3> QED
      BY <2>3, <3>2, <3>3
  <2>4. CASE u = Sender[cur[r]] /\ stage # s /\ pc[r] = s
    <3>1. T' = T \ {r} /\ r \in T
      BY <2>1, <2>4 DEF Tellers
    <3>2. Cardinality(T \ {r}) = Cardinality(T) - 1 /\ Cardinality(T) \in Nat
      BY <3>1, TellersFinite, FS_RemoveElement
    <3>3. Cardinality(T)' = Cardinality(T) - 1
      BY <3>1, <3>2
    <3> QED
      BY <2>4, <3>2, <3>3
  <2> QED
    BY <2>2, <2>3, <2>4
<1>2. Inserting(u)' =
        IF u # Sender[cur[r]] THEN Inserting(u)
        ELSE Inserting(u) + (IF stage = "insertNotice" THEN 1 ELSE 0)
                          - (IF pc[r] = "insertNotice" THEN 1 ELSE 0)
  BY <1>1 DEF Inserting
<1>3. Spawning(u)' =
        IF u # Sender[cur[r]] THEN Spawning(u)
        ELSE Spawning(u) + (IF stage = "spawnNotice" THEN 1 ELSE 0)
                         - (IF pc[r] = "spawnNotice" THEN 1 ELSE 0)
  BY <1>1 DEF Spawning
<1> QED
  BY <1>2, <1>3

LEMMA NextFewTellers == NoticeInv /\ [Next]_vars => \A u \in Users : FewTellers(u)'
<1> SUFFICES ASSUME NoticeInv, [Next]_vars, NEW u \in Users PROVE FewTellers(u)'
  OBVIOUS
<1> USE DEF limiting
<1>1. TypeInv /\ FewTellers(u)
  BY DEF NoticeInv
<1>2. /\ Begun(u) \in Nat /\ expiries[u] \in Nat
      /\ Cardinality(Requests) \in Nat /\ Allowance(u) \in Nat
      /\ Inserting(u) \in Nat /\ Inserting(u) <= Cardinality(Requests)
      /\ Spawning(u) \in Nat
  BY <1>1, NoticeType
<1>3. UNCHANGED expiries => Allowance(u)' = Allowance(u)
  BY <1>1, AllowanceGrows
<1>4. ASSUME Inserting(u)' \in Int, Inserting(u)' <= Inserting(u),
             Spawning(u)' \in Int, Spawning(u)' <= Spawning(u),
             UNCHANGED <<notified, notices, expiries>>
      PROVE  FewTellers(u)'
  BY <1>1, <1>2, <1>3, <1>4, BegunChanges DEF FewTellers
<1>5. ASSUME NEW r \in Requests, NEW stage \in Stages \ {"insertNotice", "spawnNotice"},
             \/ Goto(r, stage) /\ UNCHANGED cur
             \/ stage = "idle" /\ Leave(r),
             UNCHANGED <<notified, notices, expiries>>
      PROVE  FewTellers(u)'
  BY <1>1, <1>2, <1>4, <1>5, TellersChange
<1>6. ASSUME NEW r \in Requests,
             \/ RejectForged(r) \/ RejectUnparsable(r) \/ Refuse(r) \/ LookupFails(r)
             \/ LookupSettles(r) \/ Dispatch(r) \/ SkipNotice(r) \/ Cancel(r)
      PROVE  FewTellers(u)'
  <2>1. Leave(r) /\ UNCHANGED <<notified, notices, expiries>>
    BY <1>6
    DEF RejectForged, RejectUnparsable, Refuse, RefuseTimestamp, RefuseDuplicate,
        LookupFails, LookupSettles, Dispatch, SkipNotice, Cancel, AnswerOk, AnswerFailure
  <2> QED
    BY <1>5, <2>1 DEF Stages
<1>7. ASSUME NEW r \in Requests,
             \/ Admit(r) \/ LookupProceeds(r) \/ SendReceived(r) \/ SendRead(r)
             \/ Limit(r)
      PROVE  FewTellers(u)'
  <2>1. /\ UNCHANGED <<cur, notified, notices, expiries>>
        /\ \E stage \in Stages \ {"insertNotice", "spawnNotice"} : Goto(r, stage)
    BY <1>7 DEF Admit, LookupProceeds, SendReceived, SendRead, Limit, Stages
  <2> QED
    BY <1>5, <2>1
<1>8. ASSUME NEW r \in Requests, MissNotice(r) PROVE FewTellers(u)'
  <2>1. /\ Goto(r, "insertNotice") /\ pc[r] = "getNotice"
        /\ Sender[cur[r]] \notin notified
        /\ UNCHANGED <<cur, notified, notices, expiries>>
    BY <1>8 DEF MissNotice
  <2>2. /\ u # Sender[cur[r]] => Inserting(u)' = Inserting(u)
        /\ Spawning(u)' = Spawning(u)
    BY <1>1, <1>2, <2>1, TellersChange DEF Stages
  <2> QED
    BY <1>1, <1>2, <1>3, <2>1, <2>2, BegunChanges DEF FewTellers
<1>9. ASSUME NEW r \in Requests, InsertNotice(r) PROVE FewTellers(u)'
  <2>1. /\ Goto(r, "spawnNotice") /\ pc[r] = "insertNotice"
        /\ notified' = notified \cup {Sender[cur[r]]}
        /\ UNCHANGED <<cur, notices, expiries>>
    BY <1>9 DEF InsertNotice
  <2>2. LET d == IF u = Sender[cur[r]] THEN 1 ELSE 0
        IN  Inserting(u)' = Inserting(u) - d /\ Spawning(u)' = Spawning(u) + d
    BY <1>1, <1>2, <2>1, TellersChange DEF Stages
  <2> QED
    BY <1>1, <1>2, <1>3, <2>1, <2>2, BegunChanges DEF FewTellers
<1>10. ASSUME NEW r \in Requests, SpawnNotice(r) PROVE FewTellers(u)'
  <2>1. /\ Leave(r) /\ pc[r] = "spawnNotice"
        /\ UNCHANGED <<notified, expiries>>
    BY <1>10 DEF SpawnNotice, AnswerFailure
  <2>2. Begun(u)' = Begun(u) + (IF u = Sender[cur[r]] THEN 1 ELSE 0)
    BY <1>1, <1>2, <1>10, BegunChanges
  <2>3. /\ Inserting(u)' = Inserting(u)
        /\ Spawning(u)' = Spawning(u) - (IF u = Sender[cur[r]] THEN 1 ELSE 0)
    BY <1>1, <1>2, <2>1, TellersChange DEF Stages
  <2> QED
    BY <1>1, <1>2, <1>3, <2>1, <2>2, <2>3 DEF FewTellers
<1>11. ASSUME Begun(u)' = Begun(u), u \notin notified',
              expiries'[u] = IF u \in notified THEN expiries[u] + 1 ELSE expiries[u],
              Spawning(u)' \in Nat, Spawning(u)' <= Spawning(u)
       PROVE  FewTellers(u)'
  <2>1. Allowance(u)' = IF u \in notified THEN Allowance(u) + Cardinality(Requests)
                                          ELSE Allowance(u)
    BY <1>1, <1>11, AllowanceGrows
  <2> QED
    BY <1>1, <1>2, <1>11, <2>1 DEF FewTellers
<1>12. CASE Restart
  <2>1. Tellers({"spawnNotice"}, u)' = {}
    BY <1>12 DEF Restart, Tellers
  <2>2. Spawning(u)' = 0
    BY <2>1, FS_EmptySet DEF Spawning
  <2>3. /\ Begun(u)' = Begun(u)
        /\ u \notin notified'
        /\ expiries'[u] = IF u \in notified THEN expiries[u] + 1 ELSE expiries[u]
    BY <1>1, <1>12, BegunChanges DEF Restart
  <2> QED
    BY <1>2, <1>11, <2>2, <2>3
<1>13. ASSUME UNCHANGED <<pc, cur>>
       PROVE  Inserting(u)' = Inserting(u) /\ Spawning(u)' = Spawning(u)
  BY <1>13 DEF Inserting, Spawning, Tellers
<1>14. ASSUME NEW v \in Users, ExpireNotice(v) PROVE FewTellers(u)'
  <2>1. CASE u = v
    BY <1>1, <1>2, <1>11, <1>13, <1>14, <2>1, BegunChanges
    DEF ExpireNotice, TypeInv, TypeOK
  <2>2. CASE u # v
    <3>1. /\ UNCHANGED <<pc, cur, notices>>
          /\ u \in notified' <=> u \in notified
          /\ expiries'[u] = expiries[u]
      BY <1>1, <1>14, <2>2 DEF ExpireNotice, TypeInv, TypeOK
    <3> QED
      BY <1>1, <1>13, <3>1, AllowanceGrows, BegunChanges DEF FewTellers
  <2> QED
    BY <2>1, <2>2
<1>15. CASE (\E m \in Messages : Evict(m) \/ Retire(m)) \/ UNCHANGED vars
  <2>1. UNCHANGED <<pc, cur, notified, notices, expiries>>
    BY <1>15 DEF Evict, Retire, vars
  <2> QED
    BY <1>2, <1>4, <1>13, <2>1
<1>16. ASSUME NEW r \in Requests, NEW m \in Messages, Deliver(r, m) PROVE FewTellers(u)'
  <2>1. \A S : "idle" \notin S /\ "arrived" \notin S => Tellers(S, u)' = Tellers(S, u)
    BY <1>1, <1>16 DEF Deliver, Goto, Tellers, TypeInv, TypeOK
  <2>2. Inserting(u)' = Inserting(u) /\ Spawning(u)' = Spawning(u)
    BY <2>1 DEF Inserting, Spawning
  <2> QED
    BY <1>2, <1>4, <1>16, <2>2 DEF Deliver
<1>17. ASSUME NEW v \in Users, FinishNotice(v) PROVE FewTellers(u)'
  <2>1. UNCHANGED <<pc, cur, notified, expiries>>
    BY <1>17 DEF FinishNotice
  <2> QED
    BY <1>1, <1>3, <1>13, <1>17, <2>1, BegunChanges DEF FewTellers
<1> QED
  BY <1>6, <1>7, <1>8, <1>9, <1>10, <1>12, <1>14, <1>15, <1>16, <1>17 DEF Next, Step

\* No more notices are begun for a user than there are handlers at work, per time the
\* cache has lost the user's entry: handlers that overlap may all find it missing
\* (server/mod.rs looks into the notification cache before it awaits the insert).
THEOREM WebhookHandlerFewNotices == Spec => []FewNotices
<1>1. Init => NoticeInv
  <2> SUFFICES ASSUME Init, NEW u \in Users PROVE FewTellers(u)
    BY InitTypeInv DEF NoticeInv
  <2>1. Tellers({"spawnNotice"}, u) = {}
    BY DEF Init, Tellers
  <2>2. Spawning(u) = 0
    BY <2>1, FS_EmptySet DEF Spawning
  <2> QED
    BY <2>2, InitTypeInv, NoticeType DEF Init, FewTellers, Begun, NoNotices
<1>2. NoticeInv /\ [Next]_vars => NoticeInv'
  BY NextTypeInv, NextFewTellers DEF NoticeInv
<1>3. NoticeInv => FewNotices
  <2> SUFFICES ASSUME NoticeInv, NEW u \in Users
               PROVE  Begun(u) <= Cardinality(Requests) * (1 + expiries[u])
    BY DEF FewNotices
  <2>1. \A n, e \in Nat : n * (1 + e) = n * e + n
    OBVIOUS
  <2>2. Cardinality(Requests) * (1 + expiries[u]) = Allowance(u) + Cardinality(Requests)
    BY <2>1, NoticeType DEF NoticeInv, Allowance
  <2> QED
    BY <2>2, NoticeType DEF NoticeInv, FewTellers
<1> QED
  BY <1>1, <1>2, <1>3, PTL DEF Spec

=============================================================================
