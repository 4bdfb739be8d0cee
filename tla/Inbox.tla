------------------------------- MODULE Inbox -------------------------------
(***************************************************************************)
(* What duplicate detection promises the rest of the server, without       *)
(* clocks and caches: a message, identified by its (sender, message ID)    *)
(* pair, is let through when it is unknown, is refused while it is         *)
(* remembered, and once it is too old it is refused for ever.  A memory    *)
(* may lose what it remembers (a restart, an eviction); each loss of a     *)
(* message that is not yet too old is counted in `forgotten`.              *)
(*                                                                         *)
(* Deduplicator implements this module; WebhookHandler is built on it.     *)
(***************************************************************************)
EXTENDS Naturals

CONSTANT Messages       \* the (sender, message ID) pairs

VARIABLES
  status,     \* status[m]: "unseen", "seen" (remembered) or "retired" (too old)
  accepted,   \* accepted[m]: how often m was let through
  forgotten   \* forgotten[m]: how often the memory lost m before it was too old

vars == <<status, accepted, forgotten>>

Statuses == {"unseen", "seen", "retired"}

TypeOK ==
  /\ status \in [Messages -> Statuses]
  /\ accepted \in [Messages -> Nat]
  /\ forgotten \in [Messages -> Nat]

Init ==
  /\ status \in [Messages -> {"unseen", "retired"}]
  /\ accepted = [m \in Messages |-> 0]
  /\ forgotten = [m \in Messages |-> 0]

\* The first sight of a message: it is let through and remembered.
Accept(m) ==
  /\ status[m] = "unseen"
  /\ status' = [status EXCEPT ![m] = "seen"]
  /\ accepted' = [accepted EXCEPT ![m] = @ + 1]
  /\ UNCHANGED forgotten

\* The memory loses the messages of S at once.
Forget(S) ==
  /\ S # {}
  /\ \A m \in S : status[m] = "seen"
  /\ status' = [m \in Messages |-> IF m \in S THEN "unseen" ELSE status[m]]
  /\ forgotten' = [m \in Messages |->
                     IF m \in S THEN forgotten[m] + 1 ELSE forgotten[m]]
  /\ UNCHANGED accepted

\* The messages of S become too old to be let through ever again.
Retire(S) ==
  /\ S # {}
  /\ status' = [m \in Messages |-> IF m \in S THEN "retired" ELSE status[m]]
  /\ UNCHANGED <<accepted, forgotten>>

Next ==
  \/ \E m \in Messages : Accept(m)
  \/ \E S \in SUBSET Messages : Forget(S)
  \/ \E S \in SUBSET Messages : Retire(S)

Spec == Init /\ [][Next]_vars

\* Every time a message is let through again, the memory had lost it in
\* between (dedup.rs: exactly one caller receives DeduplicateResult::New).
AtMostOnce == \A m \in Messages : accepted[m] <= 1 + forgotten[m]

=============================================================================
