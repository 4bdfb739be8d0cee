-------------------------- MODULE MCWebhookHandler --------------------------
(***************************************************************************)
(* WebhookHandler on small instances.                                      *)
(***************************************************************************)
EXTENDS WebhookHandler, TLC

CONSTANT u1

OneSender == [m \in Messages |-> u1]

\* Requests are interchangeable, and so are the messages of one user.
OneSenderSymmetry == Permutations(Requests) \cup Permutations(Messages)

\* Of a lost call, a restart, a message refused too early and a message whose
\* handler was dropped, one; evictions and expiries come on top.
FewFaults ==
  lost + restarts + Cardinality(mistimed)
    + Cardinality({m \in Messages : fate[m]["cancelled"] > 0}) <= 1

=============================================================================
