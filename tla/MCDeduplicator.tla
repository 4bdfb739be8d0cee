--------------------------- MODULE MCDeduplicator ---------------------------
(***************************************************************************)
(* Deduplicator on small instances.                                        *)
(***************************************************************************)
EXTENDS Deduplicator, TLC

\* Requests and senders are interchangeable: no action names one of them.
Symmetry == Permutations(Requests) \cup Permutations(Senders)

=============================================================================
