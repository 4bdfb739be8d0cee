------------------------------- MODULE MCBot -------------------------------
(***************************************************************************)
(* Bot on small instances.                                                 *)
(***************************************************************************)
EXTENDS Bot

CONSTANTS u1, u2

OneSender == [m \in Messages |-> u1]

\* The bot answers with one text, or not at all.
ShortPlans == {<< >>, <<"text">>}

=============================================================================
