--------------------------- MODULE MCTypingHandle ---------------------------
(***************************************************************************)
(* TypingHandle on small instances; the cfg files give all the values.     *)
(***************************************************************************)
EXTENDS TypingHandle

=============================================================================
