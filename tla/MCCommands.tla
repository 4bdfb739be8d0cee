----------------------------- MODULE MCCommands -----------------------------
(* A name, a name that begins with it, the reserved one, and one of two words. *)
EXTENDS Commands

MCPieces == {"x"}
MCNames == {<<"x">>, <<"x", "x">>, Help, <<"x", Space, "x">>}

=============================================================================
