------------------------------- MODULE MCLexer -------------------------------
(* Values for the constants of Lexer that a cfg cannot write. *)
EXTENDS Lexer

If == {<<"i", "f">>}
=============================================================================
