-------------------------------- MODULE MCRepl --------------------------------
(* Values for the constants of Repl that a cfg cannot write. *)
EXTENDS Repl

CONSTANTS x, y

UpToTwo   == {<<>>, <<x>>, <<x, y>>}
NoneOrTwo == {<<>>, <<x, y>>}
=============================================================================
