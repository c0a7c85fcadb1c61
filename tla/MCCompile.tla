------------------------------ MODULE MCCompile ------------------------------
(* Values for the constants of Compile that a cfg cannot write. *)
EXTENDS Compile

CONSTANTS x, y

UpToOne   == {<<>>, <<x>>}
NoneOrTwo == {<<>>, <<x, y>>}
UpToTwo   == {<<>>, <<x>>, <<x, y>>}
=============================================================================
