------------------------------ MODULE MCLowering ------------------------------
(* Values for the constants of Lowering that a cfg cannot write. *)
EXTENDS Lowering

CONSTANTS x, y

NoneOrX == {<<>>, <<x>>}
Lists   == {<<x>>, <<x, y>>, <<x, x>>}
=============================================================================
