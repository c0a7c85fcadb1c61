-------------------------------- MODULE Reader --------------------------------
(***************************************************************************)
(* What the loop of a driver promises about its input, without tokens or   *)
(* trees: it reads construct after construct, each of which takes a token  *)
(* at least whether it is accepted or not, and it comes to an end.  This   *)
(* is how Compile sees its file.                                           *)
(***************************************************************************)
EXTENDS Naturals

VARIABLES
    left,       \* tokens that are not read yet, the current one included
    place,      \* in the loop, generating a construct, or at the end
    full        \* TRUE once no further expression is accepted

rvars == <<left, place, full>>

Init == left \in Nat /\ place = "loop" /\ full = FALSE

\* A construct that is accepted, or one that is not, or a semicolon.
Take == /\ place = "loop"
        /\ left' \in 0..left - 1
        /\ place' \in {"loop", "codegen"}
        /\ UNCHANGED full

Generate == /\ place = "codegen"
            /\ place' = "loop"
            /\ full' \in {full, TRUE}
            /\ UNCHANGED left

End == /\ place = "loop"
       /\ left = 0 \/ full
       /\ place' = "end"
       /\ UNCHANGED <<left, full>>

Next == Take \/ Generate \/ End

Spec == Init /\ [][Next]_rvars /\ WF_rvars(Next)
=============================================================================
