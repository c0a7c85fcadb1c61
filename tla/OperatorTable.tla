---------------------------- MODULE OperatorTable ----------------------------
(***************************************************************************)
(* The table of binary operators (include/OperatorTable.h): the parser     *)
(* asks it for the precedence of its current token, the code generator     *)
(* writes it when a function named after an operator is generated.         *)
(***************************************************************************)
EXTENDS Integers

CONSTANT Char   \* the ASCII characters that are tokens by themselves

ASSUME CharAssumption == {"=", "<", "+", "-", "*", "(", ")", ",", ";"} \subseteq Char

VARIABLE table  \* Precedence

Builtin == [o \in {"=", "<", "+", "-", "*"} |->
    CASE o = "=" -> 2 [] o = "<" -> 10 [] o = "*" -> 40 [] OTHER -> 20]

TableInit == table = Builtin

\* No entry, or none that is positive, is no operator; nor is a token outside ASCII.
GetPrecedence(t) ==
    IF t \in DOMAIN table /\ table[t] > 0 THEN table[t] ELSE -1

\* SlipKept, as insert() of a map would do it, is a fault that a property of Frontend is
\* tried against; no action uses it.
SlipKept(o, p) ==
    table' = [c \in DOMAIN table \cup {o} |-> IF c \in DOMAIN table THEN table[c] ELSE p]

SetPrecedence(o, p) ==
    table' = [c \in DOMAIN table \cup {o} |-> IF c = o THEN p ELSE table[c]]

Erase(o) == table' = [c \in DOMAIN table \ {o} |-> table[c]]
=============================================================================
