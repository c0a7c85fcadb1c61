------------------------------- MODULE Session -------------------------------
(***************************************************************************)
(* What an interactive session promises, without modules, prototypes or    *)
(* trackers: an environment of symbols that only grows, and expressions    *)
(* that run, one at a time, only code of that environment, all of it       *)
(* linked.  Running an expression leaves the environment as it is.         *)
(***************************************************************************)
CONSTANTS
    SymbolName, \* names of functions
    Code,       \* what a name can be bound to: records with a field uses
    Process,    \* names the process itself defines
    External    \* what such a name is bound to

VARIABLES
    env,        \* the environment
    running,    \* names of the code the current expression can reach
    open        \* TRUE until the session ends

svars == <<env, running, open>>

Linked(e, T) == T \subseteq DOMAIN e /\ \A n \in T : e[n].uses \subseteq T

Bind(S, c) == env' = [n \in DOMAIN env \cup S |-> IF n \in DOMAIN env THEN env[n] ELSE c]

Init == env = [n \in {} |-> External] /\ running = {} /\ open = TRUE

Define == \E n \in SymbolName \ DOMAIN env, c \in Code :
    open /\ running = {} /\ Bind({n}, c) /\ UNCHANGED <<running, open>>

\* The symbols of the process that the expression needs are bound with it.
Start == \E S \in SUBSET (Process \ DOMAIN env) :
    /\ open
    /\ running = {}
    /\ Bind(S, External)
    /\ \E T \in SUBSET (DOMAIN env \cup S) : Linked(env', T) /\ running' = T
    /\ UNCHANGED open

Finish == open /\ running' = {} /\ UNCHANGED <<env, open>>

Close == open /\ running = {} /\ open' = FALSE /\ UNCHANGED <<env, running>>

Next == Define \/ Start \/ Finish \/ Close

Spec == Init /\ [][Next]_svars
=============================================================================
